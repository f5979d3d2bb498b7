--------------------------- MODULE MCNestApplication ---------------------------
(***************************************************************************)
(* Instances of NestApplication: a hybrid application and a microservice   *)
(* with proxies, features and buses, the latter closed by close() or by a  *)
(* signal, one under test, and those whose modules or buses do not come    *)
(* about.                                                                  *)
(***************************************************************************)
EXTENDS NestApplication

Import(how, name, given, inject) ==
  [how |-> how, name |-> name, given |-> given, inject |-> inject, class |-> "OptionsFactory"]

Setup(hybrid, modules, tokens, cqrs, package, buses) ==
  [hybrid |-> hybrid, signalled |-> FALSE, modules |-> modules,
   providers |-> {Provider("Config", {}, [is |-> "factory"])}, tokens |-> tokens,
   errors |-> {"KUBEMQ_SERVICE"}, cqrs |-> cqrs, package |-> package, buses |-> buses]

Root == Import("forRoot", SDK_CLIENT, "none", {})
RootAsync(given) == Import("forRootAsync", SDK_CLIENT, given, {"Config"})
Orders == Import("register", "ORDERS", "none", {})
Billing(given) == Import("registerAsync", "BILLING", given, {"Config"})
Items == Import("forFeature", "ITEMS", "none", {})
Stock(given, inject) == Import("forFeatureAsync", "STOCK", given, inject)
Test == Import("forTest", "KUBEMQ_SERVICE", "none", {})

Hybrid == Setup(TRUE, {RootAsync("useFactory"), Items, Orders}, {"ITEMS", "ORDERS"}, TRUE, TRUE, Buses)
Microservice ==
  Setup(FALSE, {RootAsync("useClass"), Billing("useFactory"), Stock("useFactory", {"Config"})},
        {"STOCK", "BILLING"}, TRUE, TRUE, Buses)
Signalled == [Microservice EXCEPT !.signalled = TRUE]
UnderTest == Setup(FALSE, {Test, Items}, {"KUBEMQ_SERVICE", "ITEMS"}, FALSE, TRUE, {})

Failing == {
  Setup(TRUE, {RootAsync("none")}, {SDK_CLIENT}, FALSE, TRUE, {}),
  Setup(TRUE, {RootAsync("useExisting")}, {SDK_CLIENT}, FALSE, TRUE, {}),
  Setup(FALSE, {Root, Stock("useExisting", {})}, {"STOCK"}, FALSE, TRUE, {}),
  Setup(FALSE, {Items}, {"ITEMS"}, FALSE, TRUE, {}),
  Setup(FALSE, {Orders}, {"ORDERS"}, TRUE, TRUE, Buses),
  Setup(TRUE, {Root}, {SDK_CLIENT}, TRUE, TRUE, {}),
  Setup(TRUE, {Root}, {SDK_CLIENT}, TRUE, TRUE, {"CommandBus", "QueryBus"}),
  Setup(FALSE, {Root, Billing("useClass")}, {"BILLING"}, TRUE, FALSE, {}) }

AllSetups == {Hybrid, Microservice, Signalled, UnderTest} \cup Failing

=============================================================================
