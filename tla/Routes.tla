------------------------------- MODULE Routes -------------------------------
(***************************************************************************)
(* The routes of the service, in the order in which they are registered,   *)
(* and the guards in front of them (the controllers of src, src/auth).     *)
(*                                                                         *)
(* A route is what the decorators of a method and of its class say: the    *)
(* verb, the path, @Public, @Roles and @RequirePermissions.  The version   *)
(* in front of the path, the texts for Swagger and the limit on the number *)
(* of requests are left out.                                               *)
(***************************************************************************)
EXTENDS Integers, Sequences

Id == ":"   \* a parameter of the path; as a segment of a request, any value

Route(verb, tail) == [verb |-> verb, path |-> tail, public |-> FALSE, roles |-> {}, permissions |-> {}]
Get(tail)     == Route("GET", tail)
Post(tail)    == Route("POST", tail)
Patch(tail)   == Route("PATCH", tail)
Delete(tail)  == Route("DELETE", tail)
Open(r)       == [r EXCEPT !.public = TRUE]
Admins(r)     == [r EXCEPT !.roles = {"ADMIN"}]
Replays(r)    == [r EXCEPT !.permissions = {"events:replay"}]

\* getAllAndOverride: what the method declares replaces what the class does.
Controller(name, prefix, classRoles, routes) ==
  [i \in DOMAIN routes |->
     [of |-> name, verb |-> routes[i].verb, path |-> prefix \o routes[i].path, public |-> routes[i].public,
      roles |-> IF routes[i].roles = {} THEN classRoles ELSE routes[i].roles, permissions |-> routes[i].permissions]]

---------------------------------------------------------------------------
RootRoutes == Controller("Root", <<>>, {}, <<Get(<<>>)>>)
HealthRoutes == Controller("Health", <<"health">>, {}, <<
  Open(Get(<<>>)), Open(Get(<<"live">>)), Open(Get(<<"ready">>))>>)
AuthRoutes == Controller("Auth", <<"auth">>, {}, <<
  Open(Post(<<"register">>)), Open(Post(<<"login">>)), Open(Post(<<"refresh">>)), Open(Post(<<"logout">>)),
  Open(Post(<<"forgot-password">>)), Open(Post(<<"reset-password">>)), Open(Post(<<"verify-email">>)),
  Get(<<"me">>)>>)
MeRoutes == Controller("Me", <<"users", "me">>, {}, <<
  Get(<<>>), Patch(<<"profile">>), Post(<<"avatar">>), Delete(<<"avatar">>), Get(<<"settings">>),
  Patch(<<"settings">>), Get(<<"preferences">>), Patch(<<"preferences">>), Get(<<"notifications">>),
  Patch(<<"notifications">>), Get(<<"privacy">>), Patch(<<"privacy">>)>>)
UserAdminRoutes == Controller("UserAdmin", <<"users">>, {"ADMIN"}, <<
  Get(<<>>), Get(<<Id>>), Patch(<<Id>>), Delete(<<Id>>)>>)
BrandsRoutes == Controller("Brands", <<"brands">>, {}, <<
  Post(<<>>), Open(Get(<<>>)), Open(Get(<<"by-slug", Id>>)), Open(Get(<<Id>>)), Patch(<<Id>>), Delete(<<Id>>),
  Patch(<<Id, "categories">>), Open(Get(<<Id, "profile">>)), Patch(<<Id, "profile">>)>>)
BrandAssetsRoutes == Controller("Brands", <<"brands">>, {}, <<
  Post(<<Id, "logo">>), Delete(<<Id, "logo">>), Post(<<Id, "cover">>), Delete(<<Id, "cover">>),
  Admins(Post(<<Id, "verify">>)), Admins(Delete(<<Id, "verify">>)), Post(<<Id, "follow">>), Delete(<<Id,
  "follow">>), Open(Get(<<Id, "followers">>))>>)
CategoriesRoutes == Controller("Categories", <<"categories">>, {}, <<
  Open(Get(<<>>)), Admins(Post(<<>>))>>)
BriefsRoutes == Controller("Briefs", <<"briefs">>, {}, <<
  Post(<<>>), Open(Get(<<>>)), Open(Get(<<Id>>)), Patch(<<Id>>), Delete(<<Id>>), Post(<<Id, "close">>),
  Post(<<Id, "archive">>)>>)
ApplicationsRoutes == Controller("Applications", <<"applications">>, {}, <<
  Post(<<>>), Get(<<>>), Get(<<"brief", Id>>), Get(<<Id>>), Post(<<Id, "withdraw">>), Post(<<Id, "accept">>),
  Post(<<Id, "reject">>)>>)
InboxRoutes == Controller("Inbox", <<"notifications">>, {}, <<
  Get(<<>>), Patch(<<Id, "read">>), Patch(<<"read-all">>)>>)
MessagingRoutes == Controller("Messaging", <<"messaging">>, {}, <<
  Post(<<"conversations">>), Get(<<"conversations">>), Get(<<"conversations", Id>>), Post(<<"conversations", Id,
  "seen">>), Get(<<"conversations", Id, "messages">>), Post(<<"conversations", Id, "messages">>)>>)
DealsRoutes == Controller("Deals", <<"deals">>, {}, <<
  Post(<<>>), Get(<<>>), Get(<<Id>>), Post(<<Id, "complete">>), Post(<<Id, "cancel">>), Get(<<Id, "health">>),
  Post(<<Id, "proposals">>), Get(<<Id, "proposals">>), Post(<<Id, "proposals", Id, "accept">>), Post(<<Id,
  "proposals", Id, "reject">>)>>)
DealTasksRoutes == Controller("Deals", <<"deals">>, {}, <<
  Post(<<Id, "responsibilities">>), Get(<<Id, "responsibilities">>), Post(<<Id, "responsibilities", Id,
  "complete">>), Delete(<<Id, "responsibilities", Id>>), Post(<<Id, "milestones">>), Get(<<Id, "milestones">>),
  Post(<<Id, "milestones", Id, "complete">>), Delete(<<Id, "milestones", Id>>)>>)
ContractsRoutes == Controller("Contracts", <<"contracts">>, {}, <<
  Post(<<>>), Get(<<>>), Get(<<Id>>), Post(<<Id, "versions">>), Get(<<Id, "versions">>), Get(<<Id, "versions",
  Id, "pdf">>), Post(<<Id, "send">>), Post(<<Id, "void">>), Post(<<Id, "sign">>), Get(<<Id, "signatures">>),
  Get(<<Id, "history">>)>>)
DropsRoutes == Controller("Drops", <<"drops">>, {}, <<
  Post(<<>>), Get(<<>>), Open(Get(<<"public">>)), Open(Get(<<"slug", Id>>)), Get(<<Id>>), Patch(<<Id>>),
  Post(<<Id, "schedule">>), Post(<<Id, "publish">>), Post(<<Id, "archive">>), Patch(<<Id, "visibility">>)>>)
DropContentsRoutes == Controller("Drops", <<"drops">>, {}, <<
  Open(Get(<<Id, "page">>)), Patch(<<Id, "page">>), Open(Get(<<Id, "seo">>)), Patch(<<Id, "seo">>), Post(<<Id,
  "media">>), Open(Get(<<Id, "media">>)), Delete(<<Id, "media", Id>>), Post(<<Id, "products">>), Open(Get(<<Id,
  "products">>)), Patch(<<Id, "products", Id>>), Delete(<<Id, "products", Id>>)>>)
ProductsRoutes == Controller("Products", <<"products">>, {}, <<
  Post(<<>>), Open(Get(<<>>)), Open(Get(<<Id>>)), Patch(<<Id>>), Delete(<<Id>>), Patch(<<Id, "categories">>)>>)
ProductVariantsRoutes == Controller("Products", <<"products">>, {}, <<
  Post(<<Id, "variants">>), Open(Get(<<Id, "variants">>)), Patch(<<Id, "variants", Id>>), Delete(<<Id,
  "variants", Id>>), Post(<<Id, "variants", Id, "stock">>), Get(<<Id, "variants", Id, "stock">>), Post(<<Id,
  "media">>), Open(Get(<<Id, "media">>)), Delete(<<Id, "media", Id>>)>>)
CartRoutes == Controller("Cart", <<"cart">>, {}, <<
  Get(<<>>), Post(<<"items">>), Patch(<<"items", Id>>), Delete(<<"items", Id>>), Delete(<<>>)>>)
OrdersRoutes == Controller("Orders", <<"orders">>, {}, <<
  Post(<<"checkout">>), Open(Post(<<"webhook">>)), Get(<<>>), Get(<<Id>>), Post(<<Id, "cancel">>), Post(<<Id,
  "refunds">>), Get(<<Id, "refunds">>)>>)
OrderSettlementRoutes == Controller("Orders", <<"orders">>, {}, <<
  Post(<<Id, "refunds", Id, "approve">>), Post(<<Id, "refunds", Id, "reject">>), Post(<<Id, "shipments">>),
  Get(<<Id, "shipments">>), Patch(<<Id, "shipments", Id, "status">>)>>)
ConnectRoutes == Controller("Connect", <<"payments", "connect">>, {}, <<
  Post(<<"onboard">>), Get(<<"status">>)>>)
PaymentsRoutes == Controller("Payments", <<"payments">>, {}, <<
  Post(<<"orders">>), Post(<<"deals">>), Open(Post(<<"webhook", "stripe">>)), Get(<<>>), Get(<<Id>>), Post(<<Id,
  "release">>), Post(<<Id, "refund">>)>>)
InvoicesRoutes == Controller("Invoices", <<"payments", "invoices">>, {}, <<
  Post(<<Id>>), Get(<<>>), Get(<<Id>>), Get(<<Id, "pdf">>)>>)
TransactionsRoutes == Controller("Transactions", <<"payments", "transactions">>, {}, <<Get(<<>>)>>)
OutboxRoutes == Controller("Outbox", <<"events", "outbox">>, {"ADMIN"}, <<
  Get(<<>>), Get(<<Id>>), Replays(Post(<<Id, "replay">>)), Replays(Post(<<"replay">>))>>)
BalanceRoutes == Controller("Balance", <<"payouts", "balance">>, {}, <<Get(<<>>)>>)
TransfersRoutes == Controller("Transfers", <<"payouts", "transfers">>, {}, <<Get(<<>>)>>)
PayoutReportsRoutes == Controller("PayoutReports", <<"payouts", "reports">>, {}, <<
  Get(<<"summary">>)>>)
PayoutsRoutes == Controller("Payouts", <<"payouts">>, {}, <<
  Post(<<"withdraw">>), Open(Post(<<"webhook", "stripe">>)), Get(<<>>), Get(<<Id>>)>>)
TrackingRoutes == Controller("Tracking", <<"analytics", "track">>, {}, <<Open(Post(<<>>))>>)
RevenueRoutes == Controller("Revenue", <<"analytics", "revenue">>, {}, <<
  Get(<<>>), Get(<<"chart">>)>>)
TrafficRoutes == Controller("Traffic", <<"analytics", "traffic">>, {}, <<
  Get(<<>>), Get(<<"chart">>)>>)
ConversionRoutes == Controller("Conversion", <<"analytics", "conversion">>, {}, <<Get(<<>>)>>)
OrderAnalyticsRoutes == Controller("OrderAnalytics", <<"analytics", "orders">>, {}, <<Get(<<>>)>>)
VisitorsRoutes == Controller("Visitors", <<"analytics", "visitors">>, {}, <<Get(<<>>)>>)
AnalyticsReportsRoutes == Controller("AnalyticsReports", <<"analytics", "reports">>, {}, <<
  Get(<<"summary">>), Get(<<"export">>)>>)
NoticesRoutes == Controller("Notices", <<"notifications">>, {}, <<
  Admins(Post(<<"send">>)), Get(<<>>), Post(<<"read-all">>), Post(<<Id, "read">>)>>)
PreferencesRoutes == Controller("Preferences", <<"notifications", "preferences">>, {}, <<
  Get(<<>>), Patch(<<>>)>>)
PushRoutes == Controller("Push", <<"notifications", "push", "tokens">>, {}, <<
  Post(<<>>), Get(<<>>), Delete(<<Id>>)>>)
TemplatesRoutes == Controller("Templates", <<"notifications", "templates">>, {"ADMIN"}, <<
  Post(<<>>), Get(<<>>), Get(<<Id>>), Patch(<<Id>>)>>)
DealHealthRoutes == Controller("DealHealth", <<"ai", "deal-health">>, {}, <<Get(<<Id>>)>>)
BrandMatchRoutes == Controller("BrandMatch", <<"ai", "brand-match">>, {}, <<Get(<<Id>>)>>)
RevenuePredictionRoutes == Controller("RevenuePrediction", <<"ai", "revenue-prediction">>, {}, <<
  Get(<<Id>>)>>)
LaunchReadinessRoutes == Controller("LaunchReadiness", <<"ai", "launch-readiness">>, {}, <<
  Get(<<Id>>)>>)
RecommendationsRoutes == Controller("Recommendations", <<"ai", "recommendations">>, {}, <<Get(<<>>)>>)
DashboardRoutes == Controller("Dashboard", <<"admin", "dashboard">>, {"ADMIN"}, <<Get(<<>>)>>)
AdminUsersRoutes == Controller("AdminUsers", <<"admin", "users">>, {"ADMIN"}, <<
  Get(<<>>), Get(<<Id>>), Post(<<Id, "suspend">>), Post(<<Id, "reactivate">>), Patch(<<Id, "roles">>)>>)
AdminBrandsRoutes == Controller("AdminBrands", <<"admin", "brands">>, {"ADMIN"}, <<
  Get(<<>>), Get(<<Id>>), Post(<<Id, "verify">>), Post(<<Id, "unverify">>), Post(<<Id, "activate">>), Post(<<Id,
  "deactivate">>)>>)
AdminReportsRoutes == Controller("AdminReports", <<"admin", "reports">>, {"ADMIN"}, <<
  Get(<<"growth">>)>>)
ModerationRoutes == Controller("Moderation", <<"admin", "moderation", "reports">>, {}, <<
  Post(<<>>), Admins(Get(<<>>)), Admins(Get(<<Id>>)), Admins(Patch(<<Id, "review">>))>>)
SettingsRoutes == Controller("Settings", <<"admin", "settings">>, {}, <<
  Open(Get(<<>>)), Admins(Patch(<<>>))>>)
AuditRoutes == Controller("Audit", <<"admin", "audit">>, {"ADMIN"}, <<Get(<<>>)>>)
RbacRoutes == Controller("Rbac", <<"admin", "rbac">>, {"ADMIN"}, <<
  Get(<<"permissions">>), Get(<<"roles">>), Post(<<"roles">>), Patch(<<"roles", Id, "permissions">>)>>)
QueuesRoutes == Controller("Queues", <<"observability", "queues">>, {"ADMIN"}, <<Get(<<>>)>>)
MetricsRoutes == Controller("Metrics", <<"metrics">>, {}, <<Open(Get(<<>>))>>)
SearchRoutes == Controller("Search", <<"search">>, {}, <<Open(Get(<<>>))>>)
ReindexRoutes == Controller("Reindex", <<"search", "reindex">>, {"ADMIN"}, <<Post(<<>>)>>)

---------------------------------------------------------------------------
(* The order of the modules in AppModule, depth first, and of the          *)
(* controllers in a module                                                 *)
Routes ==
  RootRoutes \o HealthRoutes \o AuthRoutes \o MeRoutes \o UserAdminRoutes \o BrandsRoutes \o
  BrandAssetsRoutes \o CategoriesRoutes \o BriefsRoutes \o ApplicationsRoutes \o InboxRoutes
  \o MessagingRoutes \o DealsRoutes \o DealTasksRoutes \o ContractsRoutes \o DropsRoutes \o
  DropContentsRoutes \o ProductsRoutes \o ProductVariantsRoutes \o CartRoutes \o
  OrdersRoutes \o OrderSettlementRoutes \o ConnectRoutes \o PaymentsRoutes \o InvoicesRoutes
  \o TransactionsRoutes \o OutboxRoutes \o BalanceRoutes \o TransfersRoutes \o
  PayoutReportsRoutes \o PayoutsRoutes \o TrackingRoutes \o RevenueRoutes \o TrafficRoutes
  \o ConversionRoutes \o OrderAnalyticsRoutes \o VisitorsRoutes \o AnalyticsReportsRoutes \o
  NoticesRoutes \o PreferencesRoutes \o PushRoutes \o TemplatesRoutes \o DealHealthRoutes \o
  BrandMatchRoutes \o RevenuePredictionRoutes \o LaunchReadinessRoutes \o
  RecommendationsRoutes \o DashboardRoutes \o AdminUsersRoutes \o AdminBrandsRoutes \o
  AdminReportsRoutes \o ModerationRoutes \o SettingsRoutes \o AuditRoutes \o RbacRoutes \o
  QueuesRoutes \o MetricsRoutes \o SearchRoutes \o ReindexRoutes

(* The router tries the routes in that order.                              *)
Answers(r, verb, path) ==
  /\ r.verb = verb /\ Len(r.path) = Len(path)
  /\ \A k \in DOMAIN path : r.path[k] \in {Id, path[k]}

Match(verb, path) ==
  CHOOSE i \in DOMAIN Routes : /\ Answers(Routes[i], verb, path)
                               /\ \A k \in 1..i - 1 : ~Answers(Routes[k], verb, path)

\* Each route with the one that serves a request for its path.
Dispatch == {[asked |-> Routes[i], by |-> Routes[Match(Routes[i].verb, Routes[i].path)]] : i \in DOMAIN Routes}

(* JwtAuthGuard, RolesGuard and PermissionsGuard, in this order: a public  *)
(* route is entered with no user attached to the request.                  *)
Admits(r, authenticated, held, allowed) ==
  /\ r.public \/ authenticated
  /\ r.roles = {} \/ (~r.public /\ r.roles \cap held # {})
  /\ ~r.public \/ r.permissions = {}
  /\ r.permissions \subseteq allowed
=============================================================================
