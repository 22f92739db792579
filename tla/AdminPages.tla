------------------------------- MODULE AdminPages -------------------------------
(***************************************************************************)
(* The pages of the admin front end, entity by entity: which query a page  *)
(* reads and for whom, which queries the success of each operation         *)
(* invalidates, which operations a row offers, which of them run in a      *)
(* dialog that their success closes, how the form turns a row into inputs  *)
(* and inputs into a request, and what the page of one row reads.          *)
(* Console gives these tables their behaviour.                             *)
(***************************************************************************)
EXTENDS Sequences, SequencesExt, TLC

CONSTANT Rows   \* the rows of an entity

Roles == {"OWNER", "ADMIN", "SUPPORT", "VIEWER"}
Managers == {"OWNER", "ADMIN"}

(* Query keys (createEntityKeys). *)
All(e) == <<e>>
Lists(e) == <<e, "list">>
List(e) == <<e, "list", "{}">>
Detail(e, n) == <<e, "detail", n>>
Stats == <<"dashboard", "stats">>

(* Invalidating a key invalidates every key it begins. *)
Under(prefixes, keys) == {k \in keys : \E p \in prefixes : IsPrefix(p, k)}

(***************************************************************************)
(* The treatment of a field by a form: what the input holds when the row   *)
(* has nothing, whether the schema refuses a blank input, whether one is   *)
(* left out of the request, whether a stored instant is shown in UTC and   *)
(* read back as local time, and whether the server ignores the field in an *)
(* update.                                                                 *)
(***************************************************************************)
Blank == ""
Plain == [empty |-> Blank, required |-> TRUE, dropped |-> FALSE, shifted |-> FALSE,
          fixed |-> FALSE]
Optional == [Plain EXCEPT !.required = FALSE, !.dropped = TRUE]
LocalTime == [Optional EXCEPT !.shifted = TRUE]
Fixed == [Plain EXCEPT !.fixed = TRUE]
Default(text) == [Plain EXCEPT !.empty = text]
--------------------------------------------------------------------------------
(* Subscriptions: app/(admin)/subscriptions, SubscriptionForm. *)
SubscriptionsPage ==
  [ n \in Rows |-> [
    list |-> All("subscriptions"), reads |-> Roles, admits |-> Roles,
    refreshes |-> [op \in {"create", "update", "remove"} |-> {All("subscriptions")}] ] ]

SubscriptionsMenu(status, role) ==
  {"open", "update"} \cup (IF status # "CANCELLED" THEN {"remove"} ELSE {})

SubscriptionsDialogs == {"create", "update", "remove"}

SubscriptionForm ==
  [ organization_id |-> Fixed, product_plan_id |-> Fixed, status |-> Default("ACTIVE"),
    starts_at |-> [LocalTime EXCEPT !.fixed = TRUE], expires_at |-> LocalTime,
    notes |-> Optional ]

SubscriptionInputs ==
  [ create |-> {"organization_id", "product_plan_id", "starts_at", "expires_at", "notes"},
    update |-> {"status", "expires_at", "notes"} ]

SubscriptionDetails == [n \in Rows |-> [reads |-> {<<"subscription", n>>}, back |-> "history"]]
--------------------------------------------------------------------------------
(* Users: app/(admin)/users, UserForm; its password input starts empty and *)
(* an empty one is left out, no row is shown in it.                        *)
UsersPage ==
  [ n \in Rows |-> [
    list |-> All("users"), reads |-> {"OWNER"}, admits |-> {"OWNER"},
    refreshes |-> [op \in {"create", "update", "remove"} |-> {All("users")}] ] ]

UsersMenu(active, role) == {"update"} \cup (IF active = "true" THEN {"remove"} ELSE {})

UsersDialogs == {"create", "update"}

UserForm ==
  [ email |-> Fixed, role |-> Default("VIEWER"), is_active |-> Default("true") ]

UserInputs ==
  [ create |-> {"email", "role", "is_active"}, update |-> {"role", "is_active"} ]
--------------------------------------------------------------------------------
(* Plans: app/(admin)/plans, PlanForm. *)
PlansPage ==
  [ n \in Rows |-> [
    list |-> All("plans"), reads |-> Roles, admits |-> Roles \ {"SUPPORT"},
    refreshes |-> [op \in {"create", "update", "remove"} |-> {All("plans")}] ] ]

PlansMenu(status, role) ==
  IF status = "ACTIVE" /\ role \in Managers THEN {"update", "remove"} ELSE {}

PlansDialogs == {"create", "update", "remove"}

PlanForm ==
  [ name |-> Plain, slug |-> Fixed, description |-> Optional, product_id |-> Fixed,
    status |-> Default("ACTIVE"),
    duration_months |-> [Default("12") EXCEPT !.required = FALSE] ]

PlanInputs ==
  [ create |-> DOMAIN PlanForm, update |-> DOMAIN PlanForm ]
--------------------------------------------------------------------------------
(* Capabilities: app/(admin)/capabilities, CapabilityForm. *)
CapabilitiesPage ==
  [ n \in Rows |-> [
    list |-> All("capabilities"), reads |-> Roles, admits |-> Roles,
    refreshes |-> [op \in {"create", "update", "remove"} |-> {All("capabilities")}] ] ]

CapabilitiesMenu(status, role) == {"update", "remove"}

CapabilitiesDialogs == {"create", "update", "remove"}

CapabilityForm ==
  [ name |-> Plain, slug |-> Plain, description |-> Optional,
    is_active |-> Default("true") ]

CapabilityInputs ==
  [ create |-> DOMAIN CapabilityForm, update |-> DOMAIN CapabilityForm ]
--------------------------------------------------------------------------------
(* Products: app/(admin)/products, ProductForm.  Its link to the page of a *)
(* product loads the document anew.                                        *)
ProductsPage ==
  [ n \in Rows |-> [
    list |-> All("products"), reads |-> Roles, admits |-> Managers,
    refreshes |-> [op \in {"create", "update", "remove"} |-> {All("products")}] ] ]

ProductsMenu(status, role) == {"load", "update", "remove"}

ProductsDialogs == {"create", "update", "remove"}

ProductForm ==
  [ name |-> Plain, slug |-> Plain, short_name |-> Optional, description |-> Optional,
    category |-> Optional, website |-> Optional, repository_url |-> Optional,
    documentation_url |-> Optional, status |-> Default("BETA") ]

ProductInputs ==
  [ create |-> DOMAIN ProductForm, update |-> DOMAIN ProductForm ]

ProductDetails == [n \in Rows |-> [reads |-> {<<"products", n>>}, back |-> "list"]]
--------------------------------------------------------------------------------
(* Organizations: app/(admin)/organizations, OrganizationForm. *)
OrganizationsPage ==
  [ n \in Rows |-> [
    list |-> All("organizations"), reads |-> Roles, admits |-> Managers,
    refreshes |-> [op \in {"create", "update", "remove"} |-> {All("organizations")}] ] ]

OrganizationsMenu(status, role) == {"update", "remove"}

OrganizationsDialogs == {"create", "update", "remove"}

OrganizationForm == [ name |-> Plain ]

OrganizationInputs == [ create |-> {"name"}, update |-> {"name"} ]
--------------------------------------------------------------------------------
(* Deployments: app/(admin)/deployments, DeploymentForm and its hooks. *)
DeploymentsListOnly ==                                \* mutant of DeploymentsPage
  [ n \in Rows |-> [
    list |-> List("deployments"), reads |-> Roles, admits |-> Roles,
    refreshes |-> [ create |-> {Lists("deployments")},
                    update |-> {Lists("deployments")},
                    remove |-> {Lists("deployments"), Detail("deployments", n)} ] ] ]

DeploymentsPage ==
  [ n \in Rows |-> [
    list |-> List("deployments"), reads |-> Roles, admits |-> Roles,
    refreshes |-> [ create |-> {Lists("deployments")},
                    update |-> {Lists("deployments"), Detail("deployments", n)},
                    remove |-> {Lists("deployments"), Detail("deployments", n)} ] ] ]

DeploymentsMenu(status, role) == {"open", "update", "remove"}

DeploymentsDialogs == {"create", "update", "remove"}

DeploymentForm ==
  [ name |-> Plain, organization_id |-> Fixed, product_id |-> Fixed,
    environment |-> Default("PRODUCTION"), status |-> Default("PROVISIONING") ]

DeploymentInputs ==
  [ create |-> {"name", "organization_id", "product_id", "environment"},
    update |-> {"name", "environment", "status"} ]

DeploymentDetails == [n \in Rows |-> [reads |-> {Detail("deployments", n)}, back |-> "history"]]
--------------------------------------------------------------------------------
(* Licenses: app/(admin)/licenses, LicenseIssueForm and its hooks. *)
LicensesPage ==
  [ n \in Rows |-> [
    list |-> List("licenses"), reads |-> Roles, admits |-> Roles,
    refreshes |-> [ create |-> {Lists("licenses")},
                    remove |-> {Lists("licenses"), Detail("licenses", n)} ] ] ]

LicensesMenu(status, role) ==
  {"open"} \cup (IF status # "REVOKED" THEN {"remove"} ELSE {})

LicensesDialogs == {"create", "remove"}

LicenseForm ==
  [ deployment_id |-> Plain, subscription_id |-> Plain,
    notes |-> [Plain EXCEPT !.required = FALSE] ]

LicenseInputs == [ create |-> DOMAIN LicenseForm, update |-> {} ]

LicenseDetails == [n \in Rows |-> [reads |-> {Detail("licenses", n)}, back |-> "history"]]
--------------------------------------------------------------------------------
(* Devices: app/(admin)/devices; "Block Device" does nothing. *)
DevicesPage ==
  [ n \in Rows |-> [
    list |-> All("devices"), reads |-> Roles, admits |-> {"OWNER"},
    refreshes |-> [ remove |-> {All("devices")} ] ] ]

DevicesMenu(status, role) == {"open"} \cup (IF role = "OWNER" THEN {"remove"} ELSE {})

DevicesDialogs == {"remove"}

DeviceDetails ==
  [ n \in Rows |-> [
    reads |-> {Detail("devices", n), <<"activation-requests", "list", "device_id", n>>},
    back |-> "list" ] ]
--------------------------------------------------------------------------------
(* Releases: app/(admin)/releases, ReleaseForm and useCreateRelease. *)
ReleasesPage ==
  [ n \in Rows |-> [
    list |-> List("releases"), reads |-> Roles, admits |-> Roles,
    refreshes |-> [ create |-> {All("releases")} ] ] ]

ReleasesMenu(status, role) == {"open"}

ReleasesDialogs == {"create"}

ReleaseForm ==
  [ product_id |-> Plain, version |-> Plain, build_number |-> Default("1"),
    channel |-> Default("STABLE"), mandatory |-> Default("false"),
    status |-> Default("DRAFT"), is_latest |-> Default("false") ]

ReleaseInputs ==
  [ create |-> DOMAIN ReleaseForm \ {"status", "is_latest"}, update |-> {} ]

ReleaseDetails == [n \in Rows |-> [reads |-> {Detail("releases", n)}, back |-> "list"]]
--------------------------------------------------------------------------------
(* Trial tokens: app/(admin)/community-trials, useTrialTokens. *)
TrialTokensPage ==
  [ n \in Rows |-> [
    list |-> All("trialTokens"), reads |-> Roles, admits |-> Roles,
    refreshes |-> [op \in {"create", "remove"} |-> {All("trialTokens")}] ] ]

TrialTokensMenu(active, role) == IF active = "true" THEN {"remove"} ELSE {}

TrialTokensDialogs == {"create"}

Manifest == <<"manifest">>
--------------------------------------------------------------------------------
(* Activation requests: app/(admin)/activation-requests with the page of a *)
(* request, LicenseGenerationWizard and the hooks.                         *)
RequestsPage ==
  [ n \in Rows |-> [
    list |-> List("activation-requests"), reads |-> Roles, admits |-> Roles \ {"VIEWER"},
    refreshes |-> [ create |-> {All("activation-requests")},
                    review |-> {Detail("activation-requests", n), All("activation-requests")},
                    generate |-> {Detail("activation-requests", n), All("activation-requests")} ] ] ]

RequestsMenu(status, role) == {"open"}

RequestsDialogs == {"generate"}

(* What the page of a request offers, by the status it shows. *)
RequestActions(status) ==
  CASE status = "PENDING" -> {"review"}
    [] status = "UNDER_REVIEW" -> {"generate"}
    [] OTHER -> {}

RequestDetails == [n \in Rows |-> [reads |-> {Detail("activation-requests", n)}, back |-> "history"]]
--------------------------------------------------------------------------------
(* The tables by entity. *)
Pages ==
  [ subscriptions |-> SubscriptionsPage, users |-> UsersPage, plans |-> PlansPage,
    capabilities |-> CapabilitiesPage, products |-> ProductsPage,
    organizations |-> OrganizationsPage, deployments |-> DeploymentsPage,
    licenses |-> LicensesPage, devices |-> DevicesPage, releases |-> ReleasesPage,
    trialTokens |-> TrialTokensPage, requests |-> RequestsPage ]

Menu(e, status, role) ==
  CASE e = "subscriptions" -> SubscriptionsMenu(status, role)
    [] e = "users" -> UsersMenu(status, role)
    [] e = "plans" -> PlansMenu(status, role)
    [] e = "capabilities" -> CapabilitiesMenu(status, role)
    [] e = "products" -> ProductsMenu(status, role)
    [] e = "organizations" -> OrganizationsMenu(status, role)
    [] e = "deployments" -> DeploymentsMenu(status, role)
    [] e = "licenses" -> LicensesMenu(status, role)
    [] e = "devices" -> DevicesMenu(status, role)
    [] e = "releases" -> ReleasesMenu(status, role)
    [] e = "trialTokens" -> TrialTokensMenu(status, role)
    [] e = "requests" -> RequestsMenu(status, role)

Dialogs ==
  [ subscriptions |-> SubscriptionsDialogs, users |-> UsersDialogs, plans |-> PlansDialogs,
    capabilities |-> CapabilitiesDialogs, products |-> ProductsDialogs,
    organizations |-> OrganizationsDialogs, deployments |-> DeploymentsDialogs,
    licenses |-> LicensesDialogs, devices |-> DevicesDialogs, releases |-> ReleasesDialogs,
    trialTokens |-> TrialTokensDialogs, requests |-> RequestsDialogs ]

Forms ==
  [ subscriptions |-> SubscriptionForm, users |-> UserForm, plans |-> PlanForm,
    capabilities |-> CapabilityForm, products |-> ProductForm,
    organizations |-> OrganizationForm, deployments |-> DeploymentForm,
    licenses |-> LicenseForm, releases |-> ReleaseForm ]

Inputs ==
  [ subscriptions |-> SubscriptionInputs, users |-> UserInputs, plans |-> PlanInputs,
    capabilities |-> CapabilityInputs, products |-> ProductInputs,
    organizations |-> OrganizationInputs, deployments |-> DeploymentInputs,
    licenses |-> LicenseInputs, releases |-> ReleaseInputs ]

Details ==
  [ subscriptions |-> SubscriptionDetails, products |-> ProductDetails,
    deployments |-> DeploymentDetails, licenses |-> LicenseDetails,
    devices |-> DeviceDetails, releases |-> ReleaseDetails, requests |-> RequestDetails ]
================================================================================
