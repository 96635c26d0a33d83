------------------------------ MODULE Screens ------------------------------
(***************************************************************************)
(* What the dashboard's components (src/frontend/src/modules/admin, grok,  *)
(* landing and components/layout) read from and write to the server, and   *)
(* the screens they form.  A component is a record of                      *)
(*   reads   the lists it fetches: query key, the tables the endpoint      *)
(*           shows, whether it polls, whether a filter, page or period is  *)
(*           part of the key;                                              *)
(*   writes  its mutations: the tables they change, the keys onSuccess     *)
(*           invalidates, the list whose row the button stands in, and     *)
(*           whether the button is disabled while the mutation is pending. *)
(* Markup, texts, sorting and searching within a fetched list are left     *)
(* out, and so are columns that no list of the same screen shows.  A key   *)
(* stands for all keys it is a prefix of.                                  *)
(***************************************************************************)

Read(key, of) == [key |-> key, of |-> of, poll |-> FALSE, filter |-> FALSE]
Filtered(r) == [r EXCEPT !.filter = TRUE]
Polled(r) == [r EXCEPT !.poll = TRUE]

Write(on, inval) == [on |-> on, inval |-> inval, rows |-> "", busy |-> FALSE]
Guarded(w) == [w EXCEPT !.busy = TRUE]
OfRow(key, w) == [w EXCEPT !.rows = key]

Component(reads, writes) == [reads |-> reads, writes |-> writes]

\* A list shown by several components of a screen is one cache entry, which
\* polls when one of them does.
Merged(R) == {r \in R : r.poll \/ ~\E q \in R : q.key = r.key /\ q.poll}
ScreenOf(C) == [reads |-> Merged(UNION {c.reads : c \in C}),
                writes |-> UNION {c.writes : c \in C}]

Users == Read("admin-users", {"users"})
Plans == Read("admin-plans", {"plans"})
Domains == Read("admin-domains", {"domains"})
Catalog == Read("admin-entitlement-catalog", {"catalog"})
Installs == Read("admin-tool-installs", {"installs"})

-----------------------------------------------------------------------------
(* Users and plans: AdminUsersPage, AdminPlansPage, AdminPage. *)

UsersTab == Component({Users, Plans}, {})

\* update: role, ban and unban; an admin is granted everything
updateUser == OfRow("admin-users", Write({"users", "entitlements"}, {"admin-users"}))
removeUser == OfRow("admin-users", Write({"users", "stats"}, {"admin-users"}))

UserRow == Component({}, {updateUser, removeUser})

\* The modal is seeded from the row of the list.
UserPermissionsModal == Component(
  {Catalog, Read("admin-user-effective", {"entitlements"}), Domains, Installs,
   Filtered(Read("admin-roles-for-user", {"roles"}))}, {})

saveUserPermissions == Component({},
  {Guarded(OfRow("admin-users", Write({"users", "entitlements"},
                                      {"admin-users", "admin-user-effective"})))})

CreateUserModal == Component(
  {Domains, Filtered(Read("admin-roles-for-create", {"roles"}))},
  {Guarded(Write({"users", "stats"}, {"admin-users", "admin-stats"}))})

QuickProvisionModal == Component({Domains, Installs},
  {Guarded(Write({"users", "domains", "stats"},
                 {"admin-users", "admin-domains", "admin-stats"}))})

StatsBlock == Component({Read("admin-stats", {"stats"})}, {})

PlansTab == Component({Plans},
  {OfRow("admin-plans", Write({"plans", "users"}, {"admin-plans", "admin-users"}))})

PlanEditorModal == Component({Catalog}, {Guarded(Write({"plans"}, {"admin-plans"}))})

-----------------------------------------------------------------------------
(* Domains, roles, desktop installs. *)

\* The roles are counted per domain that is listed.
AdminDomainsTab == Component({Domains, Read("admin-roles", {"roles"})}, {})

\* remove
AdminDomainsTable == Component({},
  {OfRow("admin-domains", Write({"domains"}, {"admin-domains"}))})

\* The editor is seeded from the row.
AdminDomainEditorModal == Component({}, {})

\* save: the whole payload.  A new domain gets a role of its own.
updateDomain == Guarded(Write({"domains"}, {"admin-domains"}))
createDomain == Guarded(Write({"domains", "roles"}, {"admin-domains"}))

saveDomain == Component({}, {updateDomain, createDomain})

AdminLoginTemplatesPage == Component({Domains},
  {Guarded(OfRow("admin-domains", Write({"domains"}, {"admin-domains"})))})

AdminRolesPage == Component({Domains, Filtered(Read("admin-roles", {"roles"}))},
  {OfRow("admin-roles", Write({"roles"}, {"admin-roles"}))})

RoleEditorModal == Component({}, {Guarded(Write({"roles"}, {"admin-roles"}))})

AdminToolInstallsPage == Component({Polled(Filtered(Installs))},
  {OfRow("admin-tool-installs", Write({"installs"}, {"admin-tool-installs"}))})

\* The editor is seeded from the row of the list and sends every field.
ToolInstallEditor == Component(
  {Read("admin-users-light", {"users"}), Read("admin-plans-light", {"plans"})}, {})

saveInstall == Component({},
  {Guarded(OfRow("admin-tool-installs", Write({"installs"}, {"admin-tool-installs"})))})

\* A user made for the install; the editor picks the new user itself.
provisionUser == Component({}, {Guarded(Write({"users"}, {"admin-users-light"}))})

-----------------------------------------------------------------------------
(* Billing and API keys. *)

Subscriptions == Filtered(Read("admin-subscriptions", {"subscriptions"}))
Payments == Filtered(Read("admin-payments", {"payments"}))
Invoices == Filtered(Read("admin-invoices", {"invoices"}))

confirmPay == OfRow("admin-subscriptions",
  Write({"subscriptions", "payments", "invoices"}, {"admin-subscriptions"}))
removeSubscription == OfRow("admin-subscriptions",
  Write({"subscriptions"}, {"admin-subscriptions"}))

BillingSubscriptionsTab == Component({Subscriptions}, {confirmPay, removeSubscription})

saveSubscription == Guarded(Write({"subscriptions"}, {"admin-subscriptions"}))

BillingSubscriptionEditorModal == Component({Users, Plans}, {saveSubscription})

removePayment == OfRow("admin-payments", Write({"payments"}, {"admin-payments"}))

BillingPaymentsTab == Component({Payments}, {removePayment})

savePayment == Guarded(Write({"payments"}, {"admin-payments"}))

BillingPaymentEditorModal == Component({Users}, {savePayment})

removeInvoice == OfRow("admin-invoices", Write({"invoices"}, {"admin-invoices"}))

BillingInvoicesTab == Component({Invoices}, {removeInvoice})

saveInvoice == Guarded(Write({"invoices"}, {"admin-invoices"}))

BillingInvoiceEditorModal == Component({Users}, {saveInvoice})

\* The sub-tabs exclude each other.
AdminBillingTab == {{BillingSubscriptionsTab, BillingSubscriptionEditorModal},
                    {BillingPaymentsTab, BillingPaymentEditorModal},
                    {BillingInvoicesTab, BillingInvoiceEditorModal}}

\* confirmMut and rejectMut
PendingBillingWidget == Component({Polled(Read("pending-billing", {"subscriptions"}))},
  {Guarded(OfRow("pending-billing",
     Write({"subscriptions", "payments", "invoices"},
           {"pending-billing", "billing-summary", "admin-subscriptions"}))),
   Guarded(OfRow("pending-billing", Write({"subscriptions"}, {"pending-billing"})))})

\* cancel: the reader's own subscription.  The page also shows the lists of
\* AdminBillingTab to an admin: see Billing below.
cancelOwn == OfRow("billing-summary", Write({"subscriptions"}, {"billing-summary"}))

BillingPage == Component(
  {Read("billing-summary", {"subscriptions", "payments", "invoices"})}, {cancelOwn})

\* checkout leaves the page for the payment or shows its result
CheckoutPage == Component({Read("plans-public", {"plans"})},
  {Guarded(Write({"subscriptions", "payments", "invoices"}, {}))})

ApiKeysPage == Component({Filtered(Read("api-keys", {"keys"})), Domains}, {})

\* revoke and remove
ApiKeysTable == Component({}, {OfRow("api-keys", Write({"keys"}, {"api-keys"}))})

ApiKeyCreateModal == Component({}, {Guarded(Write({"keys"}, {"api-keys"}))})

-----------------------------------------------------------------------------
(* Dashboards, audit log, galleries, notifications, settings. *)

DashboardPage == Component(
  {Domains, Polled(Filtered(Read("dashboard", {"jobs", "users", "keys", "profiles", "payments"})))}, {})

TenantDashboardPage == Component(
  {Polled(Filtered(Read("tenant-dashboard", {"jobs"}))),
   Polled(Read("tenant-dashboard-recent-jobs", {"jobs"}))}, {})

\* Every filter, tab and page size goes back to the first page.
AuditLogPage == Component(
  {Filtered(Read("audit-logs", {"audit"})), Polled(Domains)}, {})

GalleryShell == Component({Domains, Filtered(Read("gallery", {"files"}))}, {})

GalleryFlowPage == Component({Polled(Filtered(Read("gallery-flow", {"files"})))}, {})

GalleryGatewayPage == Component({Polled(Filtered(Read("gallery-gateway", {"files"})))}, {})

\* markRead of a row, and markAllRead
NotificationBell == Component({Polled(Read("notifications", {"notifications"}))},
  {OfRow("notifications", Write({"notifications"}, {"notifications"})),
   Guarded(Write({"notifications"}, {"notifications"}))})

\* local ?? data; saved as a whole
SettingsNotificationsTab == Component({Read("settings-notif-prefs", {"prefs"})},
  {Guarded(Write({"prefs"}, {"settings-notif-prefs"}))})

SettingsWebhookTab == Component({Read("webhook", {"webhook"})},
  {Write({"webhook"}, {"webhook"})})

SettingsLocaleTab == Component({Read("settings-locale", {"locale"})},
  {Guarded(Write({"locale"}, {"settings-locale", "me"}))})

-----------------------------------------------------------------------------
(* Profiles and their projects: ProfilesPage with its modals. *)

Profiles == Polled(Read("profiles", {"profiles"}))
Projects == Read("grok-projects", {"projects", "assignedDomains", "assignedInstalls"})
DomainsOf == Read("grok-project-domains", {"assignedDomains"})

ProfileWrite == OfRow("profiles", Write({"profiles"}, {"profiles"}))

ProfilesPage == Component({Profiles}, {})

\* disable, stopVnc, remove, the caps and the tier; resetStuck and resetCdp
\* are guarded.
ProfilesTable == Component({}, {ProfileWrite, Guarded(ProfileWrite)})

\* updateAllowsVideo
ModeToggle == Component({}, {Guarded(ProfileWrite)})

CreateProfileModal == Component({}, {Guarded(Write({"profiles"}, {"profiles"}))})

UploadCookiesModal == Component({}, {Guarded(ProfileWrite)})

\* finish; starting the session shows a window and changes no list
AutoLoginModal == Component({}, {Guarded(ProfileWrite)})

ProjectsModal == Component({Projects, Domains}, {})

\* remove
ProjectRow == Component({},
  {OfRow("grok-projects", Write({"projects", "profiles"}, {"grok-projects", "profiles"}))})

\* discover reads through the browser; importOne writes
DiscoverSection == Component({},
  {Guarded(Write({"projects", "profiles"}, {"grok-projects", "profiles"}))})

ProjectEditorModal == Component(
  {Domains, DomainsOf, Read("grok-project-users", {"assignedUsers"})}, {})

\* update or create, then setDomains and setUsers
saveProject == Component({},
  {Guarded(Write({"projects", "assignedDomains", "assignedUsers", "profiles"},
                 {"grok-projects", "grok-project-domains", "grok-project-users", "profiles"}))})

ProjectAutoProvisionModal == Component({Domains},
  {Guarded(Write({"projects", "profiles"}, {"grok-projects", "profiles"}))})

ProjectDomainAssignRow == Component({Read("domain-users", {"users"})}, {})

\* Mutant: the number of domains in the list of projects is forgotten.
AssignDomainsForgetful == Component({DomainsOf},
  {Guarded(Write({"assignedDomains"}, {"grok-project-domains"}))})

AssignDomainsModal == Component({DomainsOf},
  {Guarded(Write({"assignedDomains"}, {"grok-project-domains", "grok-projects"}))})

AssignToolInstallsModal == Component(
  {Read("admin-tool-installs-light", {"installs"}),
   Read("grok-project-tool-installs", {"assignedInstalls"})},
  {Guarded(Write({"assignedInstalls"}, {"grok-project-tool-installs", "grok-projects"}))})

-----------------------------------------------------------------------------
(* The login panel of the video workspace, the quota pill, the free trial,  *)
(* the viewers of results, prompt history.                                  *)

\* refresh, startVnc
AutoLoginPanel == Component({Polled(Read("grok-profiles", {"profiles"}))},
  {Guarded(OfRow("grok-profiles", Write({"profiles"}, {"grok-profiles"})))})

removeAccount == Component({},
  {OfRow("grok-profiles", Write({"profiles"}, {"grok-profiles"}))})

CreateAccountModal == Component({}, {Guarded(Write({"profiles"}, {"grok-profiles"}))})

useDomainQuota == Component({Polled(Read("domain-quota", {"quota"}))}, {})

\* submit, then refetchQuota
TryImagePage == Component({Read("try-image-quota", {"tries"})},
  {Guarded(Write({"tries"}, {"try-image-quota"}))})

ResultGalleryModal == Component({Read("job-files", {"files"})}, {})

CompareJobsModal == Component({Read("job-files", {"files"})}, {})

EditJobModal == Component({Polled(Filtered(Read("jobs", {"jobs"})))},
  {Guarded(Write({"jobs"}, {"jobs"}))})

\* removeOne and clearAll, which closes the list
PromptHistoryDropdown == Component({Filtered(Read("prompt-history", {"prompts"}))},
  {Guarded(OfRow("prompt-history", Write({"prompts"}, {"prompt-history"})))})

-----------------------------------------------------------------------------
(* The screens of the routes, each with the modals that open over it.      *)

\* AdminUsersPage, AdminPlansPage, AdminDomainsPage
AdminTabs == {
  {UsersTab, UserRow, UserPermissionsModal, saveUserPermissions, CreateUserModal,
   QuickProvisionModal},
  {PlansTab, PlanEditorModal},
  {AdminDomainsTab, AdminDomainsTable, AdminDomainEditorModal, saveDomain}}

\* AdminPage: the counters stay above every tab.
Legacy == {{StatsBlock} \cup C : C \in AdminTabs \cup AdminBillingTab}

\* BillingPage: the personal part, and for an admin the lists of a sub-tab.
Billing == {{BillingPage} \cup C : C \in {{}} \cup AdminBillingTab}

\* The bell is in the header of every page of the shell.
InShell == {C \cup {NotificationBell} : C \in AdminTabs \cup AdminBillingTab \cup Legacy
  \cup Billing \cup {
  {DashboardPage, PendingBillingWidget}, {TenantDashboardPage}, {CheckoutPage},
  {AdminLoginTemplatesPage},
  {AdminRolesPage, RoleEditorModal},
  {AdminToolInstallsPage, ToolInstallEditor, saveInstall, provisionUser},
  {ApiKeysPage, ApiKeysTable, ApiKeyCreateModal}, {AuditLogPage},
  {GalleryShell}, {GalleryFlowPage}, {GalleryGatewayPage},
  {SettingsNotificationsTab}, {SettingsWebhookTab}, {SettingsLocaleTab},
  {ProfilesPage, ProfilesTable, ModeToggle, CreateProfileModal, UploadCookiesModal,
   AutoLoginModal},
  {ProfilesPage, ProfilesTable, ProjectsModal, ProjectRow, DiscoverSection,
   ProjectEditorModal, saveProject, ProjectAutoProvisionModal, ProjectDomainAssignRow,
   AssignDomainsModal, AssignToolInstallsModal},
  {EditJobModal, ResultGalleryModal, CompareJobsModal, PromptHistoryDropdown}}}

\* TryImagePage and the video workspace have no header.
AllScreens == {ScreenOf(C) : C \in InShell \cup {
  {TryImagePage}, {AutoLoginPanel, removeAccount, CreateAccountModal, useDomainQuota}}}

\* Writes that change a list of the same screen and refresh other keys only:
\* the list keeps its old rows until something else asks for it.
OpenGaps ==
  {<<"billing-summary", w>> : w \in {confirmPay, removeSubscription, saveSubscription,
     removePayment, savePayment, removeInvoice, saveInvoice}}
  \cup {<<"admin-subscriptions", cancelOwn>>, <<"admin-stats", removeUser>>,
        <<"admin-user-effective", updateUser>>, <<"admin-roles", createDomain>>}
=============================================================================
