----------------------------- MODULE RoleCatalog -----------------------------
(***************************************************************************)
(* The capability registry and the default roles of version 1.  A code is  *)
(* the sequence of its words: quotes.line.override_price is                *)
(* <<"quotes", "line", "override_price">>.                                 *)
(***************************************************************************)
EXTENDS Naturals, Sequences

In(area, verbs) == {<<area, v>> : v \in verbs}

Sub(area, part, verbs) == {<<area, part, v>> : v \in verbs}

Leads == In("leads", {"view", "create", "edit", "edit_any", "archive", "convert", "assign"})

Quotes ==
    In("quotes", {"view", "create", "edit", "send", "retract", "approve", "decline",
                  "delete_draft"})
    \cup Sub("quotes", "line", {"override_price", "apply_discount"})

Clients ==
    In("clients", {"view", "create", "edit", "merge", "deactivate"})
    \cup Sub("clients", "contacts", {"manage"}) \cup Sub("clients", "locations", {"manage"})

Orders == In("orders", {"view", "edit", "cancel", "generate_fulfillment"})

Catalog ==
    In("catalog", {"view"})
    \cup UNION {Sub("catalog", part, {"manage"}) :
                  part \in {"services", "products", "materials", "suppliers", "bom"}}

Pricing ==
    Sub("pricing", "rules", {"view"}) \cup Sub("pricing", "approval", {"request", "grant"})
    \cup UNION {Sub("pricing", part, {"manage"}) :
                  part \in {"rules", "price_lists", "contracts", "labor_rates", "segments",
                            "promotions", "bundles"}}

WorkOrders ==
    In("workorders", {"view", "assign", "update_status", "manage", "complete", "view_all"})

Purchasing == In("purchasing", {"view", "create", "edit", "submit", "receive", "cancel"})

Builds ==
    In("build", {"view", "manage"}) \cup Sub("build", "labor", {"record", "edit_any"})
    \cup Sub("build", "qa", {"review"}) \cup Sub("build", "cost", {"view"})

Billing ==
    In("billing", {"view"}) \cup Sub("billing", "invoice", {"create", "send", "void"})
    \cup Sub("billing", "payment", {"record", "edit"}) \cup Sub("billing", "reports", {"view"})

Tasks == In("tasks", {"view", "create", "edit", "assign", "complete", "manage"})

Communications == In("communications", {"view", "log", "send", "manage"})

Reporting == In("reporting", {"view", "export", "advanced"})

Administration ==
    Sub("admin", "members", {"view", "invite", "deactivate", "suspend"})
    \cup Sub("admin", "roles", {"view", "manage", "assign"})
    \cup Sub("admin", "capabilities", {"grant"}) \cup Sub("admin", "org", {"settings"})
    \cup Sub("admin", "numbering", {"configure"}) \cup Sub("admin", "export", {"request"})
    \cup Sub("admin", "deletion", {"request"}) \cup Sub("admin", "audit", {"view"})

Tax == Sub("tax", "jurisdictions", {"manage"})

\* V1_CAPABILITIES
AllCapabilities ==
    UNION {Leads, Quotes, Clients, Orders, Catalog, Pricing, WorkOrders, Purchasing, Builds,
           Billing, Tasks, Communications, Reporting, Administration, Tax}

\* A mutant: only codes of two words are recognised as .view
ViewOfTwoWords(k) == Len(k) = 2 /\ k[2] \in {"view", "view_all"}

\* code.endswith(".view") or code.endswith(".view_all")
IsView(k) == k[Len(k)] \in {"view", "view_all"}

ViewCapabilities == {k \in AllCapabilities : IsView(k)}

-----------------------------------------------------------------------------
Managers == {"owner", "org_admin", "regional_manager", "market_manager", "location_manager"}

SalesStaff ==
    In("leads", {"view", "create", "edit", "edit_any", "archive", "convert", "assign"})
    \cup In("quotes", {"view", "create", "edit", "send"})
    \cup In("clients", {"view", "create", "edit"})
    \cup Sub("clients", "contacts", {"manage"}) \cup Sub("clients", "locations", {"manage"})
    \cup In("tasks", {"view", "create", "edit", "assign", "complete", "manage"})
    \cup In("communications", {"view", "log", "send", "manage"})
    \cup In("orders", {"view"}) \cup In("catalog", {"view"})
    \cup Sub("pricing", "rules", {"view"}) \cup Sub("pricing", "approval", {"request"})

ServiceStaff ==
    In("workorders", {"view", "update_status", "complete"})
    \cup In("tasks", {"view", "complete"}) \cup In("communications", {"view", "log"})

ProductionStaff ==
    In("build", {"view", "manage"}) \cup Sub("build", "labor", {"record"})
    \cup In("tasks", {"view", "complete"})

PricingManager ==
    In("catalog", {"view"}) \cup In("quotes", {"view", "edit"})
    \cup Sub("quotes", "line", {"override_price", "apply_discount"})
    \cup Sub("pricing", "rules", {"view", "manage"})
    \cup Sub("pricing", "approval", {"request", "grant"})
    \cup UNION {Sub("pricing", part, {"manage"}) :
                  part \in {"price_lists", "contracts", "labor_rates", "segments",
                            "promotions", "bundles"}}

BillingStaff ==
    In("billing", {"view"}) \cup Sub("billing", "invoice", {"create", "send", "void"})
    \cup Sub("billing", "payment", {"record", "edit"}) \cup Sub("billing", "reports", {"view"})
    \cup In("clients", {"view"}) \cup In("orders", {"view"})
    \cup In("tasks", {"view", "create"})

RoleCodes ==
    Managers \cup {"sales_staff", "service_staff", "production_staff", "pricing_manager",
                   "billing_staff", "viewer"}

\* V1_DEFAULT_ROLES
DefaultRoles ==
    [c \in RoleCodes |->
        CASE c \in Managers -> AllCapabilities
          [] c = "sales_staff" -> SalesStaff
          [] c = "service_staff" -> ServiceStaff
          [] c = "production_staff" -> ProductionStaff
          [] c = "pricing_manager" -> PricingManager
          [] c = "billing_staff" -> BillingStaff
          [] OTHER -> ViewCapabilities]

=============================================================================
