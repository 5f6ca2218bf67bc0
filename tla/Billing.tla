------------------------------- MODULE Billing -------------------------------
(* Payments, invoices, workspace provisioning and the life of a subscription:
   controllers/paymentController.js, services/workspaceProvisioningService.js,
   services/subscriptionLifecycleService.js and jobs/subscriptionExpiryJob.js,
   for one company.  The gateway charges the card on its own, answers the
   browser with a signature (verifyPayment) and reports to the webhook, again
   and again until it is told 200.  Every await is a step, and a handler may
   die at any of them.  Time is counted in days.                             *)
EXTENDS Integers, FiniteSets

CONSTANTS Orders,     \* the orders a company may ever place
          NoOrder,    \* not one of them
          Workers,    \* requests and cron ticks that may overlap
          Period,     \* days a payment buys
          Grace,      \* SUBSCRIPTION_GRACE_DAYS
          Window,     \* SUBSCRIPTION_EXPIRY_REMINDER_DAYS
          LastDay,    \* bound on time
          MaxFaults   \* bound on crashes and on failing calls

VARIABLES payment,      \* Payment.status of each order, "none" before it is placed
          captured,     \* orders the gateway has charged
          reports,      \* webhook events the gateway has not been told 200 for
          invoices,     \* orders that have an Invoice (unique per payment)
          company,      \* Company.status
          waived,       \* history: the company was opened, or was being opened, without a payment
          subscription, \* Subscription: its status, last day and reminder stamp
          day,
          reminded,     \* reminders that went out today
          work,         \* what each worker is doing, with the copies it holds
          faults

vars == <<payment, captured, reports, invoices, company, waived, subscription, day, reminded, work, faults>>

Unset == -1
Idle == [at |-> "idle", order |-> NoOrder, copy |-> "none", hook |-> FALSE]
NoSubscription == [status |-> "none", ends |-> Unset, stamp |-> Unset]

PaymentStatus == {"created", "paid", "failed", "cancelled"}
SubscriptionStatus == {"active", "past_due", "expired"}   \* nothing writes the schema's other two
CompanyStatus == {"pending_payment", "active", "suspended"}

TypeOK ==
    /\ payment \in [Orders -> PaymentStatus \cup {"none"}]
    /\ captured \subseteq Orders
    /\ reports \subseteq (Orders \X {"captured", "failed"})
    /\ invoices \subseteq Orders
    /\ company \in CompanyStatus /\ waived \in BOOLEAN
    /\ subscription.status \in SubscriptionStatus \cup {"none"}
    /\ subscription.ends \in {Unset} \cup (0 .. LastDay + Period)
    /\ subscription.stamp \in {Unset} \cup (0 .. LastDay)
    /\ day \in 0 .. LastDay
    /\ reminded \in Nat
    /\ faults \in 0 .. MaxFaults
    /\ \A w \in Workers : work[w].order \in Orders \cup {NoOrder}

Init ==
    /\ payment = [o \in Orders |-> "none"]
    /\ captured = {} /\ reports = {} /\ invoices = {}
    /\ company = "pending_payment" /\ waived = FALSE
    /\ subscription = NoSubscription
    /\ day = 0 /\ reminded = 0 /\ faults = 0
    /\ work = [w \in Workers |-> Idle]

Becomes(w, step) == work' = [work EXCEPT ![w] = step]
Goes(w, at) == Becomes(w, [work[w] EXCEPT !.at = at])
Money == <<payment, captured, reports, invoices>>
Calendar == <<day, reminded>>

-----------------------------------------------------------------------------
(* createOrder and retryPayment: the order first, its Payment row after.     *)
CreateOrder(o) ==
    /\ payment[o] = "none"
    /\ payment' = [payment EXCEPT ![o] = "created"]
    /\ UNCHANGED <<captured, reports, invoices, company, waived, subscription, day, reminded, work, faults>>

(* The gateway charges an order or gives it up, and has something to report. *)
Capture(o) ==
    /\ payment[o] # "none" /\ o \notin captured
    /\ captured' = captured \cup {o}
    /\ reports' = reports \cup {<<o, "captured">>}
    /\ UNCHANGED <<payment, invoices, company, waived, subscription, day, reminded, work, faults>>

Decline(o) ==
    /\ payment[o] # "none" /\ o \notin captured /\ <<o, "failed">> \notin reports
    /\ faults < MaxFaults /\ faults' = faults + 1
    /\ reports' = reports \cup {<<o, "failed">>}
    /\ UNCHANGED <<payment, captured, invoices, company, waived, subscription, day, reminded, work>>

(* verifyPayment: the signature is the gateway's, so only a charged order has
   a valid one; an invalid one marks the payment failed whatever it was.     *)
Verify(w, o) ==
    /\ work[w] = Idle /\ payment[o] # "none"
    /\ \E valid \in BOOLEAN :
          /\ valid => o \in captured
          /\ ~valid => faults < MaxFaults
          /\ payment' = [payment EXCEPT ![o] = IF valid THEN "paid" ELSE "failed"]
          /\ faults' = faults + (IF valid THEN 0 ELSE 1)
          /\ work' = IF valid THEN [work EXCEPT ![w] = [Idle EXCEPT !.at = "issue", !.order = o]] ELSE work
    /\ UNCHANGED <<captured, reports, invoices, company, waived, subscription, day, reminded>>

(* webhook: a captured order is marked paid unless it is, then invoiced; a
   failed one is marked failed only if nothing else happened to it.          *)
Webhook(w, o) ==
    /\ work[w] = Idle
    /\ \/ /\ <<o, "captured">> \in reports
          /\ payment' = [payment EXCEPT ![o] = "paid"]
          /\ Becomes(w, [Idle EXCEPT !.at = "issue", !.order = o, !.hook = TRUE])
          /\ UNCHANGED reports
       \/ /\ <<o, "failed">> \in reports
          /\ payment' = [payment EXCEPT ![o] = IF @ = "created" THEN "failed" ELSE @]
          /\ reports' = reports \ {<<o, "failed">>}
          /\ UNCHANGED work
    /\ UNCHANGED <<captured, invoices, company, waived, subscription, day, reminded, faults>>

(* cancelPayment reads the payment, and saves over whatever it has become.   *)
LoadCancel(w, o) ==
    /\ work[w] = Idle /\ payment[o] = "created"
    /\ Becomes(w, [Idle EXCEPT !.at = "cancel", !.order = o])
    /\ UNCHANGED <<Money, company, waived, subscription, Calendar, faults>>

Cancel(w) ==
    /\ work[w].at = "cancel"
    /\ payment' = [payment EXCEPT ![work[w].order] = "cancelled"]
    /\ Becomes(w, Idle)
    /\ UNCHANGED <<captured, reports, invoices, company, waived, subscription, Calendar, faults>>

-----------------------------------------------------------------------------
\* As if the invoice alone settled an order.
LoadCompanyOnce(w) ==
    /\ work[w].at = "issue"
    /\ Becomes(w, [work[w] EXCEPT !.copy = company,
                                  !.at = IF work[w].order \in invoices THEN "answer" ELSE "invoice"])
    /\ UNCHANGED <<Money, company, waived, subscription, Calendar, faults>>

(* issueInvoiceAndProvision.  The invoice is the mark that an order has been
   dealt with; an order that has one is provisioned again only while the
   company, as it was read, is not active.                                   *)
LoadCompany(w) ==
    /\ work[w].at = "issue"
    /\ LET again == IF company = "active" THEN "answer" ELSE "subscribe" IN
       Becomes(w, [work[w] EXCEPT !.copy = company,
                                  !.at = IF work[w].order \in invoices THEN again ELSE "invoice"])
    /\ UNCHANGED <<Money, company, waived, subscription, Calendar, faults>>

(* Invoice.create, or the other one's when the unique index refuses it.      *)
CreateInvoice(w) ==
    /\ work[w].at = "invoice"
    /\ invoices' = invoices \cup {work[w].order}
    /\ Goes(w, IF work[w].order \notin invoices THEN "tell"
               ELSE IF work[w].copy # "active" THEN "subscribe" ELSE "answer")
    /\ UNCHANGED <<payment, captured, reports, company, waived, subscription, Calendar, faults>>

(* notifyAdmin, twice: it is awaited, and what it throws ends the request.   *)
TellAdmins(w) ==
    /\ work[w].at = "tell"
    /\ Goes(w, "subscribe")
    /\ UNCHANGED <<Money, company, waived, subscription, Calendar, faults>>

(* provisionWorkspace: the period starts now, whatever was left of the last. *)
Subscribe(w) ==
    /\ work[w].at = "subscribe"
    /\ subscription' = [subscription EXCEPT !.status = "active", !.ends = day + Period]
    /\ Goes(w, "activate")
    /\ UNCHANGED <<Money, company, waived, Calendar, faults>>

(* company.save() writes the status only if the copy had another one.        *)
Activate(w) ==
    /\ work[w].at = "activate"
    /\ company' = IF work[w].copy = "active" THEN company ELSE "active"
    /\ Goes(w, "answer")
    /\ UNCHANGED <<Money, waived, subscription, Calendar, faults>>

Answer(w) ==
    /\ work[w].at = "answer"
    /\ reports' = IF work[w].hook THEN reports \ {<<work[w].order, "captured">>} ELSE reports
    /\ Becomes(w, Idle)
    /\ UNCHANGED <<payment, captured, invoices, company, waived, subscription, Calendar, faults>>

(* The process dies, or a call throws: the gateway is not told 200.          *)
Fail(w) ==
    /\ work[w] # Idle /\ faults < MaxFaults
    /\ faults' = faults + 1
    /\ Becomes(w, Idle)
    /\ UNCHANGED <<Money, company, waived, subscription, Calendar>>

(* A superadmin suspends the tenant or reactivates it, whatever it was: one
   that never paid is opened with neither an invoice nor a subscription.     *)
SetTenantStatus ==
    /\ faults < MaxFaults /\ faults' = faults + 1
    /\ company' \in {"suspended", "active"}
    /\ waived' = (waived \/ company = "pending_payment")
    /\ UNCHANGED <<Money, subscription, Calendar, work>>

(* activateIfBypassed: where billing is not enforced, a company that has not
   paid is provisioned at its registration or login; with no plan seeded it
   is opened without a subscription.                                         *)
ActivateIfBypassed(w) ==
    /\ work[w] = Idle /\ company = "pending_payment"
    /\ faults < MaxFaults /\ faults' = faults + 1
    /\ \E at \in {"subscribe", "activate"} : Becomes(w, [Idle EXCEPT !.at = at, !.copy = company])
    /\ waived' = TRUE
    /\ UNCHANGED <<Money, company, subscription, Calendar>>

-----------------------------------------------------------------------------
(* subscriptionExpiryJob: runTransitions first, then sendDueReminders.  Each
   finds what it will work on, and works on it after an await.               *)
Lapsed == subscription.status = "active" /\ subscription.ends < day
Dead == subscription.status = "past_due" /\ subscription.ends + Grace < day
Stale == subscription.stamp = Unset \/ subscription.stamp < day
Due == /\ subscription.status = "active"
       /\ day <= subscription.ends /\ subscription.ends <= day + Window
       /\ Stale

Tick(w) ==
    /\ work[w] = Idle /\ (Lapsed \/ Dead \/ Due)
    /\ Goes(w, IF Lapsed THEN "past_due" ELSE IF Dead THEN "expired" ELSE "claim")
    /\ UNCHANGED <<Money, company, waived, subscription, Calendar, faults>>

Transition(w) ==
    /\ work[w].at \in {"past_due", "expired"}
    /\ subscription' = [subscription EXCEPT !.status = work[w].at]
    /\ Becomes(w, Idle)
    /\ UNCHANGED <<Money, company, waived, Calendar, faults>>

\* As if the claim repeated the query's filter on the id alone.
ClaimAnyway(w) ==
    /\ work[w].at = "claim"
    /\ subscription' = [subscription EXCEPT !.stamp = day]
    /\ Goes(w, "remind")
    /\ UNCHANGED <<Money, company, waived, Calendar, faults>>

(* The reminder is claimed by the same update that checks it is due.         *)
Claim(w) ==
    /\ work[w].at = "claim"
    /\ IF Stale THEN subscription' = [subscription EXCEPT !.stamp = day] /\ Goes(w, "remind")
       ELSE UNCHANGED subscription /\ Becomes(w, Idle)
    /\ UNCHANGED <<Money, company, waived, Calendar, faults>>

Remind(w) ==
    /\ work[w].at = "remind"
    /\ \/ reminded' = reminded + 1 /\ UNCHANGED <<subscription, faults>>
       \/ /\ faults < MaxFaults /\ faults' = faults + 1
          /\ subscription' = [subscription EXCEPT !.stamp = Unset]
          /\ UNCHANGED reminded
    /\ Becomes(w, Idle)
    /\ UNCHANGED <<Money, company, waived, day>>

(* A day passes.  Bound: handlers end within the day they started.           *)
NextDay ==
    /\ day < LastDay /\ \A w \in Workers : work[w] = Idle
    /\ day' = day + 1 /\ reminded' = 0
    /\ UNCHANGED <<Money, company, waived, subscription, work, faults>>

-----------------------------------------------------------------------------
Handle(w) == \/ Cancel(w) \/ LoadCompany(w) \/ CreateInvoice(w) \/ TellAdmins(w)
             \/ Subscribe(w) \/ Activate(w) \/ Answer(w)
             \/ Transition(w) \/ Claim(w) \/ Remind(w)

Next ==
    \/ \E o \in Orders : CreateOrder(o) \/ Capture(o) \/ Decline(o)
    \/ \E w \in Workers, o \in Orders : Verify(w, o) \/ Webhook(w, o) \/ LoadCancel(w, o)
    \/ \E w \in Workers : Handle(w) \/ Fail(w) \/ Tick(w) \/ ActivateIfBypassed(w)
    \/ SetTenantStatus
    \/ NextDay

(* Fairness: the event loop goes on with what it began, and the gateway goes
   on reporting what it was not told 200 for.                                *)
Fairness == /\ \A w \in Workers : WF_vars(Handle(w))
            /\ \A o \in Orders : SF_vars(\E w \in Workers : Webhook(w, o))

Spec == Init /\ [][Next]_vars /\ Fairness

(* However the browser's answer and the gateway's reports overlap, and
   wherever a handler dies, a charge ends in an invoice and an open company:
   the invoice is written before the workspace is provisioned, so a retry has
   to look past it (paymentController.js:19-25).                             *)
ChargeOpensWorkspace ==
    \A o \in Orders : (o \in captured) ~> (o \in invoices /\ company # "pending_payment")

(* An invoice, and a payment that says paid, stand only for a charge; a
   workspace that is open has an invoice and a subscription, unless it was
   opened without a payment by a superadmin or where billing is not enforced;
   and two cron workers or a claim given back never remind a company twice in
   a day (paymentController.js:19, platformController.js:112,
   demoActivationService.js:31, subscriptionExpiryJob.js:22).                 *)
BillingIsExact ==
    /\ invoices \subseteq captured
    /\ \A o \in Orders : payment[o] = "paid" => o \in captured
    /\ company # "pending_payment" => waived \/ (invoices # {} /\ subscription.status # "none")
    /\ reminded <= 1
=============================================================================
