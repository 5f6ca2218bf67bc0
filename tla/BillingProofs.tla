----------------------------- MODULE BillingProofs -----------------------------
(* Type correctness of Billing and that what it bills is exact, for any number
   of orders, workers and days, however handlers overlap and wherever they die. *)
EXTENDS Billing, TLAPS

\* What the bounds of the model are.
Bounds == Period \in Nat /\ LastDay \in Nat /\ MaxFaults \in Nat

Steps == {"idle", "issue", "cancel", "invoice", "tell", "subscribe", "activate", "answer",
          "past_due", "expired", "claim", "remind"}
Job == [at : Steps, order : Orders \cup {NoOrder}, copy : CompanyStatus \cup {"none"}, hook : BOOLEAN]

Record == [status : SubscriptionStatus \cup {"none"},
           ends : {Unset} \cup (0 .. LastDay + Period),
           stamp : {Unset} \cup (0 .. LastDay)]

TypeInv ==
    /\ payment \in [Orders -> PaymentStatus \cup {"none"}]
    /\ captured \subseteq Orders
    /\ reports \subseteq (Orders \X {"captured", "failed"})
    /\ invoices \subseteq Orders
    /\ company \in CompanyStatus
    /\ waived \in BOOLEAN
    /\ subscription \in Record
    /\ day \in 0 .. LastDay
    /\ reminded \in Nat
    /\ faults \in 0 .. MaxFaults
    /\ work \in [Workers -> Job]
    /\ \A w \in Workers : work[w].at = "cancel" => work[w].order \in Orders

\* The steps before an order's invoice is written, and those after, which a
\* company that is opened without a payment goes through as well.
Issuing == {"issue", "invoice"}
Provisioning == {"tell", "subscribe", "activate"}

\* What is reported, marked paid, invoiced or being dealt with was charged, and
\* what is provisioned is invoiced, unless a payment was waived.
ChargeInv ==
    /\ invoices \subseteq captured
    /\ \A o \in Orders : payment[o] = "paid" => o \in captured
    /\ \A o \in Orders : <<o, "captured">> \in reports => o \in captured
    /\ company # "pending_payment" => waived \/ (invoices # {} /\ subscription.status # "none")
    /\ \A w \in Workers :
        /\ work[w].at \in Issuing => work[w].order \in captured
        /\ work[w].at \in Provisioning => waived \/ work[w].order \in invoices
        /\ work[w].at = "activate" => waived \/ subscription.status # "none"

\* Today's reminder is out, or one worker is sending it, or nobody has claimed it.
ReminderInv ==
    /\ reminded <= 1
    /\ reminded = 1 => subscription.stamp = day
    /\ \A w \in Workers : work[w].at = "remind" => reminded = 0 /\ subscription.stamp = day
    /\ \A v, w \in Workers : work[v].at = "remind" /\ work[w].at = "remind" => v = w

-----------------------------------------------------------------------------
LEMMA IdleType == Idle \in Job /\ Idle.at = "idle"
BY DEF Idle, Job, Steps, CompanyStatus

\* What a worker holds when it begins and as it goes on.
LEMMA BegunType ==
    ASSUME NEW at \in Steps, NEW o \in Orders
    PROVE  /\ [Idle EXCEPT !.at = at, !.order = o] \in Job
           /\ [Idle EXCEPT !.at = at, !.order = o, !.hook = TRUE] \in Job
BY DEF Idle, Job, CompanyStatus

\* A company that is opened without a payment has no order.
LEMMA WaivedType ==
    ASSUME TypeInv, NEW at \in Steps, NEW h, h = [Idle EXCEPT !.at = at, !.copy = company]
    PROVE  h \in Job /\ h.at = at
<1>1. company \in CompanyStatus \cup {"none"}
  BY DEF TypeInv
<1>2. Idle \in Job
  BY IdleType
<1> QED
  BY <1>1, <1>2 DEF Job

LEMMA GoneType ==
    ASSUME NEW h \in Job, NEW at \in Steps
    PROVE  /\ [h EXCEPT !.at = at] \in Job
           /\ [h EXCEPT !.at = at].at = at
           /\ [h EXCEPT !.at = at].order = h.order
BY DEF Job

LEMMA WorkType ==
    ASSUME TypeInv, NEW w \in Workers, NEW h \in Job, Becomes(w, h),
           h.at = "cancel" => h.order \in Orders
    PROVE  /\ work' \in [Workers -> Job]
           /\ \A v \in Workers : work'[v].at = "cancel" => work'[v].order \in Orders
           /\ work'[w] = h
           /\ \A v \in Workers : v # w => work'[v] = work[v]
BY DEF TypeInv, Becomes

LEMMA TypeInit == Bounds /\ Init => TypeInv
<1> SUFFICES ASSUME Bounds, Init PROVE TypeInv
  OBVIOUS
<1>1. subscription \in Record
  BY DEF Init, NoSubscription, Record, Unset
<1>2. work \in [Workers -> Job] /\ \A w \in Workers : work[w].at = "idle"
  BY IdleType DEF Init
<1>3. waived \in BOOLEAN
  BY DEF Init
<1> QED
  BY <1>1, <1>2, <1>3 DEF Init, TypeInv, Bounds, PaymentStatus, CompanyStatus

LEMMA TypeOrders ==
    ASSUME Bounds, TypeInv, NEW o \in Orders, CreateOrder(o) \/ Capture(o) \/ Decline(o)
    PROVE  TypeInv'
BY DEF Bounds, TypeInv, CreateOrder, Capture, Decline, PaymentStatus

LEMMA TypeBegins ==
    ASSUME Bounds, TypeInv, NEW w \in Workers, NEW o \in Orders,
           Verify(w, o) \/ Webhook(w, o) \/ LoadCancel(w, o)
    PROVE  TypeInv'
<1>1. CASE Verify(w, o)
  <2>1. payment' \in [Orders -> PaymentStatus \cup {"none"}] /\ faults' \in 0 .. MaxFaults
    BY <1>1 DEF Verify, TypeInv, PaymentStatus, Bounds
  <2>2. [Idle EXCEPT !.at = "issue", !.order = o] \in Job /\ [Idle EXCEPT !.at = "issue", !.order = o].at = "issue"
    BY BegunType DEF Steps, Idle
  <2>3. work' = work \/ Becomes(w, [Idle EXCEPT !.at = "issue", !.order = o])
    BY <1>1 DEF Verify, Becomes
  <2>4. work' \in [Workers -> Job] /\ \A v \in Workers : work'[v].at = "cancel" => work'[v].order \in Orders
    BY <2>2, <2>3, WorkType DEF TypeInv
  <2> QED
    BY <1>1, <2>1, <2>4 DEF Verify, TypeInv
<1>2. CASE Webhook(w, o)
  <2>1. payment' \in [Orders -> PaymentStatus \cup {"none"}] /\ reports' \subseteq reports
    BY <1>2 DEF Webhook, TypeInv, PaymentStatus
  <2> DEFINE h == [Idle EXCEPT !.at = "issue", !.order = o, !.hook = TRUE]
  <2>2. h \in Job /\ h.at = "issue"
    BY BegunType DEF Steps, Idle
  <2>3. work' = work \/ Becomes(w, h)
    BY <1>2 DEF Webhook
  <2>4. work' \in [Workers -> Job] /\ \A v \in Workers : work'[v].at = "cancel" => work'[v].order \in Orders
    BY <2>2, <2>3, WorkType DEF TypeInv
  <2> QED
    BY <1>2, <2>1, <2>4 DEF Webhook, TypeInv
<1>3. CASE LoadCancel(w, o)
  <2> DEFINE h == [Idle EXCEPT !.at = "cancel", !.order = o]
  <2>1. h \in Job /\ h.order = o
    BY BegunType DEF Steps, Idle
  <2>2. Becomes(w, h)
    BY <1>3 DEF LoadCancel
  <2>3. work' \in [Workers -> Job] /\ \A v \in Workers : work'[v].at = "cancel" => work'[v].order \in Orders
    BY <2>1, <2>2, WorkType
  <2> QED
    BY <1>3, <2>3 DEF LoadCancel, TypeInv, Money, Calendar
<1> QED
  BY <1>1, <1>2, <1>3

\* A worker that ends, or goes on with the order it has.
LEMMA TypeGoes ==
    ASSUME TypeInv, NEW w \in Workers,
           \/ Becomes(w, Idle)
           \/ \E at \in Steps \ {"cancel"} : Goes(w, at)
    PROVE  /\ work' \in [Workers -> Job]
           /\ \A v \in Workers : work'[v].at = "cancel" => work'[v].order \in Orders
<1>1. CASE Becomes(w, Idle)
  BY <1>1, IdleType, WorkType
<1>2. ASSUME NEW at \in Steps \ {"cancel"}, Goes(w, at)
      PROVE  /\ work' \in [Workers -> Job]
             /\ \A v \in Workers : work'[v].at = "cancel" => work'[v].order \in Orders
  <2> DEFINE h == [work[w] EXCEPT !.at = at]
  <2>1. h \in Job /\ h.at = at
    BY GoneType DEF TypeInv
  <2> QED
    BY <1>2, <2>1, WorkType DEF Goes
<1> QED
  BY <1>1, <1>2

LEMMA TypePayments ==
    ASSUME Bounds, TypeInv, ChargeInv, NEW w \in Workers,
           \/ Cancel(w) \/ LoadCompany(w) \/ CreateInvoice(w) \/ TellAdmins(w)
           \/ Subscribe(w) \/ Activate(w) \/ Answer(w) \/ Fail(w)
    PROVE  TypeInv'
<1> USE DEF Money, Calendar
<1>1. CASE Cancel(w)
  <2>1. payment' \in [Orders -> PaymentStatus \cup {"none"}]
    BY <1>1 DEF Cancel, TypeInv, PaymentStatus
  <2> QED
    BY <1>1, <2>1, TypeGoes DEF Cancel, TypeInv
<1>2. CASE LoadCompany(w)
  <2> DEFINE at == IF work[w].order \in invoices THEN (IF company = "active" THEN "answer" ELSE "subscribe") ELSE "invoice"
             h == [work[w] EXCEPT !.copy = company, !.at = at]
  <2>1. at \in Steps \ {"cancel"}
    BY DEF Steps
  <2>2. Becomes(w, h)
    BY <1>2 DEF LoadCompany
  <2> HIDE DEF at
  <2>3. h \in Job /\ h.at = at
    BY <2>1 DEF TypeInv, Job
  <2> HIDE DEF h
  <2> QED
    BY <1>2, <2>1, <2>2, <2>3, WorkType DEF LoadCompany, TypeInv
<1>3. CASE CreateInvoice(w)
  <2>1. PICK at \in Steps \ {"cancel"} : Goes(w, at)
    BY <1>3 DEF CreateInvoice, Steps
  <2>2. invoices' \subseteq Orders
    BY <1>3 DEF CreateInvoice, TypeInv, ChargeInv, Issuing
  <2> QED
    BY <1>3, <2>1, <2>2, TypeGoes DEF CreateInvoice, TypeInv
<1>4. CASE TellAdmins(w)
  BY <1>4, TypeGoes DEF TellAdmins, TypeInv, Steps
<1>5. CASE Subscribe(w)
  <2>1. day + Period \in 0 .. LastDay + Period
    BY DEF TypeInv, Bounds
  <2> DEFINE ends == day + Period
  <2>2. subscription' = [subscription EXCEPT !.status = "active", !.ends = ends]
    BY <1>5 DEF Subscribe
  <2> HIDE DEF ends
  <2>3. subscription' \in Record
    BY <2>1, <2>2 DEF TypeInv, Record, SubscriptionStatus, ends
  <2> QED
    BY <1>5, <2>3, TypeGoes DEF Subscribe, TypeInv, Steps
<1>6. CASE Activate(w)
  BY <1>6, TypeGoes DEF Activate, TypeInv, Steps, CompanyStatus
<1>7. CASE Answer(w)
  BY <1>7, TypeGoes DEF Answer, TypeInv
<1>8. CASE Fail(w)
  BY <1>8, TypeGoes DEF Fail, TypeInv, Bounds
<1> QED
  BY <1>1, <1>2, <1>3, <1>4, <1>5, <1>6, <1>7, <1>8

LEMMA TypeCron ==
    ASSUME Bounds, TypeInv, NEW w \in Workers,
           Tick(w) \/ Transition(w) \/ Claim(w) \/ Remind(w) \/ ActivateIfBypassed(w)
    PROVE  TypeInv'
<1> USE DEF Money, Calendar
<1>1. CASE Tick(w)
  <2>1. PICK at \in Steps \ {"cancel"} : Goes(w, at)
    BY <1>1 DEF Tick, Steps
  <2> QED
    BY <1>1, <2>1, TypeGoes DEF Tick, TypeInv
<1>2. CASE Transition(w)
  <2>1. subscription' \in Record
    BY <1>2 DEF Transition, TypeInv, Record, SubscriptionStatus
  <2> QED
    BY <1>2, <2>1, TypeGoes DEF Transition, TypeInv
<1>3. CASE Claim(w)
  <2>1. subscription' \in Record
    BY <1>3 DEF Claim, TypeInv, Record
  <2> QED
    BY <1>3, <2>1, TypeGoes DEF Claim, TypeInv, Steps
<1>4. CASE Remind(w)
  <2>1. subscription' \in Record /\ reminded' \in Nat /\ faults' \in 0 .. MaxFaults
    BY <1>4 DEF Remind, TypeInv, Record, Bounds
  <2> QED
    BY <1>4, <2>1, TypeGoes DEF Remind, TypeInv
<1>5. CASE ActivateIfBypassed(w)
  <2>1. PICK at \in {"subscribe", "activate"} : Becomes(w, [Idle EXCEPT !.at = at, !.copy = company])
    BY <1>5 DEF ActivateIfBypassed
  <2> DEFINE h == [Idle EXCEPT !.at = at, !.copy = company]
  <2>2. h \in Job /\ h.at = at
    BY WaivedType DEF Steps
  <2>a. Becomes(w, h)
    BY <2>1
  <2> HIDE DEF h
  <2>3. work' \in [Workers -> Job] /\ \A v \in Workers : work'[v].at = "cancel" => work'[v].order \in Orders
    BY <2>2, <2>a, WorkType DEF Steps
  <2> QED
    BY <1>5, <2>3 DEF ActivateIfBypassed, TypeInv, Bounds
<1> QED
  BY <1>1, <1>2, <1>3, <1>4, <1>5

LEMMA TypeStep == Bounds /\ TypeInv /\ ChargeInv /\ [Next]_vars => TypeInv'
<1> SUFFICES ASSUME Bounds, TypeInv, ChargeInv, [Next]_vars PROVE TypeInv'
  OBVIOUS
<1>1. CASE SetTenantStatus
  BY <1>1 DEF SetTenantStatus, TypeInv, CompanyStatus, Bounds, Money, Calendar
<1>2. CASE NextDay
  BY <1>2 DEF NextDay, TypeInv, Bounds, Money
<1>3. CASE UNCHANGED vars
  BY <1>3 DEF vars, TypeInv
<1> QED
  BY <1>1, <1>2, <1>3, TypeOrders, TypeBegins, TypePayments, TypeCron DEF Next, Handle

LEMMA TypeInvOK == TypeInv => TypeOK
BY DEF TypeInv, TypeOK, Record, Job

-----------------------------------------------------------------------------
(* Charges                                                                 *)

LEMMA ChargeInit == Init => ChargeInv
BY DEF Init, ChargeInv, Idle, Issuing, Provisioning

\* What a worker's step has to keep about the charge it deals with.
ChargeOK(h) ==
    /\ h.at \in Issuing => h.order \in captured
    /\ h.at \in Provisioning => waived \/ h.order \in invoices
    /\ h.at = "activate" => waived \/ subscription.status # "none"

\* One worker goes on to h and what was charged, invoiced and begun stays so.
LEMMA ChargeWork ==
    ASSUME TypeInv, ChargeInv, NEW w \in Workers, NEW h \in Job, Becomes(w, h),
           captured \subseteq captured', invoices \subseteq invoices',
           subscription'.status = "none" => subscription.status = "none",
           h.at \in Issuing => h.order \in captured',
           waived => waived',
           h.at \in Provisioning => waived' \/ h.order \in invoices',
           h.at = "activate" => waived' \/ subscription'.status # "none"
    PROVE  \A v \in Workers : ChargeOK(work[v])'
<1>1. work'[w] = h /\ \A v \in Workers : v # w => work'[v] = work[v]
  BY DEF TypeInv, Becomes
<1>2. ChargeOK(work[w])'
  BY <1>1 DEF ChargeOK
<1>3. ASSUME NEW v \in Workers, v # w PROVE ChargeOK(work[v])'
  BY <1>1, <1>3 DEF ChargeOK, ChargeInv
<1> QED
  BY <1>2, <1>3

LEMMA ChargeOrders ==
    ASSUME TypeInv, ChargeInv, NEW o \in Orders, CreateOrder(o) \/ Capture(o) \/ Decline(o)
    PROVE  ChargeInv'
<1>1. CASE CreateOrder(o)
  BY <1>1 DEF CreateOrder, TypeInv, ChargeInv
<1>2. CASE Capture(o)
  BY <1>2 DEF Capture, TypeInv, ChargeInv
<1>3. CASE Decline(o)
  BY <1>3 DEF Decline, TypeInv, ChargeInv
<1> QED
  BY <1>1, <1>2, <1>3

LEMMA ChargeBegins ==
    ASSUME TypeInv, ChargeInv, NEW w \in Workers, NEW o \in Orders,
           Verify(w, o) \/ Webhook(w, o) \/ LoadCancel(w, o)
    PROVE  ChargeInv'
<1>1. /\ captured' = captured /\ invoices' = invoices /\ company' = company /\ waived' = waived /\ subscription' = subscription
      /\ reports' \subseteq reports
  BY DEF Verify, Webhook, LoadCancel, Money, Calendar
<1>2. \A p \in Orders : payment'[p] = "paid" => payment[p] = "paid" \/ p \in captured
  BY DEF Verify, Webhook, LoadCancel, TypeInv, ChargeInv, Money, PaymentStatus
<1>3. \/ work' = work
      \/ \E h \in Job : Becomes(w, h) /\ (h.at \in Issuing => h.order \in captured) /\ h.at \notin Provisioning
  <2> DEFINE issue == [Idle EXCEPT !.at = "issue", !.order = o]
             hook == [Idle EXCEPT !.at = "issue", !.order = o, !.hook = TRUE]
             cancel == [Idle EXCEPT !.at = "cancel", !.order = o]
  <2>1. issue \in Job /\ hook \in Job /\ cancel \in Job
    BY BegunType DEF Steps
  <2>2. issue.at = "issue" /\ issue.order = o /\ hook.at = "issue" /\ hook.order = o /\ cancel.at = "cancel"
    BY DEF Idle
  <2>3. \/ work' = work
        \/ Becomes(w, issue) /\ o \in captured
        \/ Becomes(w, hook) /\ o \in captured
        \/ Becomes(w, cancel)
    BY DEF Verify, Webhook, LoadCancel, Becomes, ChargeInv
  <2> HIDE DEF issue, hook, cancel
  <2> QED
    BY <2>1, <2>2, <2>3 DEF Issuing, Provisioning
<1>4. \A v \in Workers : ChargeOK(work[v])'
  <2>1. CASE work' = work
    BY <1>1, <2>1 DEF ChargeOK, ChargeInv
  <2>2. CASE \E h \in Job : Becomes(w, h) /\ (h.at \in Issuing => h.order \in captured) /\ h.at \notin Provisioning
    <3>1. PICK h \in Job : Becomes(w, h) /\ (h.at \in Issuing => h.order \in captured) /\ h.at \notin Provisioning
      BY <2>2
    <3>2. h.at # "activate"
      BY <3>1 DEF Provisioning
    <3> QED
      BY <1>1, <3>1, <3>2, ChargeWork
  <2> QED
    BY <1>3, <2>1, <2>2
<1> QED
  BY <1>1, <1>2, <1>4 DEF ChargeInv, ChargeOK

\* The steps that keep the workers' orders and only add invoices.
LEMMA ChargeGoes ==
    ASSUME TypeInv, ChargeInv, NEW w \in Workers, NEW h \in Job, Becomes(w, h),
           payment' = payment \/ \E o \in Orders : payment' = [payment EXCEPT ![o] = "cancelled"],
           captured' = captured, reports' \subseteq reports,
           invoices \subseteq invoices', invoices' \subseteq captured,
           subscription'.status = "none" => subscription.status = "none",
           company' # "pending_payment" =>
               waived' \/ company # "pending_payment" \/ (invoices # {} /\ subscription.status # "none"),
           h.at \in Issuing => h.order \in captured,
           waived => waived',
           h.at \in Provisioning => waived' \/ h.order \in invoices',
           h.at = "activate" => waived' \/ subscription'.status # "none"
    PROVE  ChargeInv'
<1>1. \A v \in Workers : ChargeOK(work[v])'
  BY ChargeWork
<1>2. \A o \in Orders : payment'[o] = "paid" => payment[o] = "paid"
  BY DEF TypeInv
<1> QED
  BY <1>1, <1>2 DEF ChargeInv, ChargeOK

LEMMA ChargeHandles ==
    ASSUME TypeInv, ChargeInv, NEW w \in Workers, Handle(w) \/ Fail(w) \/ Tick(w) \/ ActivateIfBypassed(w)
    PROVE  ChargeInv'
<1> USE DEF Money, Calendar
<1>0. work[w] \in Job /\ (work[w].at \in Issuing => work[w].order \in captured)
      /\ (work[w].at \in Provisioning => waived \/ work[w].order \in invoices)
      /\ (work[w].at = "activate" => waived \/ subscription.status # "none")
      /\ invoices \subseteq captured
  BY DEF TypeInv, ChargeInv
<1>a. Idle \in Job /\ Idle.at \notin Issuing \cup Provisioning
  BY IdleType DEF Issuing, Provisioning
<1>1. CASE Cancel(w)
  <2>1. work[w].order \in Orders
    BY <1>1 DEF Cancel, TypeInv
  <2> QED
    BY <1>0, <1>1, <1>a, <2>1, ChargeGoes DEF Cancel, Provisioning
<1>2. CASE LoadCompany(w)
  <2> DEFINE at == IF work[w].order \in invoices THEN (IF company = "active" THEN "answer" ELSE "subscribe") ELSE "invoice"
             h == [work[w] EXCEPT !.copy = company, !.at = at]
  <2>1. at \in Steps /\ at # "activate" /\ (at \in Provisioning => work[w].order \in invoices)
    BY DEF Steps, Provisioning
  <2>2. Becomes(w, h)
    BY <1>2 DEF LoadCompany
  <2> HIDE DEF at
  <2>3. h \in Job /\ h.at = at /\ h.order = work[w].order
    BY <1>0, <2>1 DEF TypeInv, Job
  <2> HIDE DEF h
  <2>4. work[w].order \in captured
    BY <1>0, <1>2 DEF LoadCompany, Issuing
  <2> QED
    BY <1>0, <1>2, <2>1, <2>2, <2>3, <2>4, ChargeGoes DEF LoadCompany
<1>3. CASE CreateInvoice(w)
  <2>1. work[w].order \in captured
    BY <1>0, <1>3 DEF CreateInvoice, Issuing
  <2>2. PICK at \in Steps \ {"activate"} : Goes(w, at)
    BY <1>3 DEF CreateInvoice, Steps
  <2> DEFINE h == [work[w] EXCEPT !.at = at]
  <2>3. h \in Job /\ h.at = at /\ h.order = work[w].order
    BY <1>0, GoneType
  <2>4. Becomes(w, h)
    BY <2>2 DEF Goes
  <2> HIDE DEF h
  <2> QED
    BY <1>0, <1>3, <2>1, <2>3, <2>4, ChargeGoes DEF CreateInvoice
<1>4. CASE TellAdmins(w) \/ Subscribe(w) \/ Activate(w)
  <2>1. waived \/ work[w].order \in invoices
    BY <1>0, <1>4 DEF TellAdmins, Subscribe, Activate, Provisioning
  <2>2. PICK at \in Steps : Goes(w, at) /\ (at = "activate" => Subscribe(w)) /\ at \notin Issuing
    BY <1>4 DEF TellAdmins, Subscribe, Activate, Steps, Issuing
  <2> DEFINE h == [work[w] EXCEPT !.at = at]
  <2>3. h \in Job /\ h.at = at /\ h.order = work[w].order
    BY <1>0, GoneType
  <2>4. Becomes(w, h)
    BY <2>2 DEF Goes
  <2>5. subscription'.status = "none" => subscription.status = "none" /\ at # "activate"
    <3>1. CASE Subscribe(w)
      <4>1. subscription'.status = "active"
        BY <3>1 DEF Subscribe, TypeInv, Record
      <4> QED
        BY <4>1
    <3>2. CASE ~Subscribe(w)
      BY <1>4, <2>2, <3>2 DEF TellAdmins, Activate
    <3> QED
      BY <3>1, <3>2
  <2>6. company' # "pending_payment" =>
            waived \/ company # "pending_payment" \/ (invoices # {} /\ subscription.status # "none")
    BY <1>0, <1>4 DEF Provisioning, TellAdmins, Subscribe, Activate
  <2>7. payment' = payment /\ captured' = captured /\ reports' = reports /\ invoices' = invoices /\ waived' = waived
    BY <1>4 DEF TellAdmins, Subscribe, Activate
  <2> HIDE DEF h
  <2> QED
    BY <1>0, <2>1, <2>2, <2>3, <2>4, <2>5, <2>6, <2>7, ChargeGoes
<1>5. CASE Answer(w)
  BY <1>0, <1>5, <1>a, ChargeGoes DEF Answer, Provisioning
<1>6. CASE Fail(w)
  BY <1>0, <1>6, <1>a, ChargeGoes DEF Fail, Provisioning
<1>7. CASE Tick(w) \/ Claim(w)
  <2>1. \/ Becomes(w, Idle)
        \/ \E at \in {"past_due", "expired", "claim", "remind"} : Goes(w, at)
    BY <1>7 DEF Tick, Claim
  <2>2. PICK h \in Job : Becomes(w, h) /\ h.at \notin Issuing \cup Provisioning
    <3>1. CASE Becomes(w, Idle)
      BY <1>a, <3>1
    <3>2. ASSUME NEW at \in {"past_due", "expired", "claim", "remind"}, Goes(w, at)
          PROVE  \E h \in Job : Becomes(w, h) /\ h.at \notin Issuing \cup Provisioning
      BY <1>0, <3>2, GoneType, ZenonT(60) DEF Goes, Steps, Issuing, Provisioning
    <3> QED
      BY <2>1, <3>1, <3>2
  <2>3. subscription'.status = subscription.status
    BY <1>7 DEF Tick, Claim, TypeInv, Record
  <2>4. payment' = payment /\ captured' = captured /\ reports' = reports /\ invoices' = invoices /\ company' = company /\ waived' = waived
    BY <1>7 DEF Tick, Claim
  <2> QED
    BY <1>0, <2>2, <2>3, <2>4, ChargeGoes DEF Provisioning
<1>8. CASE Transition(w) \/ Remind(w)
  <2>1. subscription'.status = "none" => subscription.status = "none"
    BY <1>8 DEF Transition, Remind, TypeInv, Record
  <2>2. payment' = payment /\ captured' = captured /\ reports' = reports /\ invoices' = invoices /\ company' = company /\ waived' = waived
    BY <1>8 DEF Transition, Remind
  <2>3. Becomes(w, Idle)
    BY <1>8 DEF Transition, Remind
  <2> QED
    BY <1>0, <1>a, <2>1, <2>2, <2>3, ChargeGoes DEF Provisioning
<1>9. CASE ActivateIfBypassed(w)
  <2>1. PICK at \in {"subscribe", "activate"} : Becomes(w, [Idle EXCEPT !.at = at, !.copy = company])
    BY <1>9 DEF ActivateIfBypassed
  <2> DEFINE h == [Idle EXCEPT !.at = at, !.copy = company]
  <2>2. h \in Job /\ h.at = at
    BY WaivedType DEF Steps
  <2>a. Becomes(w, h)
    BY <2>1
  <2>3. at \notin Issuing
    BY DEF Issuing
  <2> HIDE DEF h
  <2>4. /\ payment' = payment /\ captured' = captured /\ reports' = reports /\ invoices' = invoices
        /\ company' = company /\ subscription' = subscription /\ waived'
    BY <1>9 DEF ActivateIfBypassed
  <2>5. h.at \in Issuing => h.order \in captured
    BY <2>2, <2>3
  <2> QED
    BY <1>0, <2>2, <2>4, <2>5, <2>a, ChargeGoes
<1> QED
  BY <1>1, <1>2, <1>3, <1>4, <1>5, <1>6, <1>7, <1>8, <1>9 DEF Handle

LEMMA ChargeStep == TypeInv /\ ChargeInv /\ [Next]_vars => ChargeInv'
<1> SUFFICES ASSUME TypeInv, ChargeInv, [Next]_vars PROVE ChargeInv'
  OBVIOUS
<1>1. CASE SetTenantStatus
  BY <1>1 DEF SetTenantStatus, ChargeInv, Money, Calendar
<1>2. CASE NextDay
  BY <1>2 DEF NextDay, ChargeInv, Money
<1>3. CASE UNCHANGED vars
  BY <1>3 DEF vars, ChargeInv
<1> QED
  BY <1>1, <1>2, <1>3, ChargeOrders, ChargeBegins, ChargeHandles DEF Next

-----------------------------------------------------------------------------
(* Reminders                                                               *)

LEMMA ReminderInit == Bounds /\ Init => ReminderInv
BY DEF Bounds, Init, ReminderInv, Idle

\* A step that reminds nobody and leaves the stamp, the day and the count alone.
LEMMA ReminderKeeps ==
    ASSUME ReminderInv, reminded' = reminded, day' = day, subscription'.stamp = subscription.stamp,
           \A v \in Workers : work'[v].at = "remind" => work[v].at = "remind"
    PROVE  ReminderInv'
BY DEF ReminderInv

LEMMA ReminderHandles ==
    ASSUME TypeInv, ReminderInv, NEW w \in Workers, Handle(w) \/ Fail(w) \/ Tick(w) \/ ActivateIfBypassed(w)
    PROVE  ReminderInv'
<1> USE DEF Money, Calendar
<1>0. work[w] \in Job /\ Idle.at = "idle"
  BY IdleType DEF TypeInv
<1>1. CASE \/ Cancel(w) \/ LoadCompany(w) \/ CreateInvoice(w) \/ TellAdmins(w) \/ Subscribe(w)
           \/ Activate(w) \/ Answer(w) \/ Transition(w) \/ Fail(w) \/ Tick(w)
  <2>1. PICK h : Becomes(w, h) /\ h.at # "remind"
    <3>1. CASE Cancel(w) \/ Answer(w) \/ Transition(w) \/ Fail(w)
      BY <1>0, <3>1 DEF Cancel, Answer, Transition, Fail
    <3>2. CASE LoadCompany(w)
      <4> DEFINE at == IF work[w].order \in invoices THEN (IF company = "active" THEN "answer" ELSE "subscribe") ELSE "invoice"
                 h == [work[w] EXCEPT !.copy = company, !.at = at]
      <4>1. at # "remind" /\ Becomes(w, h)
        BY <3>2 DEF LoadCompany
      <4> HIDE DEF at
      <4>2. h.at = at
        BY <1>0 DEF Job
      <4> QED
        BY <4>1, <4>2
    <3>3. CASE CreateInvoice(w) \/ TellAdmins(w) \/ Subscribe(w) \/ Activate(w) \/ Tick(w)
      <4>1. PICK at \in Steps \ {"remind"} : Goes(w, at)
        BY <3>3 DEF CreateInvoice, TellAdmins, Subscribe, Activate, Tick, Steps
      <4> DEFINE h == [work[w] EXCEPT !.at = at]
      <4>2. h.at = at /\ at # "remind"
        BY <1>0, <4>1, GoneType
      <4>3. Becomes(w, h)
        BY <4>1 DEF Goes
      <4> HIDE DEF h
      <4> QED
        BY <4>2, <4>3
    <3> QED
      BY <1>1, <3>1, <3>2, <3>3
  <2>2. \A v \in Workers : work'[v].at = "remind" => work[v].at = "remind"
    BY <2>1 DEF Becomes, TypeInv
  <2>3. reminded' = reminded /\ day' = day
    BY <1>1 DEF Cancel, LoadCompany, CreateInvoice, TellAdmins, Subscribe, Activate, Answer, Transition, Fail, Tick
  <2>4. subscription'.stamp = subscription.stamp
    <3>1. CASE Subscribe(w) \/ Transition(w)
      BY <3>1 DEF Subscribe, Transition, TypeInv, Record
    <3>2. CASE subscription' = subscription
      BY <3>2
    <3> QED
      BY <1>1, <3>1, <3>2 DEF Cancel, LoadCompany, CreateInvoice, TellAdmins, Activate, Answer, Fail, Tick
  <2> QED
    BY <2>2, <2>3, <2>4, ReminderKeeps
<1>2. CASE Claim(w)
  <2>1. reminded' = reminded /\ day' = day
    BY <1>2 DEF Claim
  <2>2. CASE Stale
    <3>1. subscription'.stamp = day
      BY <1>2, <2>2 DEF Claim, TypeInv, Record
    <3>2. reminded = 0 /\ \A v \in Workers : work[v].at # "remind"
      BY <2>2 DEF Stale, ReminderInv, TypeInv, Unset
    <3>3. \A v \in Workers : work'[v].at = "remind" => v = w
      BY <1>2, <2>2, <3>2 DEF Claim, Goes, Becomes, TypeInv
    <3> QED
      BY <2>1, <3>1, <3>2, <3>3 DEF ReminderInv
  <2>3. CASE ~Stale
    <3>1. subscription' = subscription /\ Becomes(w, Idle)
      BY <1>2, <2>3 DEF Claim
    <3>2. \A v \in Workers : work'[v].at = "remind" => work[v].at = "remind"
      BY <1>0, <3>1 DEF Becomes, TypeInv
    <3> QED
      BY <2>1, <3>1, <3>2, ReminderKeeps
  <2> QED
    BY <2>2, <2>3
<1>3. CASE Remind(w)
  <2>1. reminded = 0 /\ subscription.stamp = day /\ day' = day
    BY <1>3 DEF Remind, ReminderInv
  <2>2. \A v \in Workers : work'[v].at # "remind"
    BY <1>0, <1>3 DEF Remind, Becomes, ReminderInv, TypeInv
  <2>3. \/ reminded' = 1 /\ subscription' = subscription
        \/ reminded' = 0
    BY <1>3, <2>1 DEF Remind
  <2> QED
    BY <2>1, <2>2, <2>3 DEF ReminderInv
<1>4. CASE ActivateIfBypassed(w)
  <2>1. PICK at \in {"subscribe", "activate"} : Becomes(w, [Idle EXCEPT !.at = at, !.copy = company])
    BY <1>4 DEF ActivateIfBypassed
  <2> DEFINE h == [Idle EXCEPT !.at = at, !.copy = company]
  <2>2. h.at # "remind"
    BY WaivedType DEF Steps
  <2>a. Becomes(w, h)
    BY <2>1
  <2> HIDE DEF h
  <2>3. \A v \in Workers : work'[v].at = "remind" => work[v].at = "remind"
    BY <2>2, <2>a DEF Becomes, TypeInv
  <2> QED
    BY <1>4, <2>3, ReminderKeeps DEF ActivateIfBypassed
<1> QED
  BY <1>1, <1>2, <1>3, <1>4 DEF Handle

LEMMA ReminderStep == TypeInv /\ ReminderInv /\ [Next]_vars => ReminderInv'
<1> SUFFICES ASSUME TypeInv, ReminderInv, [Next]_vars PROVE ReminderInv'
  OBVIOUS
<1>1. ASSUME NEW o \in Orders, CreateOrder(o) \/ Capture(o) \/ Decline(o) PROVE ReminderInv'
  BY <1>1, ReminderKeeps DEF CreateOrder, Capture, Decline
<1>2. ASSUME NEW w \in Workers, NEW o \in Orders, Verify(w, o) \/ Webhook(w, o) \/ LoadCancel(w, o)
      PROVE  ReminderInv'
  <2> DEFINE issue == [Idle EXCEPT !.at = "issue", !.order = o]
             hook == [Idle EXCEPT !.at = "issue", !.order = o, !.hook = TRUE]
             cancel == [Idle EXCEPT !.at = "cancel", !.order = o]
  <2>1. issue.at = "issue" /\ hook.at = "issue" /\ cancel.at = "cancel"
    BY DEF Idle
  <2>2. work' = work \/ Becomes(w, issue) \/ Becomes(w, hook) \/ Becomes(w, cancel)
    BY <1>2 DEF Verify, Webhook, LoadCancel, Becomes
  <2> HIDE DEF issue, hook, cancel
  <2>3. \A v \in Workers : work'[v].at = "remind" => work[v].at = "remind"
    BY <2>1, <2>2 DEF Becomes, TypeInv
  <2>4. reminded' = reminded /\ day' = day /\ subscription' = subscription
    BY <1>2 DEF Verify, Webhook, LoadCancel, Money, Calendar
  <2> QED
    BY <2>3, <2>4, ReminderKeeps
<1>3. CASE SetTenantStatus
  BY <1>3, ReminderKeeps DEF SetTenantStatus, Money, Calendar
<1>4. CASE NextDay
  BY <1>4, IdleType DEF NextDay, ReminderInv, Money
<1>5. CASE UNCHANGED vars
  BY <1>5, ReminderKeeps DEF vars
<1> QED
  BY <1>1, <1>2, <1>3, <1>4, <1>5, ReminderHandles DEF Next

-----------------------------------------------------------------------------
\* However handlers overlap and wherever they die, the state has its types.
THEOREM TypeCorrect ==
    ASSUME Bounds
    PROVE  Spec => []TypeOK
BY TypeInit, TypeStep, TypeInvOK, ChargeInit, ChargeStep, PTL DEF Spec

\* However the browser's answer, the webhook's repeated reports and the crons
\* overlap, and wherever a handler dies: an invoice and a payment that says paid
\* stand for a charge, a workspace is open only with an invoice and a subscription
\* or because a payment was waived (a superadmin reactivated or suspended a company
\* that had not paid, or billing is not enforced), and a company is reminded at
\* most once a day.
THEOREM BillingStaysExact ==
    ASSUME Bounds
    PROVE  Spec => []BillingIsExact
<1>1. TypeInv /\ ChargeInv /\ ReminderInv => BillingIsExact
  BY DEF ChargeInv, ReminderInv, BillingIsExact
<1> QED
  BY <1>1, TypeInit, TypeStep, ChargeInit, ChargeStep, ReminderInit, ReminderStep, PTL DEF Spec

=============================================================================
