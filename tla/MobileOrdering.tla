--------------------------- MODULE MobileOrdering ---------------------------
(***************************************************************************)
(* A phone hands over the order it composed: create it, add its lines one  *)
(* by one, open it.  A plan fixes every identity of that, so that an       *)
(* attempt that failed half way can be made again; the server may still    *)
(* execute a call the phone gave up on.  Members with a screen change the  *)
(* order meanwhile, close the shift and edit the menu.                     *)
(*                                                                         *)
(* A plan is a number, and so are an attempt and a line of a plan.  A held *)
(* plan is dropped once sent, and when the draft or its context changes.   *)
(***************************************************************************)
EXTENDS Naturals, Sequences, FiniteSets

CONSTANTS MobileLines,  \* how many lines a plan has
          Plans,        \* bound: the plans a phone makes
          Attempts,     \* bound: the times it hands one over
          MobileVersions  \* bound: the version an order may reach

ASSUME MobileAssumption ==
  {MobileLines, Plans, Attempts, MobileVersions} \subseteq Nat \ {0}

VARIABLES
  orders,    \* the order of each plan as the server has it
  attempts,  \* submitOrderPlan, as many times as it was called
  calls,     \* requests the server has not answered yet
  phone      \* the tracker, the held plan and what the screen says

mobileVars == <<orders, attempts, calls, phone>>

OrderLines == 1 .. MobileLines
NoOrder == [status |-> "none", version |-> 0, added |-> <<>>,
            gone |-> {}, opened |-> 0, writers |-> <<>>]
Members == 0  \* who writes an order and is no attempt
Waiting == [kind |-> "waiting"]

\* A refusal: 409, which the phone reads as a conflict, or any other.  Why a
\* 409 was answered is kept for a property: the phone is not told.
Conflict(why) == [kind |-> "conflict", why |-> why]
Rejected == [kind |-> "rejected"]

\* Statuses past draft, and those list_active_table_orders returns.
AlreadyOpen == {"open", "paid"}
Active == {"draft", "open"}

\* The lines of a plan that are on its order, cancelled ones included.
OnOrder(order) == {order.added[i].line : i \in DOMAIN order.added}

Write(order, by) ==
  [order EXCEPT !.version = @ + 1, !.writers = Append(@, by)]

-----------------------------------------------------------------------------
(* The server. *)

\* The members with a screen: add a line of theirs, cancel one of the plan,
\* open the order, charge it or cancel it.
Staff(p) ==
  LET order == orders[p]
      written == Write(order, Members)
  IN /\ order.status \in Active
     /\ order.version < MobileVersions
     /\ orders' \in {[orders EXCEPT ![p] = o] : o \in
          {written, [written EXCEPT !.status = "cancelled"]}
            \union {[written EXCEPT !.gone = @ \union {l}] :
                      l \in OnOrder(order) \ order.gone}
            \union {[written EXCEPT !.status = s] :
                      s \in IF order.status = "draft" THEN {"open"}
                            ELSE {"paid"}}}
     /\ UNCHANGED <<attempts, calls, phone>>

\* An answer reaches the attempt if it still waits for that call.
Answer(call, reply) ==
  /\ calls' = calls \ {call}
  /\ attempts' = IF attempts[call.attempt].asked = call.id
                 THEN [attempts EXCEPT ![call.attempt].reply = reply]
                 ELSE attempts
  /\ UNCHANGED phone

Summary(version, status, replayed) ==
  [kind |-> "summary", version |-> version, status |-> status,
   replayed |-> replayed]

\* A request goes on from its first look at the database to its transaction.
Checked(call) ==
  /\ calls' = (calls \ {call}) \union {[call EXCEPT !.checked = TRUE]}
  /\ UNCHANGED <<attempts, phone>>

\* The same identity again is answered as it was: a draft of version one.  One
\* not seen yet goes on to look for the open shift.
LookUp(call) ==
  /\ call.step = "create" /\ ~ call.checked
  /\ IF orders[call.plan] = NoOrder THEN Checked(call)
     ELSE Answer(call, Summary(1, "draft", TRUE))
  /\ UNCHANGED orders

\* The order is made if its shift is open, unless another request made it since.
ServeCreate(call) ==
  /\ call.step = "create" /\ call.checked
  /\ \/ Answer(call, Conflict("shift")) /\ UNCHANGED orders
     \/ /\ Answer(call, Summary(1, "draft", orders[call.plan] # NoOrder))
        /\ orders' = IF orders[call.plan] # NoOrder THEN orders
                     ELSE [orders EXCEPT ![call.plan] =
                             Write([NoOrder EXCEPT !.status = "draft"],
                                   call.attempt)]

\* The active orders of the table, as they are now.
ServeRead(call) ==
  LET order == orders[call.plan]
  IN /\ call.step = "read"
     /\ Answer(call,
          IF order.status \in Active
          THEN [kind |-> "order", version |-> order.version,
                status |-> order.status, lines |-> OnOrder(order)]
          ELSE [kind |-> "missing"])
     /\ UNCHANGED orders

\* readExact, the catalog and the domain: the version, then what the menu and
\* the order's status allow.  A size or half that is not sold is a conflict, a
\* product that is not sold is not.
Check(call) ==
  LET order == orders[call.plan]
      add == call.step = "add"
      allowed == IF add THEN /\ order.status \in Active
                             /\ call.line \notin OnOrder(order)
                 ELSE order.status = "draft"
  IN /\ call.step \in {"add", "open"} /\ ~ call.checked
     /\ IF order.version # call.version THEN Answer(call, Conflict("moved"))
        ELSE \/ allowed /\ Checked(call)
             \/ add /\ Answer(call, Conflict("menu"))
             \/ (add \/ ~ allowed) /\ Answer(call, Rejected)
     /\ UNCHANGED orders

\* persist_order_mutation: the same mutation again is answered as it was, unless
\* the menu has changed the line since.
Done(order, call) ==
  IF call.step = "open" THEN order.opened = call.version + 1
  ELSE [line |-> call.line, version |-> call.version + 1]
         \in {order.added[i] : i \in DOMAIN order.added}

Mutated(order, call) ==
  LET written == Write(order, call.attempt)
  IN IF call.step = "open"
     THEN [written EXCEPT !.status = "open", !.opened = written.version]
     ELSE [written EXCEPT !.added =
             Append(@, [line |-> call.line, version |-> written.version])]

Persist(call) ==
  LET order == orders[call.plan]
      status == IF call.step = "open" THEN "open" ELSE call.status
  IN /\ call.step \in {"add", "open"} /\ call.checked
     /\ IF Done(order, call)
        THEN /\ \/ Answer(call, Summary(call.version + 1, status, TRUE))
                \/ call.step = "add" /\ Answer(call, Conflict("moved"))
             /\ UNCHANGED orders
        ELSE IF order.version = call.version
        THEN /\ Answer(call, Summary(call.version + 1, status, FALSE))
             /\ orders' = [orders EXCEPT ![call.plan] = Mutated(order, call)]
        ELSE /\ Answer(call, Conflict("moved"))
             /\ UNCHANGED orders

-----------------------------------------------------------------------------
(* An attempt: submitOrderPlan. *)

\* Ask for the next thing.  An attempt makes one call at a time.
Ask(i, attempt, step, line) ==
  LET id == attempt.asked + 1
  IN /\ attempts' = [attempts EXCEPT ![i] =
          [attempt EXCEPT !.step = step, !.asked = id, !.reply = Waiting]]
     /\ calls' = calls \union
          {[attempt |-> i, id |-> id, plan |-> attempt.plan, step |-> step,
            line |-> line, version |-> attempt.version,
            status |-> attempt.status, checked |-> FALSE]}
     /\ UNCHANGED <<orders, phone>>

\* settle: only the current attempt says how it went.  A plan that was sent is
\* spent.
Settled(screen, i, outcome) ==
  IF screen.current # i THEN screen
  ELSE [screen EXCEPT !.current = 0, !.says = outcome, !.by = i,
                      !.plan = IF outcome = "sent" THEN @ + 1 ELSE @]

Finish(i, attempt, outcome) ==
  /\ attempts' = [attempts EXCEPT ![i] =
       [attempt EXCEPT !.step = outcome, !.asked = @ + 1, !.reply = Waiting]]
  /\ phone' = Settled(phone, i, outcome)
  /\ UNCHANGED <<orders, calls>>

\* Mutant: a line that could not be added does not stop the attempt.
Stops_NotOnLines(attempt) == attempt.step # "add"

\* A step that fails is the end of the attempt.
Stops(attempt) == TRUE

\* The missing line that comes first in the plan.
NextLine(lines) == CHOOSE l \in lines : \A k \in lines : l <= k

\* The next line that is missing, then open unless something opened it.
Onwards(i, attempt) ==
  CASE attempt.todo # {} -> Ask(i, attempt, "add", NextLine(attempt.todo))
    [] attempt.todo = {} /\ attempt.status \notin AlreadyOpen ->
         Ask(i, attempt, "open", 0)
    [] OTHER -> Finish(i, attempt, "sent")

Pending(lines) == OrderLines \ lines

Updated(attempt, reply) ==
  [attempt EXCEPT !.version = reply.version, !.status = reply.status]

\* create answered: go on, or see how far an earlier attempt got.
Created(i) ==
  LET attempt == attempts[i]
      next == Updated(attempt, attempt.reply)
  IN /\ attempt.step = "create" /\ attempt.reply.kind = "summary"
     /\ IF attempt.reply.replayed THEN Ask(i, next, "read", 0)
        ELSE Onwards(i, [next EXCEPT !.todo = Pending({})])

\* The order is not active: done if create said it was open, which it never
\* says.
Unlisted(status) == IF status \in AlreadyOpen THEN "sent" ELSE "conflict"

Resumed(i) ==
  LET attempt == attempts[i]
      reply == attempt.reply
  IN /\ attempt.step = "read" /\ reply.kind \in {"order", "missing"}
     /\ IF reply.kind = "missing"
        THEN Finish(i, [attempt EXCEPT !.why = "moved"],
                    Unlisted(attempt.status))
        ELSE Onwards(i, [Updated(attempt, reply)
                           EXCEPT !.todo = Pending(reply.lines)])

Without(lines) == lines \ {NextLine(lines)}

\* Mutant: the version is the one the attempt began with.
AfterLine_SameVersion(attempt) == [attempt EXCEPT !.todo = Without(@)]

AfterLine(attempt) ==
  [Updated(attempt, attempt.reply) EXCEPT !.todo = Without(@)]

LineAdded(i) ==
  /\ attempts[i].step = "add" /\ attempts[i].reply.kind = "summary"
  /\ Onwards(i, AfterLine(attempts[i]))

Opened(i) ==
  /\ attempts[i].step = "open" /\ attempts[i].reply.kind = "summary"
  /\ Finish(i, attempts[i], "sent")

\* The server refused, or the call or its answer was lost: any 409 is told as a
\* conflict.
Fails(i) ==
  LET attempt == attempts[i]
  IN /\ attempt.step \in {"create", "read", "add", "open"}
     /\ IF ~ Stops(attempt)
        THEN Onwards(i, [attempt EXCEPT !.todo = Without(@)])
        ELSE IF attempt.reply.kind = "conflict"
        THEN Finish(i, [attempt EXCEPT !.why = attempt.reply.why], "conflict")
        ELSE Finish(i, attempt, "unavailable")

-----------------------------------------------------------------------------
(* The phone: the tracker and the held plan. *)

\* Hand the draft over, unless that is under way.
Submit ==
  LET i == Len(attempts) + 1
      start == [plan |-> phone.plan, step |-> "create", version |-> 0,
                status |-> "draft", todo |-> {}, asked |-> 1,
                reply |-> Waiting, why |-> "none"]
  IN /\ phone.current = 0
     /\ i <= Attempts /\ phone.plan <= Plans
     /\ attempts' = Append(attempts, start)
     /\ calls' = calls \union
          {[attempt |-> i, id |-> 1, plan |-> phone.plan, step |-> "create",
            line |-> 0, version |-> 0, status |-> "draft", checked |-> FALSE]}
     /\ phone' = [phone EXCEPT !.current = i, !.says = "sending", !.by = i]
     /\ UNCHANGED orders

\* The draft is edited: the next plan is another.
Edit ==
  /\ phone.current = 0
  /\ phone.says \notin {"none", "sent"}
  /\ phone' = [phone EXCEPT !.plan = @ + 1, !.says = "none", !.by = 0]
  /\ UNCHANGED <<orders, attempts, calls>>

\* The operator, the branch or the shift changes: the attempt under way is
\* abandoned, and so is its plan.
Abandon ==
  /\ phone.current # 0
  /\ phone' = [plan |-> phone.plan + 1, current |-> 0, says |-> "none",
               by |-> 0]
  /\ UNCHANGED <<orders, attempts, calls>>

MobileInit ==
  /\ orders = [p \in 1 .. Plans |-> NoOrder]
  /\ attempts = <<>>
  /\ calls = {}
  /\ phone = [plan |-> 1, current |-> 0, says |-> "none", by |-> 0]

MobileNext ==
  \/ \E p \in 1 .. Plans : Staff(p)
  \/ \E call \in calls :
       \/ LookUp(call) \/ ServeCreate(call) \/ ServeRead(call)
       \/ Check(call) \/ Persist(call)
  \/ \E i \in DOMAIN attempts :
       Created(i) \/ Resumed(i) \/ LineAdded(i) \/ Opened(i) \/ Fails(i)
  \/ Submit \/ Edit \/ Abandon

MobileSpec == MobileInit /\ [][MobileNext]_mobileVars
=============================================================================
