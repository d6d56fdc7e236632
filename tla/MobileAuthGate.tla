--------------------------- MODULE MobileAuthGate ---------------------------
(***************************************************************************)
(* The gate between a phone and its identity provider.  A session ends on  *)
(* the phone at once, while the provider still works: a session being read *)
(* or renewed, a sign-in or a sign-out under way.  Every sign-in opens a   *)
(* generation, every end closes one, and what was asked in a generation is *)
(* believed in that one only.                                              *)
(*                                                                         *)
(* React has run the effects of an event before the next one comes.        *)
(***************************************************************************)
EXTENDS Naturals, FiniteSets

CONSTANTS Operators, NoOne,
          Generations  \* bound: the generations of the gate

ASSUME GateAssumption ==
  /\ NoOne \notin Operators
  /\ Generations \in Nat

VARIABLES
  gate,      \* the generation, and whether it is open
  provider,  \* whose session it holds, its renewal and its sign-outs
  signIns,   \* sign-ins the provider has not answered
  app,       \* the screen, and the sessions it is reading
  admitted,  \* whose sign-in was announced in this generation
  revived    \* a renewal once brought back an operator who was not there

gateVars == <<gate, provider, signIns, app, admitted, revived>>

NoRead == [step |-> "none", bound |-> 0, who |-> NoOne]

-----------------------------------------------------------------------------
(* The gate. *)

MayTurn == gate.generation < Generations

Turn(open) ==
  /\ MayTurn
  /\ gate' = [generation |-> gate.generation + 1, open |-> open]
  /\ admitted' = {}

\* closeGeneration, and the first half of signOut.
Close == IF gate.open THEN Turn(FALSE) ELSE UNCHANGED <<gate, admitted>>

\* Mutant: an open gate believes every read.
Believed_Open(read) == IF gate.open THEN read.who ELSE NoOne

\* currentSession: an answer for an earlier generation is nobody.
Believed(read) ==
  IF read.bound = gate.generation /\ gate.open THEN read.who ELSE NoOne

\* closeUnused: only if nothing else moved the generation.
Unused(bound) == bound = gate.generation

-----------------------------------------------------------------------------
(* The screen: mobile-state.ts. *)

\* A blank screen, with the sign-in form it had only if it still shows one.
Blank(who) ==
  [app EXCEPT !.who = who, !.started = TRUE, !.check = NoRead,
              !.form = IF who = NoOne THEN @ ELSE 0]

\* sessionObserved: the operator in place keeps what is on screen.
Observed(who) == IF app.who = who THEN [app EXCEPT !.started = TRUE]
                 ELSE Blank(who)

\* endSession: the gate closes before the provider is asked.
EndSession(screen) ==
  /\ app' = screen
  /\ Close
  /\ provider' = [provider EXCEPT !.leaving = TRUE]
  /\ UNCHANGED <<signIns, revived>>

SignOut ==
  /\ app.who # NoOne
  /\ EndSession(Blank(NoOne))

\* submit, on the form of a phone nobody is signed in on.
SignIn(who) ==
  /\ app.started /\ app.who = NoOne /\ app.form = 0
  /\ Turn(TRUE)
  /\ signIns' = signIns \union {[bound |-> gate.generation + 1, who |-> who]}
  /\ app' = [app EXCEPT !.form = gate.generation + 1]
  /\ UNCHANGED <<provider, revived>>

\* The provider reads the session it holds, and later the gate answers.
ReadBy(step, read) ==
  /\ read.step = step
  /\ UNCHANGED <<gate, signIns, admitted, revived>>

StartUpReads ==
  /\ ReadBy("asked", app.startUp)
  /\ app' = [app EXCEPT !.startUp.step = "read", !.startUp.who = provider.holds]
  /\ UNCHANGED provider

\* sessionRestored.
StartUpAnswered ==
  /\ ReadBy("read", app.startUp)
  /\ app' = [Blank(Believed(app.startUp)) EXCEPT !.startUp = NoRead]
  /\ UNCHANGED provider

\* revalidationStarted: one at a time, on every return to the foreground.
Revalidate ==
  /\ app.who # NoOne
  /\ ReadBy("none", app.check)
  /\ app' = [app EXCEPT !.check =
       [step |-> "asked", bound |-> gate.generation, who |-> NoOne]]
  /\ UNCHANGED provider

CheckReads ==
  /\ ReadBy("asked", app.check)
  /\ app' = [app EXCEPT !.check.step = "read", !.check.who = provider.holds]
  /\ UNCHANGED provider

\* A phone that cannot prove who it is signs out; a branch is asked about.
CheckAnswered ==
  LET who == Believed(app.check)
  IN /\ app.check.step = "read"
     /\ \/ who = NoOne /\ EndSession(Blank(NoOne))
        \/ /\ who # NoOne
           /\ app' = [app EXCEPT !.check.step = "branch"]
           /\ UNCHANGED <<gate, provider, signIns, admitted, revived>>

\* The branch is confirmed or not, and the session that asked is observed.
CheckEnds ==
  /\ app.check.step = "branch"
  /\ app' = [Observed(app.check.who) EXCEPT !.check = NoRead]
  /\ UNCHANGED <<gate, provider, signIns, admitted, revived>>

\* The session could not be read at all.
CheckFails ==
  /\ app.check.step \in {"asked", "read"}
  /\ EndSession(Blank(NoOne))

-----------------------------------------------------------------------------
(* The provider. *)

\* The listener is the generation's own; a closed gate lets no session in.
Delivered == gate.open

\* It announces a session, to the listener there is now.
Announce(who, screen) ==
  /\ app' = IF Delivered THEN Observed(who) ELSE screen
  /\ UNCHANGED gate

\* The form that asked is busy no more, unless it is gone.
Idle(bound) == [app EXCEPT !.form = IF @ = bound THEN 0 ELSE @]

SignedIn(attempt) ==
  /\ signIns' = signIns \ {attempt}
  /\ provider' = [provider EXCEPT !.holds = attempt.who]
  /\ Announce(attempt.who, Idle(attempt.bound))
  /\ admitted' = IF gate.open THEN admitted \union {attempt.who} ELSE admitted
  /\ UNCHANGED revived

\* It refuses, fails or throws.
SignInFails(attempt) ==
  /\ signIns' = signIns \ {attempt}
  /\ app' = Idle(attempt.bound)
  /\ IF Unused(attempt.bound) THEN Turn(FALSE)
     ELSE UNCHANGED <<gate, admitted>>
  /\ UNCHANGED <<provider, revived>>

\* The token of the session it holds is renewed, whatever happens meanwhile.
StartRenewal ==
  /\ provider.holds # NoOne /\ provider.renewing = NoOne
  /\ provider' = [provider EXCEPT !.renewing = provider.holds]
  /\ UNCHANGED <<gate, signIns, app, admitted, revived>>

Renewed ==
  /\ provider.renewing # NoOne
  /\ provider' = [provider EXCEPT !.holds = provider.renewing,
                                  !.renewing = NoOne]
  /\ Announce(provider.renewing, app)
  /\ revived' = (revived \/ (gate.open /\ app.who # provider.renewing))
  /\ UNCHANGED <<signIns, admitted>>

RenewalFails ==
  /\ provider.renewing # NoOne
  /\ provider' = [provider EXCEPT !.renewing = NoOne]
  /\ UNCHANGED <<gate, signIns, app, admitted, revived>>

\* The end of a session is always believed, and so is that there is none to
\* begin with.
SessionEnds ==
  /\ provider.leaving \/ provider.holds # NoOne \/ ~ app.started
  /\ provider' = [provider EXCEPT !.holds = NoOne, !.leaving = FALSE]
  /\ app' = Blank(NoOne)
  /\ IF app.who # NoOne THEN Close ELSE UNCHANGED <<gate, admitted>>
  /\ UNCHANGED <<signIns, revived>>

\* A sign-out the provider never executes.
SignOutLost ==
  /\ provider.leaving
  /\ provider' = [provider EXCEPT !.leaving = FALSE]
  /\ UNCHANGED <<gate, signIns, app, admitted, revived>>

-----------------------------------------------------------------------------
GateInit ==
  /\ gate = [generation |-> 0, open |-> TRUE]
  /\ provider = [holds |-> NoOne, renewing |-> NoOne, leaving |-> FALSE]
  /\ signIns = {}
  /\ app = [who |-> NoOne, started |-> FALSE, form |-> 0,
            check |-> NoRead, startUp |-> [NoRead EXCEPT !.step = "asked"]]
  /\ admitted = {}
  /\ revived = FALSE

GateNext ==
  \/ \E who \in Operators : SignIn(who)
  \/ SignOut
  \/ StartUpReads \/ StartUpAnswered
  \/ Revalidate \/ CheckReads \/ CheckAnswered \/ CheckEnds \/ CheckFails
  \/ \E attempt \in signIns : SignedIn(attempt) \/ SignInFails(attempt)
  \/ StartRenewal \/ Renewed \/ RenewalFails
  \/ SessionEnds \/ SignOutLost

GateSpec == GateInit /\ [][GateNext]_gateVars
=============================================================================
