------------------------- MODULE AcquisitionSession -------------------------
(***************************************************************************)
(* One account's session with the acquisition daemon.  A setup prepares a  *)
(* session, observes it, and finalizes or cancels it; when the user has to *)
(* act first, the setup ends and leaves a resume file, from which a later  *)
(* setup goes on, with the user's confirmation of that action.  A daemon   *)
(* may be gone by then and another one have taken its place, whose session *)
(* ids may be the same.  "setup --cancel-acquisition" takes no lock and    *)
(* runs beside a setup.  How a daemon is found is AcquisitionDaemon; what  *)
(* a session computes is external: here it asks for an action, is blocked  *)
(* or is ready.  A save of the resume file is one step: a load falls back  *)
(* to the backup, so a save cut short has happened or not.                 *)
(***************************************************************************)
EXTENDS Naturals

CONSTANTS
  Scopes,       \* what a setup may ask for
  Resumable,    \* resumableAcquisitionAction: the actions a session waits for
  Others,       \* the other actions it asks for, after which it is over
  MaxDaemons,   \* bound on the daemons that follow one another
  MaxSessions,  \* bound on the sessions of the first daemon; each later one opens one fewer
  MaxFaults     \* bound on crashes, failing saves, lost and wrong replies

VARIABLES
  endpoint,  \* the daemon the endpoint file names: the last that started
  alive,     \* whether that daemon still runs
  sessions,  \* the sessions this daemon opened for the account
  resume,    \* the resume file, as a set of at most one record
  setup,     \* the setup that holds the account lock
  cancel,    \* the cancel command
  meddled,   \* a cancel command ran, or a fault happened, beside this setup
  faults

world == <<endpoint, alive>>
vars == <<endpoint, alive, sessions, resume, setup, cancel, meddled, faults>>

Actions == Resumable \union Others \union {"none"}

Idle == [at |-> "idle"]

Init ==
  /\ endpoint = 0 /\ alive = FALSE
  /\ sessions = {} /\ resume = {}
  /\ setup = Idle /\ cancel = Idle
  /\ meddled = FALSE /\ faults = 0

Fault == faults < MaxFaults /\ faults' = faults + 1

Goto(from, to) == setup.at = from /\ setup' = [setup EXCEPT !.at = to]

\* The setup's process ends and lets go of the account lock.
End == setup' = Idle

----------------------------------------------------------------------------
(* The daemon's side of an exchange: external. *)

\* The session a request with this id reaches: none if the daemon is gone.
Reached(daemon, id) == {x \in sessions : alive /\ daemon = endpoint /\ x.id = id}

Open(X) == {x \in X : x.state = "open"}

\* The session x becomes y.
Becomes(x, y) == sessions' = (sessions \ {x}) \union {y}

EndSessions(X) ==
  sessions' = (sessions \ X) \union {[x EXCEPT !.state = "ended"] : x \in X}

----------------------------------------------------------------------------
(* A setup: acquireViaDaemon. *)

\* ensureAcquisitionDaemon: the daemon that runs, or another one.  The user may
\* confirm an action, or nothing ("unconfirmed").
Connect(scopes, confirm) ==
  /\ setup = Idle
  /\ IF alive
     THEN UNCHANGED <<world, sessions>>
     ELSE endpoint < MaxDaemons /\ endpoint' = endpoint + 1 /\ alive' = TRUE /\ sessions' = {}
  /\ setup' = [at |-> "load", scopes |-> scopes, confirm |-> confirm, daemon |-> endpoint', r |-> {}]
  /\ meddled' = (cancel.at # "idle")
  /\ UNCHANGED <<resume, cancel, faults>>

\* Fault: a resume file is taken whichever daemon opened the session.
ResumableOfAny(r) ==
  /\ r.scopes = setup.scopes
  /\ \A x \in Reached(r.daemon, r.id) : x.state # "expired"

\* sameResumeScope: of this daemon and these scopes, and not expired.
SameResume(r) ==
  /\ r.scopes = setup.scopes /\ r.daemon = setup.daemon
  /\ \A x \in Reached(r.daemon, r.id) : x.state # "expired"

\* A resume file that does not fit is removed; its session is left to expire.
LoadResume ==
  /\ setup.at = "load"
  /\ LET fitting == {r \in resume : SameResume(r)}
     IN  /\ setup' = [setup EXCEPT !.at = IF fitting = {} THEN "prepare" ELSE "decide", !.r = fitting]
         /\ resume' = fitting
  /\ UNCHANGED <<world, sessions, cancel, meddled, faults>>

\* The daemon opens a session under an id it has not used.
Prepare ==
  /\ setup.at = "prepare"
  /\ alive /\ setup.daemon = endpoint
  /\ \E id \in 1..MaxSessions \ {x.id : x \in sessions}, a \in Actions :
       /\ id + endpoint <= MaxSessions + 1
       /\ sessions' = sessions \union
            {[id |-> id, scopes |-> setup.scopes, asked |-> a, state |-> "open"]}
       /\ setup' = [setup EXCEPT !.at = "save",
            !.r = {[daemon |-> endpoint, id |-> id, scopes |-> setup.scopes, next |-> a]}]
  /\ UNCHANGED <<world, resume, cancel, meddled, faults>>

\* The exchange fails, the daemon refuses, or its answer breaks the contract.
PrepareFails ==
  /\ setup.at = "prepare"
  /\ End
  /\ UNCHANGED <<world, sessions, resume, cancel, meddled, faults>>

SaveResume ==
  /\ Goto("save", "decide")
  /\ resume' = setup.r
  /\ UNCHANGED <<world, sessions, cancel, meddled, faults>>

\* Nothing can resume the session now: it is cancelled.
SaveFails ==
  /\ Fault
  /\ setup.at \in {"save", "keep"}
  /\ setup' = [setup EXCEPT !.at = "cancel"]
  /\ meddled' = TRUE
  /\ UNCHANGED <<world, sessions, resume, cancel>>

\* Fault: any resumable confirmation is passed on.
DecideLoosely(r) ==
  /\ setup.confirm # "stop_and_report"
  /\ Goto("decide", "observe")
  /\ UNCHANGED <<world, sessions, resume, cancel, meddled, faults>>

\* The user's confirmation must be of the action the session waits for.
Decide(r) ==
  /\ setup.at = "decide"
  /\ \/ setup.confirm = "stop_and_report" /\ r.next \notin Resumable
        /\ setup' = [setup EXCEPT !.at = "cancel_remove"]
     \/ setup.confirm = "stop_and_report" /\ r.next \in Resumable
        /\ setup' = [setup EXCEPT !.at = "finalize"]
     \/ setup.confirm \in {"unconfirmed"} \union ({r.next} \intersect Resumable)
        /\ setup' = [setup EXCEPT !.at = "observe"]
     \/ /\ setup.confirm \notin {"unconfirmed", "stop_and_report"} \union ({r.next} \intersect Resumable)
        /\ End
  /\ UNCHANGED <<world, sessions, resume, cancel, meddled, faults>>

\* The session does what it can, and answers what it waits for now.
Observe(r) ==
  /\ setup.at = "observe"
  /\ \E x \in Open(Reached(setup.daemon, r.id)) : x.scopes = r.scopes /\ \E a \in Actions :
       /\ Becomes(x, [x EXCEPT !.asked = a])
       /\ setup' = [setup EXCEPT !.at = "observed", !.r = {[r EXCEPT !.next = a]}]
  /\ UNCHANGED <<world, resume, cancel, meddled, faults>>

\* The daemon is gone or does not have the session: nothing is left to resume.
ObserveRefused(r) ==
  /\ setup.at = "observe"
  /\ \A x \in Open(Reached(setup.daemon, r.id)) : x.scopes # r.scopes
  /\ setup' = [setup EXCEPT !.at = "remove"]
  /\ UNCHANGED <<world, sessions, resume, cancel, meddled, faults>>

\* The reply is lost, answers another request, or breaks the contract.
ObserveReplyBad(r) ==
  /\ Fault
  /\ setup.at = "observed"
  /\ \/ setup' = [setup EXCEPT !.at = "remove"]
     \/ End
     \/ setup' = [setup EXCEPT !.at = "cancel_remove"]
  /\ meddled' = TRUE
  /\ UNCHANGED <<world, sessions, resume, cancel>>

\* What the session answered decides how the setup goes on.
Observed(r) ==
  /\ setup.at = "observed"
  /\ \/ r.next \in Resumable /\ Goto("observed", "keep")
     \/ r.next \in Others /\ Goto("observed", "cancel_remove")
     \/ r.next = "none" /\ \/ Goto("observed", "finalize")
                           \/ Goto("observed", "cancel_remove")   \* blocked
  /\ UNCHANGED <<world, sessions, resume, cancel, meddled, faults>>

\* The action is asked of the user, and the next setup goes on from here.
KeepResume(r) ==
  /\ setup.at = "keep"
  /\ resume' = {r}
  /\ End
  /\ UNCHANGED <<world, sessions, cancel, meddled, faults>>

\* The daemon checks the catalog once more, returns the keys and ends the session.
Finalize(r) ==
  /\ Goto("finalize", "remove")
  /\ EndSessions(Open(Reached(setup.daemon, r.id)))
  /\ UNCHANGED <<world, resume, cancel, meddled, faults>>

\* The reply is lost: the resume file is removed and the session cancelled.
FinalizeLost(r) ==
  /\ Fault
  /\ setup.at = "finalize"
  /\ resume' = {}
  /\ setup' = [setup EXCEPT !.at = "cancel"]
  /\ meddled' = TRUE
  /\ UNCHANGED <<world, sessions, cancel>>

\* cancelAcquisitionSession: whether it reaches the daemon is not looked at.
CancelSession(r) ==
  /\ \/ Goto("cancel_remove", "remove")
     \/ setup.at = "cancel" /\ End
  /\ EndSessions(Open(Reached(setup.daemon, r.id)))
  /\ UNCHANGED <<world, resume, cancel, meddled, faults>>

\* Fault: the file is left to the next setup.
LeaveResume ==
  /\ setup.at = "remove"
  /\ End
  /\ UNCHANGED <<world, sessions, resume, cancel, meddled, faults>>

RemoveResume ==
  /\ setup.at = "remove"
  /\ resume' = {}
  /\ End
  /\ UNCHANGED <<world, sessions, cancel, meddled, faults>>

----------------------------------------------------------------------------
(* The cancel command: CancelAcquisition. *)

CancelLoad ==
  /\ cancel.at = "idle" /\ resume # {}
  /\ cancel' = [at |-> "remove", r |-> resume]
  /\ meddled' = TRUE
  /\ UNCHANGED <<world, sessions, resume, setup, faults>>

\* The file goes first, so that nothing resumes a session that is cancelled.
CancelRemove ==
  /\ cancel.at = "remove"
  /\ resume' = {}
  /\ cancel' = [cancel EXCEPT !.at = "send"]
  /\ UNCHANGED <<world, sessions, setup, meddled, faults>>

\* Fault: whatever daemon runs is sent the request.
CancelToAny(r) == TRUE

\* Only the daemon that opened the session is sent the request; whether it still
\* runs is not asked first.
CancelTo(r) == r.daemon = endpoint

CancelSend ==
  /\ cancel.at = "send"
  /\ EndSessions(UNION {Open(Reached(endpoint, r.id)) : r \in {q \in cancel.r : CancelTo(q)}})
  /\ cancel' = Idle
  /\ UNCHANGED <<world, resume, setup, meddled, faults>>

----------------------------------------------------------------------------
(* The daemon and the machine. *)

DaemonEnds ==
  /\ alive
  /\ alive' = FALSE /\ sessions' = {}
  /\ UNCHANGED <<endpoint, resume, setup, cancel, meddled, faults>>

\* A session lasts fifteen minutes; the resume file has the same time.
Expire(x) ==
  /\ x.state = "open"
  /\ Becomes(x, [x EXCEPT !.state = "expired"])
  /\ UNCHANGED <<world, resume, setup, cancel, meddled, faults>>

Crash ==
  /\ Fault
  /\ setup # Idle
  /\ End
  /\ UNCHANGED <<world, sessions, resume, cancel, meddled>>

WithSession(r) ==
  \/ Decide(r) \/ Observe(r) \/ ObserveRefused(r) \/ ObserveReplyBad(r) \/ Observed(r)
  \/ KeepResume(r) \/ Finalize(r) \/ FinalizeLost(r) \/ CancelSession(r)

Next ==
  \/ \E scopes \in Scopes, confirm \in Actions \union {"unconfirmed", "stop_and_report"} :
       Connect(scopes, confirm)
  \/ LoadResume \/ Prepare \/ PrepareFails \/ SaveResume \/ SaveFails \/ RemoveResume
  \/ setup # Idle /\ \E r \in setup.r : WithSession(r)
  \/ CancelLoad \/ CancelRemove \/ CancelSend
  \/ DaemonEnds \/ Crash \/ \E x \in sessions : Expire(x)

Spec == Init /\ [][Next]_vars

----------------------------------------------------------------------------
(* Properties. *)

Sessions == [id : 1..MaxSessions, scopes : Scopes, asked : Actions, state : {"open", "ended", "expired"}]
Resumes == [daemon : 1..MaxDaemons, id : 1..MaxSessions, scopes : Scopes, next : Actions]

\* Every variable holds what it may hold.
TypeOK ==
  /\ endpoint \in 0..MaxDaemons /\ alive \in BOOLEAN
  /\ sessions \subseteq Sessions
  /\ resume \subseteq Resumes /\ \A r, q \in resume : r = q
  /\ setup # Idle => setup.r \subseteq Resumes /\ setup.daemon \in 1..MaxDaemons
  /\ meddled \in BOOLEAN /\ faults \in 0..MaxFaults

\* The sessions that are named, with their daemon, in a request about to be sent.
Named ==
  (IF setup.at \in {"observe", "finalize", "cancel", "cancel_remove"}
   THEN {[to |-> setup.daemon, r |-> r] : r \in setup.r} ELSE {})
  \union
  (IF cancel.at = "send" THEN {[to |-> endpoint, r |-> r] : r \in {q \in cancel.r : CancelTo(q)}} ELSE {})

\* A request that names a session only ever goes to the daemon that opened it,
\* and has the scopes it was opened for: neither a resumed setup nor the cancel
\* command takes the session of a daemon that is gone for one of its successor's
\* (sameResumeScope, CancelAcquisition).
SessionsBound ==
  \A q \in Named :
    /\ q.r.daemon = q.to
    /\ alive /\ q.to = endpoint => \E x \in sessions : x.id = q.r.id /\ x.scopes = q.r.scopes

\* A receipt says that the user did what the session asked for last, whatever
\* the user confirmed on the command line, as long as no reply was lost or
\* taken for another (the comparisons with NextAction in acquireViaDaemon).
ReceiptAsked ==
  setup.at = "observe" /\ setup.confirm # "unconfirmed" /\ faults = 0 =>
    \A r \in setup.r : \A x \in Reached(setup.daemon, r.id) : x.asked = setup.confirm

\* Whether the resume file names a session of the running daemon that has ended.
NamesEnded(file) ==
  \E r \in file : \E x \in Reached(r.daemon, r.id) : x.state = "ended"

\* A setup that ends after it has contacted the session leaves no resume file
\* of an ended session behind, even one a killed setup left to it: the next
\* setup does not run into that error again (removeAcquisitionResume after each
\* exchange of acquireViaDaemon).  A cancel command beside it, or a failing save
\* or reply in it, is the exception.
SettlesResume ==
  setup # Idle /\ setup' = Idle /\ setup.at \in {"keep", "remove", "cancel"}
    /\ ~meddled /\ faults' = faults => ~NamesEnded(resume')
=============================================================================
