------------------------------- MODULE Reload -------------------------------
(***************************************************************************)
(* Hot reload (cmd/server/main.go): the SIGHUP goroutine and any number of *)
(* POST /v1/admin/reload handlers call the closure reload at once, without *)
(* a lock.  Each tests its context, reads the rule file, builds the rules, *)
(* which reads the keyword files they name, tests the context again and    *)
(* stores the engine.  The operator edits the files at any time.           *)
(*                                                                         *)
(* Contents are edit numbers: 0 is what the first load found, and a        *)
(* greater number is a newer content.  What the loader rejects is a set.   *)
(***************************************************************************)
EXTENDS Naturals

CONSTANTS HttpReloads,   \* requests to POST /v1/admin/reload
          Hup,           \* the SIGHUP goroutine
          BadRules,      \* contents of the rule file that LoadBytes rejects
          BadKeywords,   \* contents of the keyword file that cannot be read
          MaxEdits       \* bound on the edits of each file

ASSUME ReloadAssumption ==
  /\ Hup \notin HttpReloads
  /\ MaxEdits \in Nat
  /\ 0 \notin BadRules /\ 0 \notin BadKeywords

Reloaders == HttpReloads \cup {Hup}
Contents == [rules : 0..MaxEdits, keywords : 0..MaxEdits]
First == [rules |-> 0, keywords |-> 0]

(* rules_version hashes the rule file alone.                               *)
Version(snapshot) == snapshot.rules

VARIABLES
  disk,        \* the files
  holder,      \* engineHolder.current: the contents its engine was built from
  served,      \* every snapshot that was ever current
  pc,          \* where each reload is
  seen,        \* what it has read
  ctxDone,     \* its context is done: client gone, or the 5 s are over
  answer,      \* the HTTP answers
  pending,     \* a signal is in the channel hup, whose capacity is one
  stopping,    \* the server's context is done
  start,       \* disk when the reload began
  overlapped,  \* another reload was under way at some time since then
  signalled,   \* disk.rules when SIGHUP was last sent
  logged       \* start of the last "rules reload failed" of a signal

vars == <<disk, holder, served, pc, seen, ctxDone, answer, pending, stopping, start,
          overlapped, signalled, logged>>
envVars == <<disk, pending, stopping, signalled>>

Init ==
  /\ disk = First
  /\ holder = First
  /\ served = {First}
  /\ pc = [r \in Reloaders |-> "idle"]
  /\ seen = [r \in Reloaders |-> First]
  /\ ctxDone = [r \in Reloaders |-> FALSE]
  /\ answer = [r \in HttpReloads |-> "none"]
  /\ pending = FALSE
  /\ stopping = FALSE
  /\ start = [r \in Reloaders |-> First]
  /\ overlapped = [r \in Reloaders |-> FALSE]
  /\ signalled = 0
  /\ logged = 0

Active(r) == pc[r] \in {"begin", "rules", "keywords", "store"}
----------------------------------------------------------------------------
(* reload(ctx) is called.                                                  *)
Begin(r) ==
  /\ pc' = [pc EXCEPT ![r] = "begin"]
  /\ start' = [start EXCEPT ![r] = disk]
  /\ overlapped' = [q \in Reloaders |->
       IF q = r THEN \E o \in Reloaders : Active(o)
       ELSE overlapped[q] \/ Active(q)]
  /\ UNCHANGED <<disk, holder, served, seen, answer, stopping, signalled, logged>>

(* The handler of POST /v1/admin/reload; each request comes once.          *)
Request(r) ==
  /\ r \in HttpReloads
  /\ pc[r] = "idle" /\ answer[r] = "none"
  /\ Begin(r)
  /\ UNCHANGED <<ctxDone, pending>>

(* The SIGHUP goroutine receives; its context is a child of the server's.  *)
Receive ==
  /\ pc[Hup] = "idle" /\ pending
  /\ pending' = FALSE
  /\ ctxDone' = [ctxDone EXCEPT ![Hup] = stopping]
  /\ Begin(Hup)

(* The other case of its select.                                           *)
Leave ==
  /\ pc[Hup] = "idle" /\ stopping
  /\ pc' = [pc EXCEPT ![Hup] = "gone"]
  /\ UNCHANGED <<disk, holder, served, seen, ctxDone, answer, pending, stopping, start,
                 overlapped, signalled, logged>>

(* reload returns: 200 or 500, or a line in the log when it failed.        *)
Return(r, outcome) ==
  /\ pc' = [pc EXCEPT ![r] = "idle"]
  /\ answer' = IF r = Hup THEN answer ELSE [answer EXCEPT ![r] = outcome]
  /\ logged' = IF r = Hup /\ outcome = "error" THEN start[Hup].rules ELSE logged

Fails(r) == Return(r, "error") /\ UNCHANGED <<holder, served, seen>>

Proceed(r, next) ==
  /\ pc' = [pc EXCEPT ![r] = next]
  /\ UNCHANGED <<holder, served, answer, logged>>

(* The first test of ctx.Err().                                            *)
TestContext(r) ==
  /\ pc[r] = "begin"
  /\ IF ctxDone[r] THEN Fails(r) ELSE Proceed(r, "rules") /\ UNCHANGED seen

(* The file is read, and an error of the loader passed over.               *)
ReadRules_IgnoresError(r) ==
  /\ pc[r] = "rules"
  /\ Proceed(r, "keywords") /\ seen' = [seen EXCEPT ![r].rules = disk.rules]

(* The rules are those of the last load.                                   *)
ReadRules_Cached(r) ==
  /\ pc[r] = "rules"
  /\ Proceed(r, "keywords") /\ seen' = [seen EXCEPT ![r].rules = holder.rules]

(* LoadFile reads the rule file, and LoadBytes checks it.                  *)
ReadRules(r) ==
  /\ pc[r] = "rules"
  /\ IF disk.rules \in BadRules THEN Fails(r)
     ELSE Proceed(r, "keywords") /\ seen' = [seen EXCEPT ![r].rules = disk.rules]

(* buildRule reads the keyword file.                                       *)
ReadKeywords(r) ==
  /\ pc[r] = "keywords"
  /\ IF disk.keywords \in BadKeywords THEN Fails(r)
     ELSE Proceed(r, "store") /\ seen' = [seen EXCEPT ![r].keywords = disk.keywords]

(* The second test of ctx.Err(), and holder.Store.                         *)
Store(r) ==
  /\ pc[r] = "store"
  /\ IF ctxDone[r] THEN Fails(r)
     ELSE /\ holder' = seen[r]
          /\ served' = served \cup {seen[r]}
          /\ Return(r, "ok")
          /\ UNCHANGED seen

Step(r) ==
  /\ TestContext(r) \/ ReadRules(r) \/ ReadKeywords(r) \/ Store(r)
  /\ UNCHANGED <<ctxDone, start, overlapped, envVars>>
----------------------------------------------------------------------------
(* The client goes away, or the 5 seconds pass.                            *)
EndContext(r) ==
  /\ Active(r) /\ ~ctxDone[r]
  /\ ctxDone' = [ctxDone EXCEPT ![r] = TRUE]
  /\ UNCHANGED <<disk, holder, served, pc, seen, answer, pending, stopping, start,
                 overlapped, signalled, logged>>

Edit(file) ==
  /\ disk[file] < MaxEdits
  /\ disk' = [disk EXCEPT ![file] = @ + 1]
  /\ UNCHANGED <<holder, served, pc, seen, ctxDone, answer, pending, stopping, start,
                 overlapped, signalled, logged>>

(* A channel without a buffer: a signal is lost unless it is waited for.   *)
Signal_Unbuffered ==
  /\ pending' = (pending \/ pc[Hup] = "idle")
  /\ signalled' = disk.rules
  /\ UNCHANGED <<disk, holder, served, pc, seen, ctxDone, answer, stopping, start,
                 overlapped, logged>>

(* signal.Notify does not wait for room: two signals may become one.       *)
Signal ==
  /\ pending' = TRUE
  /\ signalled' = disk.rules
  /\ UNCHANGED <<disk, holder, served, pc, seen, ctxDone, answer, stopping, start,
                 overlapped, logged>>

(* SIGINT, SIGTERM or a failed server; a signal's reload is told.          *)
Stop ==
  /\ ~stopping
  /\ stopping' = TRUE
  /\ ctxDone' = [ctxDone EXCEPT ![Hup] = @ \/ Active(Hup)]
  /\ UNCHANGED <<disk, holder, served, pc, seen, answer, pending, start, overlapped,
                 signalled, logged>>

Next ==
  \/ \E r \in Reloaders : Request(r) \/ Step(r) \/ EndContext(r)
  \/ Receive \/ Leave
  \/ \E file \in {"rules", "keywords"} : Edit(file)
  \/ Signal \/ Stop

Spec == Init /\ [][Next]_vars

(* The scheduler runs the SIGHUP goroutine.                                *)
FairSpec == Spec /\ WF_vars(Receive \/ Leave \/ Step(Hup))
----------------------------------------------------------------------------
Newer(new, old) == new.rules >= old.rules /\ new.keywords >= old.keywords

(* Every variable has its type, and whatever fails, the current engine was *)
(* built from files that load.                                             *)
TypeOK ==
  /\ disk \in Contents
  /\ holder \in Contents /\ holder.rules \notin BadRules /\ holder.keywords \notin BadKeywords
  /\ served \subseteq Contents
  /\ pc \in [Reloaders -> {"idle", "begin", "rules", "keywords", "store", "gone"}]
  /\ seen \in [Reloaders -> Contents]
  /\ ctxDone \in [Reloaders -> BOOLEAN]
  /\ answer \in [HttpReloads -> {"none", "ok", "error"}]
  /\ pending \in BOOLEAN /\ stopping \in BOOLEAN
  /\ start \in [Reloaders -> Contents]
  /\ overlapped \in [Reloaders -> BOOLEAN]
  /\ signalled \in 0..MaxEdits /\ logged \in 0..MaxEdits

(* A reload that no other reload overlapped never takes the service back   *)
(* to older files, and puts in what was on disk when it was asked for.     *)
NoRollback ==
  [][\A r \in Reloaders :
       pc[r] = "store" /\ holder' # holder /\ pc'[r] = "idle" /\ ~overlapped[r] =>
         Newer(holder', holder) /\ Newer(holder', start[r])]_vars

(* A signal is never lost, however it falls into a reload under way: the   *)
(* rules on disk when it was sent, or newer ones, come into use, or an     *)
(* error about them is logged, unless the server stops.                    *)
SignalServed ==
  \A v \in 1..MaxEdits :
    signalled >= v ~> ((\E s \in served : s.rules >= v) \/ logged >= v \/ stopping)

(* What POST /v1/admin/reload answered "reloaded" for is in use.           *)
ReloadedIsCurrent ==
  \A r \in HttpReloads : answer[r] = "ok" => Newer(holder, start[r])

(* A rules version stands for one set of rules in use.                     *)
VersionIdentifies ==
  \A s, t \in served : Version(s) = Version(t) => s = t
=============================================================================
