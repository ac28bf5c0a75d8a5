------------------------------ MODULE Identity ------------------------------
(***************************************************************************)
(* Who a commit is by: version init with GitHub's device flow              *)
(* (runVersionInit, cmd/deepdiffdb/main.go; internal/version/auth.go) and  *)
(* the part of version commit that chooses the author (runVersionCommit).  *)
(*                                                                         *)
(* Time passes in units of five seconds: the least interval between two    *)
(* requests, and what a slow_down adds to it.  GitHub, the user in the     *)
(* browser and the network answer as they like, within the time-out of a   *)
(* request; a process may be killed at any time.                           *)
(***************************************************************************)
EXTENDS Integers

CONSTANTS
    Procs,      \* processes that run version init, again and again
    Users,      \* GitHub users
    Intervals,  \* bound: the intervals GitHub may ask for at first
    Lifetimes,  \* bound: how long a device code may live
    Timeout     \* http.Client.Timeout of a token request

ASSUME IdentityAssumption ==
    /\ Intervals \subseteq Nat /\ Lifetimes \subseteq Nat
    /\ Timeout \in Nat \ {0}
    /\ {"none", "pending", "denied", "absent", "torn", "flag"} \cap Users = {}

VARIABLES
    pc,         \* "idle", "code", "check", "sleep", "ask", "user", "save", "saving"
    interval,   \* what pollForToken sleeps between two requests
    deadline,   \* the time left until its deadline, not below zero
    due,        \* the time left of the sleep or of the request
    code,       \* on GitHub's side: "none", "pending", "denied", or who granted
    login,      \* the name that GitHub gave for the token
    config,     \* .deepdiffdb/config: "absent", "torn", or the user it names
    authors,    \* of the commits made: a user, or "flag" for the --author flag
    told,       \* history: the interval that GitHub has asked for
    since,      \* history: the time since the last token request
    granted,    \* history: the users who have granted a code
    saved       \* history: an identity has been saved

timing == <<interval, deadline, due, told, since>>
identityVars == <<pc, timing, code, login, config, authors, granted, saved>>

IdentityInit ==
    /\ pc = [p \in Procs |-> "idle"]
    /\ interval = [p \in Procs |-> 0] /\ deadline = [p \in Procs |-> 0]
    /\ due = [p \in Procs |-> 0]
    /\ code = [p \in Procs |-> "none"] /\ login = [p \in Procs |-> "none"]
    /\ config = "absent" /\ authors = {}
    /\ told = [p \in Procs |-> 0] /\ since = [p \in Procs |-> 0]
    /\ granted = {} /\ saved = FALSE

\* The larger one of a least value and another.
AtLeast(least, n) == IF n < least THEN least ELSE n

GoTo(p, from, to) == pc[p] = from /\ pc' = [pc EXCEPT ![p] = to]

----------------------------------------------------------------------------
(* version init. *)

\* The user wants to authenticate, and a client id is configured.
StartInit(p) ==
    /\ GoTo(p, "idle", "code")
    /\ UNCHANGED <<timing, code, login, config, authors, granted, saved>>

RequestDeviceCode(p) ==
    /\ GoTo(p, "code", "check")
    /\ \E i \in Intervals, life \in Lifetimes :
           /\ told' = [told EXCEPT ![p] = i]
           /\ interval' = [interval EXCEPT ![p] = AtLeast(1, i)]
           /\ deadline' = [deadline EXCEPT ![p] = life]
    /\ code' = [code EXCEPT ![p] = "pending"]
    /\ since' = [since EXCEPT ![p] = 0]
    /\ UNCHANGED <<due, login, config, authors, granted, saved>>

\* Mutant of Sleep: the deadline is not looked at.
MutSleep(p) ==
    /\ GoTo(p, "check", "sleep")
    /\ due' = [due EXCEPT ![p] = interval[p]]
    /\ UNCHANGED <<interval, deadline, told, since, code, login, config,
                   authors, granted, saved>>

\* pollForToken: the loop's condition, then time.Sleep.
Sleep(p) ==
    /\ GoTo(p, "check", "sleep")
    /\ deadline[p] > 0
    /\ due' = [due EXCEPT ![p] = interval[p]]
    /\ UNCHANGED <<interval, deadline, told, since, code, login, config,
                   authors, granted, saved>>

\* The process returns, and its variables are gone; so is its device code.
Return(p, from) ==
    LET Reset(f, value) == [f EXCEPT ![p] = value]
    IN  /\ GoTo(p, from, "idle")
        /\ interval' = Reset(interval, 0) /\ deadline' = Reset(deadline, 0)
        /\ due' = Reset(due, 0) /\ told' = Reset(told, 0) /\ since' = Reset(since, 0)
        /\ code' = Reset(code, "none") /\ login' = Reset(login, "none")

\* Any error ends the command, with what is on disk left alone.
Fails(p, from) ==
    /\ Return(p, from)
    /\ UNCHANGED <<config, authors, granted, saved>>

TimedOut(p) == deadline[p] = 0 /\ Fails(p, "check")

Ask(p) ==
    /\ GoTo(p, "sleep", "ask")
    /\ due[p] = 0
    /\ due' = [due EXCEPT ![p] = Timeout]
    /\ UNCHANGED <<interval, deadline, told, since, code, login, config,
                   authors, granted, saved>>

\* An answer with neither an error nor a token is like authorization_pending.
Pending(p) ==
    /\ GoTo(p, "ask", "check")
    /\ since' = [since EXCEPT ![p] = 0]
    /\ UNCHANGED <<interval, deadline, due, told, code, login, config,
                   authors, granted, saved>>

\* Mutant of SlowDown: it is taken for authorization_pending.
MutSlowDown(p) ==
    /\ GoTo(p, "ask", "check")
    /\ told' = [told EXCEPT ![p] = @ + 1]
    /\ since' = [since EXCEPT ![p] = 0]
    /\ UNCHANGED <<interval, deadline, due, code, login, config, authors,
                   granted, saved>>

SlowDown(p) ==
    /\ GoTo(p, "ask", "check")
    /\ told' = [told EXCEPT ![p] = @ + 1]
    /\ interval' = [interval EXCEPT ![p] = @ + 1]
    /\ since' = [since EXCEPT ![p] = 0]
    /\ UNCHANGED <<deadline, due, code, login, config, authors, granted, saved>>

Token(p) ==
    /\ GoTo(p, "ask", "user")
    /\ code[p] \in Users
    /\ UNCHANGED <<timing, code, login, config, authors, granted, saved>>

\* Expired, denied, another error, an answer that is not JSON, or none in time.
Refused(p) == Fails(p, "ask")

ResolveGitHubUsername(p) ==
    /\ GoTo(p, "user", "save")
    /\ login' = [login EXCEPT ![p] = code[p]]
    /\ UNCHANGED <<timing, code, config, authors, granted, saved>>

\* SaveIdentity: os.WriteFile truncates the file, then writes it.
Truncate(p) ==
    /\ GoTo(p, "save", "saving")
    /\ config' = "torn"
    /\ UNCHANGED <<timing, code, login, authors, granted, saved>>

SaveIdentity(p) ==
    /\ Return(p, "saving")
    /\ config' = login[p]
    /\ saved' = TRUE
    /\ UNCHANGED <<authors, granted>>

RequestFails(p) == \E from \in {"code", "user", "save", "saving"} : Fails(p, from)

----------------------------------------------------------------------------
(* version commit. *)

\* Mutant of LoadIdentity: a file that cannot be parsed counts as none.
MutLoadIdentity == IF config = "torn" THEN "absent" ELSE config

\* "absent" is no error; "torn" is one.
LoadIdentity == config

\* Another process: the identity goes before the flag; without both, or on an
\* error, there is no commit.
Commit ==
    /\ \/ /\ LoadIdentity \in Users
          /\ authors' = authors \cup {[by |-> LoadIdentity, after |-> saved]}
       \/ /\ LoadIdentity = "absent"
          /\ authors' = authors \cup {[by |-> "flag", after |-> saved]}
    /\ UNCHANGED <<pc, timing, code, login, config, granted, saved>>

----------------------------------------------------------------------------
(* The surroundings and the specification. *)

Kill(p) == pc[p] # "idle" /\ Fails(p, pc[p])

\* The user enters the code in the browser.
Decide(p) ==
    /\ code[p] = "pending"
    /\ \E decision \in Users \cup {"denied"} :
           /\ code' = [code EXCEPT ![p] = decision]
           /\ granted' = granted \cup ({decision} \cap Users)
    /\ UNCHANGED <<pc, timing, login, config, authors, saved>>

\* A sleep ends on time and a request at its time-out.
Tick ==
    /\ \E p \in Procs : pc[p] \in {"sleep", "ask"}
    /\ \A p \in Procs : pc[p] \in {"sleep", "ask"} => due[p] > 0
    /\ LET Less(f, stages) ==
               [p \in Procs |-> IF pc[p] \in stages THEN AtLeast(0, f[p] - 1) ELSE f[p]]
       IN  /\ due' = Less(due, {"sleep", "ask"})
           /\ deadline' = Less(deadline, {"check", "sleep", "ask"})
    /\ since' = [p \in Procs |-> IF pc[p] \in {"sleep", "ask"} THEN since[p] + 1 ELSE since[p]]
    /\ UNCHANGED <<pc, interval, told, code, login, config, authors, granted, saved>>

Poll(p) ==
    \/ Sleep(p) \/ TimedOut(p) \/ Ask(p)
    \/ Pending(p) \/ SlowDown(p) \/ Token(p) \/ Refused(p)

InitStep(p) ==
    \/ RequestDeviceCode(p) \/ Poll(p)
    \/ ResolveGitHubUsername(p) \/ Truncate(p) \/ SaveIdentity(p)
    \/ RequestFails(p)

IdentityNext ==
    \/ \E p \in Procs : StartInit(p) \/ InitStep(p) \/ Kill(p) \/ Decide(p)
    \/ Commit \/ Tick

\* A process goes on, and time passes.  Nobody has to answer well.
IdentitySpec ==
    /\ IdentityInit /\ [][IdentityNext]_identityVars
    /\ \A p \in Procs : WF_identityVars(InitStep(p))
    /\ WF_identityVars(Tick)

----------------------------------------------------------------------------
(* Properties. *)

\* GitHub is never asked again sooner than it wants to be: not within five
\* seconds, not within the interval it named, and later by five seconds for
\* each slow_down it has answered.  (requestDeviceCode, pollForToken.)
AskedAsTold ==
    \A p \in Procs : pc[p] = "ask" =>
        since[p] >= AtLeast(1, told[p])

\* A commit signed github:<user> is by a user who has granted a device code,
\* and once an identity was saved no commit is made under another name, even
\* when a kill leaves the file torn.  (SaveIdentity, LoadIdentity,
\* runVersionCommit.)
AuthorsVerified ==
    \A a \in authors :
        IF a.by = "flag" THEN ~ a.after ELSE a.by \in granted

\* Whatever GitHub answers and however often it says slow_down, version init
\* comes to its end: the deadline passes.  (pollForToken.)
InitReturns == \A p \in Procs : pc[p] # "idle" ~> pc[p] = "idle"
=============================================================================
