---------------------------- MODULE VersionCache ----------------------------
(***************************************************************************)
(* The memoised version of the installed Claude Code (src/src/cc_version.  *)
(* rs), which every disguised request claims.  `get` looks at the memo     *)
(* under a lock, but runs `claude --version` and stores what it said after *)
(* the lock is released: callers that find the memo expired all run it,    *)
(* and the slowest of them stores last, whatever it saw.                   *)
(*                                                                         *)
(* Time is a step of all clocks together; DetectTime bounds the time from  *)
(* the start of a run to the store of its outcome (the code has no timeout *)
(* here: the bound is an assumption about `claude --version`).             *)
(***************************************************************************)
EXTENDS Naturals

CONSTANTS
  Callers,      \* the requests that ask for the version
  Releases,     \* what `claude --version` may print
  Fallback,     \* FALLBACK_VERSION
  Pinned,       \* the version of VersionStrategy::Static
  Absent,       \* no executable file `claude` in a directory
  Broken,       \* an executable that prints no version
  Ttl,          \* CACHE_TTL
  DetectTime

ASSUME TimesAssumption == Ttl \in Nat \ {0} /\ DetectTime \in Nat
ASSUME NamesAssumption ==
  /\ {Absent, Broken} \cap (Releases \cup {Fallback, Pinned}) = {}
  /\ Absent # Broken
  /\ Fallback # Pinned

VARIABLES
  strategy,     \* VersionStrategy
  binaries,     \* place |-> what the `claude` there would print now
  flaky,        \* a run may still fail although the binary prints a version
  cached,       \* VersionCache.cached: at most one entry
  runs,         \* caller |-> its run of the binary, at most one
  served        \* the last answer anybody got, at most one

memoVars == <<strategy, binaries, flaky, cached, runs, served>>

Answers == Releases \cup {Fallback, Pinned}

\* Nothing below tells older reports apart.
Limit == Ttl + DetectTime

\* Where which_claude_in looks, in this order: the directories of PATH, then those
\* Claude Code installs itself to.
Places == {"path", "fallback"}

\* `age` counts from the store, as the code's Instant does; `reported` from the
\* outcome of the run, which the code does not keep.
Entries == [version : Releases \cup {Fallback}, age : 0..Ttl, reported : 0..Limit]

\* `outcome` is Absent until the binary has printed something or failed;
\* `since` counts from the start of the run.
Runs == [outcome : Releases \cup {Fallback, Absent},
         since : 0..DetectTime, reported : 0..DetectTime]

MemoTypeOK ==
  /\ strategy \in {"detect", "static", "fallback"}
  /\ binaries \in [Places -> Releases \cup {Absent, Broken}]
  /\ flaky \in BOOLEAN
  /\ cached \in SUBSET Entries
  /\ runs \in [Callers -> SUBSET Runs]
  /\ served \in SUBSET [version : Answers, reported : 0..Limit]

MemoInit ==
  /\ strategy \in {"detect", "static", "fallback"}
  /\ binaries \in [Places -> Releases \cup {Absent, Broken}]
  /\ flaky = TRUE
  /\ cached = {}
  /\ runs = [c \in Callers |-> {}]
  /\ served = {}

-----------------------------------------------------------------------------
\* The first executable wins, also one that does not work.
WhichClaude == IF binaries["path"] # Absent THEN binaries["path"] ELSE binaries["fallback"]

\* detect_cc_version's outcome, with the fallback for every failure.
Detected == IF WhichClaude \in Releases THEN WhichClaude ELSE Fallback

\* `t.elapsed() < CACHE_TTL`.
FreshEntries == {e \in cached : e.age < Ttl}

Idle(c) == runs[c] = {}

Answer(version, reported) == served' = {[version |-> version, reported |-> reported]}

\* A pinned version never looks at the memo or the binary.
AskPinned(c) ==
  /\ Idle(c)
  /\ strategy # "detect"
  /\ Answer(IF strategy = "static" THEN Pinned ELSE Fallback, 0)
  /\ UNCHANGED <<strategy, binaries, flaky, cached, runs>>

\* Slip: a hit stamps the entry anew, the way a sliding expiry would.
AskHitSliding(c) ==
  /\ Idle(c)
  /\ strategy = "detect"
  /\ \E e \in FreshEntries :
       /\ Answer(e.version, e.reported)
       /\ cached' = {[e EXCEPT !.age = 0]}
  /\ UNCHANGED <<strategy, binaries, flaky, runs>>

AskHit(c) ==
  /\ Idle(c)
  /\ strategy = "detect"
  /\ \E e \in FreshEntries : Answer(e.version, e.reported)
  /\ UNCHANGED <<strategy, binaries, flaky, cached, runs>>

\* The lock is released before the binary is run: others may miss as well.
AskMiss(c) ==
  /\ Idle(c)
  /\ strategy = "detect"
  /\ FreshEntries = {}
  /\ runs' = [runs EXCEPT ![c] = {[outcome |-> Absent, since |-> 0, reported |-> 0]}]
  /\ UNCHANGED <<strategy, binaries, flaky, cached, served>>

\* The binary prints a version, or the fallback stands in.
Reports(c) ==
  /\ \E r \in runs[c] :
       /\ r.outcome = Absent
       /\ \E v \in {Detected} \cup (IF flaky THEN {Fallback} ELSE {}) :
            runs' = [runs EXCEPT ![c] = {[outcome |-> v, since |-> r.since, reported |-> 0]}]
  /\ UNCHANGED <<strategy, binaries, flaky, cached, served>>

\* Slip: a failure keeps the last known version, with a new stamp.
StoresKnown(c) ==
  /\ \E r \in runs[c] :
       /\ r.outcome # Absent
       /\ cached' = IF r.outcome = Fallback /\ cached # {}
                    THEN {[e EXCEPT !.age = 0] : e \in cached}
                    ELSE {[version |-> r.outcome, age |-> 0, reported |-> r.reported]}
       /\ Answer(r.outcome, r.reported)
  /\ runs' = [runs EXCEPT ![c] = {}]
  /\ UNCHANGED <<strategy, binaries, flaky>>

\* The outcome is stored over whatever the memo holds by now, and returned.
Stores(c) ==
  /\ \E r \in runs[c] :
       /\ r.outcome # Absent
       /\ cached' = {[version |-> r.outcome, age |-> 0, reported |-> r.reported]}
       /\ Answer(r.outcome, r.reported)
  /\ runs' = [runs EXCEPT ![c] = {}]
  /\ UNCHANGED <<strategy, binaries, flaky>>

\* Claude Code is upgraded, downgraded, removed or installed.
Reinstall ==
  /\ \E p \in Places, v \in Releases \cup {Absent, Broken} :
       v # binaries[p] /\ binaries' = [binaries EXCEPT ![p] = v]
  /\ UNCHANGED <<strategy, flaky, cached, runs, served>>

\* From here on a binary that works answers.
Settle ==
  /\ flaky
  /\ flaky' = FALSE
  /\ UNCHANGED <<strategy, binaries, cached, runs, served>>

Older(age, limit) == IF age < limit THEN age + 1 ELSE age

\* A run is over by DetectTime.
Elapse ==
  /\ \A c \in Callers : \A r \in runs[c] : r.since < DetectTime
  /\ cached' = {[e EXCEPT !.age = Older(@, Ttl), !.reported = Older(@, Limit)] : e \in cached}
  /\ runs' = [c \in Callers |->
                {[outcome |-> r.outcome, since |-> r.since + 1, reported |-> r.reported + 1] :
                   r \in runs[c]}]
  /\ UNCHANGED <<strategy, binaries, flaky, served>>

MemoNext ==
  \/ \E c \in Callers :
       AskPinned(c) \/ AskHit(c) \/ AskMiss(c) \/ Reports(c) \/ Stores(c)
  \/ Reinstall
  \/ Settle
  \/ Elapse

MemoSpec == MemoInit /\ [][MemoNext]_memoVars

\* A run ends (DetectTime) and time passes; nobody is bound to ask.
MemoFairSpec == MemoSpec /\ SF_memoVars(Elapse) /\ \A c \in Callers : WF_memoVars(Reports(c) \/ Stores(c))

-----------------------------------------------------------------------------
\* No request claims a version that the binary last reported, or a fallback for
\* a failure it had, more than CACHE_TTL and one run ago: neither hits nor an
\* overtaken run that stores last (lines 60-75) keep an old answer alive.
VersionIsRecent == \A answer \in served : answer.reported < Limit

\* Once an installed version stays and its binary answers, the memo in the end
\* serves no other: an older report or a fallback that a slow run stored over it
\* (line 73) goes with its TTL.
UpgradeIsServed ==
  \A v \in Releases :
    (<>[](WhichClaude = v /\ ~flaky)) => <>[](\A e \in FreshEntries : e.version = v)

=============================================================================
