---------------------------- MODULE CodexRefresh ----------------------------
(***************************************************************************)
(* The Codex credential in ~/.codex/auth.json: how a 401 leads to one      *)
(* redemption of the rotating refresh token, and how the new pair reaches  *)
(* the file (`refreshed_access_token`, `persist_rotation`, TempFileGuard   *)
(* in src/codex.rs, and the 401 arm of `forward` in src/lib.rs).           *)
(*                                                                         *)
(* Tokens are numbered by the grant that minted them.  The gateway or the  *)
(* machine may go down between any two steps, the answer to a grant may be *)
(* lost, every file operation may fail, and Codex CLI refreshes and logs   *)
(* in on its own.  The lock is tokio's, and from its acquisition to its    *)
(* release there is no await: a client that leaves cannot interrupt its    *)
(* holder, only a crash can.  A request is a slot: when it ends another    *)
(* takes its place.                                                        *)
(*                                                                         *)
(* A definition introduced by "Slip" is not the code: it is the definition *)
(* after it with a plausible mistake, kept to see the properties fail.     *)
(***************************************************************************)
EXTENDS Integers

CONSTANTS
  Requests,   \* requests the gateway attaches the stored OAuth token to
  Pids,       \* process ids a gateway may run under
  Nobody,     \* the lock is free
  Nothing,    \* no memoised token, no temp file, no rotated refresh token
  Torn,       \* auth.json without usable content
  MaxGrant,   \* bound on the grants and logins
  MaxCrash    \* bound on the crashes

ASSUME BoundAssumption == MaxGrant \in Nat /\ MaxCrash \in Nat
ASSUME RequestAssumption == Nobody \notin Requests

Grants == 0 .. MaxGrant
Pairs == [at : Grants, rt : Grants]
Memos == [tok : Grants, fresh : BOOLEAN]
Names == [pid : Pids, attempt : Nat]

ASSUME TornAssumption == Torn \notin Pairs
ASSUME NothingAssumption == Nothing \notin Memos \cup Grants \cup {"partial", "written", "synced"}

VARIABLES
  file,       \* auth.json: [at, rt], the grants its two tokens come from
  older,      \* what a power loss may leave as auth.json in its place
  valid,      \* the refresh tokens the authority honours
  minted,     \* grants so far
  memo,       \* REFRESHED: [tok, fresh], or Nothing
  holder,     \* the holder of REFRESHED's lock
  pc,         \* pc[r]: where r is
  token,      \* token[r]: the access token r was sent with
  retry,      \* retry[r]: the one it was sent with again, 0 when idle
  rt,         \* rt[r]: the refresh token r read
  new,        \* new[r]: the tokens granted to r
  doc,        \* doc[r]: the document r is about to replace
  pid,        \* std::process::id()
  attempt,    \* ATTEMPT
  temp,       \* the temp file being written: "partial", "written", "synced"
  leftovers,  \* names of the temp files that crashed processes left behind
  cli,        \* what Codex CLI is doing: [doing, pair]
  crashes,    \* crashes so far
  burst,      \* history: grants since the memoised token last lapsed
  spent,      \* history: refresh tokens the gateway redeemed and had rotated
  lost        \* history: a rotated pair never reached the file, was
              \* overwritten there, or went from it with a power loss that
              \* undid its rename, and no login or refresh of the CLI followed

authority == <<valid, minted>>
flight == <<pc, token, retry>>
locals == <<rt, new, doc>>
disk == <<file, older>>
temps == <<pid, attempt, temp, leftovers>>
history == <<burst, spent, lost>>
vars == <<authority, memo, holder, flight, locals, disk, temps, cli, crashes, history>>

\* Inside persist_rotation.
Persisting == {"rereading", "creating", "writing", "syncing", "renaming"}

\* Between taking the lock and releasing it.
Refreshing == {"reading", "redeeming"} \cup Persisting

Blank == [at |-> 0, rt |-> 0]

TypeOK ==
  /\ file \in Pairs \cup {Torn} /\ older \subseteq Pairs \cup {Torn}
  /\ valid \subseteq Grants /\ minted \in Grants
  /\ memo \in Memos \cup {Nothing}
  /\ holder \in Requests \cup {Nobody}
  /\ pc \in [Requests -> {"idle", "sent", "waiting", "retrying"} \cup Refreshing]
  /\ token \in [Requests -> Grants]
  /\ retry \in [Requests -> Grants]
  /\ rt \in [Requests -> Grants]
  /\ new \in [Requests -> [at : Grants, rt : Grants \cup {Nothing}]]
  /\ doc \in [Requests -> Pairs]
  /\ pid \in Pids /\ attempt \in Nat
  /\ temp \in {Nothing, "partial", "written", "synced"}
  /\ leftovers \subseteq Names
  /\ cli \in [doing : {"nothing", "redeeming", "writing"}, pair : Pairs]
  /\ crashes \in 0 .. MaxCrash
  /\ burst \in Nat /\ spent \subseteq Grants /\ lost \in BOOLEAN

\* auth.json as `codex login` left it.
Init ==
  /\ file = Blank /\ older = {}
  /\ valid = {0} /\ minted = 0
  /\ memo = Nothing /\ holder = Nobody
  /\ pc = [r \in Requests |-> "idle"]
  /\ token = [r \in Requests |-> 0]
  /\ retry = [r \in Requests |-> 0]
  /\ rt = [r \in Requests |-> 0]
  /\ new = [r \in Requests |-> Blank]
  /\ doc = [r \in Requests |-> Blank]
  /\ pid \in Pids /\ attempt = 0
  /\ temp = Nothing /\ leftovers = {}
  /\ cli = [doing |-> "nothing", pair |-> Blank]
  /\ crashes = 0
  /\ burst = 0 /\ spent = {} /\ lost = FALSE

Goto(r, to) == pc' = [pc EXCEPT ![r] = to]

-----------------------------------------------------------------------------
(* forward, up to the refresh and after it. *)

\* read_credential; an unreadable file means passthrough, which is not
\* followed here.
Attach(r) ==
  /\ pc[r] = "idle"
  /\ file # Torn
  /\ token' = [token EXCEPT ![r] = file.at]
  /\ Goto(r, "sent")
  /\ UNCHANGED <<authority, memo, holder, retry, locals, disk, temps, cli, crashes, history>>

Rejected(r) ==
  /\ pc[r] = "sent"
  /\ Goto(r, "waiting")
  /\ UNCHANGED <<authority, memo, holder, token, retry, locals, disk, temps, cli, crashes, history>>

\* The request ends: answered, failed, rejected a second time, or dropped by
\* its client at an await.
End(r) ==
  /\ pc[r] \in {"sent", "waiting", "retrying"}
  /\ Goto(r, "idle")
  /\ token' = [token EXCEPT ![r] = 0]
  /\ retry' = [retry EXCEPT ![r] = 0]
  /\ UNCHANGED <<authority, memo, holder, locals, disk, temps, cli, crashes, history>>

-----------------------------------------------------------------------------
(* refreshed_access_token. *)

Fresh(e) == e # Nothing /\ e.fresh

\* The lock is acquired and released with nothing in between but the look.
MemoHit(r) ==
  /\ pc[r] = "waiting"
  /\ holder = Nobody
  /\ Fresh(memo)
  /\ retry' = [retry EXCEPT ![r] = memo.tok]
  /\ Goto(r, "retrying")
  /\ UNCHANGED <<authority, memo, holder, token, locals, disk, temps, cli, crashes, history>>

\* Slip: the lock covers the look at the memo only, not the grant.
TakeLockBriefly(r) ==
  /\ pc[r] = "waiting"
  /\ holder = Nobody
  /\ ~Fresh(memo)
  /\ Goto(r, "reading")
  /\ UNCHANGED <<authority, memo, holder, token, retry, locals, disk, temps, cli, crashes, history>>

\* Slip: the memo is not looked at again under the lock.
TakeLockUnchecked(r) ==
  /\ pc[r] = "waiting"
  /\ holder = Nobody
  /\ holder' = r
  /\ Goto(r, "reading")
  /\ UNCHANGED <<authority, memo, token, retry, locals, disk, temps, cli, crashes, history>>

TakeLock(r) ==
  /\ pc[r] = "waiting"
  /\ holder = Nobody
  /\ ~Fresh(memo)
  /\ holder' = r
  /\ Goto(r, "reading")
  /\ UNCHANGED <<authority, memo, token, retry, locals, disk, temps, cli, crashes, history>>

\* read_auth.
ReadAuth(r) ==
  /\ pc[r] = "reading"
  /\ file # Torn
  /\ rt' = [rt EXCEPT ![r] = file.rt]
  /\ Goto(r, "redeeming")
  /\ UNCHANGED <<authority, memo, holder, token, retry, new, doc, disk, temps, cli, crashes, history>>

\* The guard goes out of scope, with r's locals.
Unlock(r) ==
  /\ holder' = Nobody
  /\ rt' = [rt EXCEPT ![r] = 0]
  /\ new' = [new EXCEPT ![r] = Blank]
  /\ doc' = [doc EXCEPT ![r] = Blank]

\* No readable refresh token, or no grant: the 401 goes to the client.
GiveUp(r) ==
  /\ pc[r] \in {"reading", "redeeming"}
  /\ Unlock(r)
  /\ Goto(r, "idle")
  /\ token' = [token EXCEPT ![r] = 0]
  /\ UNCHANGED <<retry, memo, disk, temps, cli, crashes, burst, spent>>
  /\ \/ UNCHANGED <<authority, lost>>
     \/ \* the authority granted and rotated, its answer did not arrive
        /\ pc[r] = "redeeming"
        /\ rt[r] \in valid
        /\ minted < MaxGrant
        /\ minted' = minted + 1
        /\ valid' = (valid \ {rt[r]}) \cup {minted + 1}
        /\ lost' = TRUE

\* refresh_access_token returns: the refresh token comes rotated or not.
Redeem(r) ==
  /\ pc[r] = "redeeming"
  /\ rt[r] \in valid
  /\ minted < MaxGrant
  /\ minted' = minted + 1
  /\ \/ /\ valid' = (valid \ {rt[r]}) \cup {minted + 1}
        /\ new' = [new EXCEPT ![r] = [at |-> minted + 1, rt |-> minted + 1]]
        /\ spent' = spent \cup {rt[r]}
     \/ /\ new' = [new EXCEPT ![r] = [at |-> minted + 1, rt |-> Nothing]]
        /\ UNCHANGED <<valid, spent>>
  /\ burst' = burst + 1
  /\ Goto(r, "rereading")
  /\ UNCHANGED <<memo, holder, token, retry, rt, doc, disk, temps, cli, crashes, lost>>

\* The access token is memoised and sent, persisted or not.
Serve(r) ==
  /\ memo' = [tok |-> new[r].at, fresh |-> TRUE]
  /\ retry' = [retry EXCEPT ![r] = new[r].at]
  /\ Goto(r, "retrying")
  /\ Unlock(r)
  /\ UNCHANGED <<authority, token, cli, crashes, burst, spent>>

-----------------------------------------------------------------------------
(* persist_rotation. *)

Rotated(r) == new[r].rt # Nothing

\* The document is read a second time: Codex CLI may have written since.
ReRead(r) ==
  /\ pc[r] = "rereading"
  /\ file # Torn
  /\ doc' = [doc EXCEPT ![r] = file]
  /\ Goto(r, "creating")
  /\ UNCHANGED <<authority, memo, holder, token, retry, rt, new, disk, temps, cli, crashes, history>>

TempName == [pid |-> pid, attempt |-> attempt]

\* create_temp_exclusive, and the guard is armed.
Create(r) ==
  /\ pc[r] = "creating"
  /\ TempName \notin leftovers
  /\ temp' = "partial"
  /\ Goto(r, "writing")
  /\ UNCHANGED <<authority, memo, holder, token, retry, locals, disk, pid, attempt, leftovers, cli, crashes, history>>

Write(r) ==
  /\ pc[r] = "writing"
  /\ temp' = "written"
  /\ Goto(r, "syncing")
  /\ UNCHANGED <<authority, memo, holder, token, retry, locals, disk, pid, attempt, leftovers, cli, crashes, history>>

Sync(r) ==
  /\ pc[r] = "syncing"
  /\ temp' = "synced"
  /\ Goto(r, "renaming")
  /\ UNCHANGED <<authority, memo, holder, token, retry, locals, disk, pid, attempt, leftovers, cli, crashes, history>>

\* Slip: only the access token is replaced in the document.
ReplacementAccessOnly(r) == [at |-> new[r].at, rt |-> doc[r].rt]

\* The document r writes: the refresh token only when it was rotated.
Replacement(r) ==
  [at |-> new[r].at, rt |-> IF Rotated(r) THEN new[r].rt ELSE doc[r].rt]

\* Persisted.  An unrotated grant writes back the refresh token of the document
\* it read, over whatever Codex CLI put there since.  The directory is not
\* synced: until the system writes it back, a power loss may restore what was
\* there before, or leave an empty file if the data was not synced either.
Rename(r) ==
  /\ pc[r] = "renaming"
  /\ file' = Replacement(r)
  /\ older' = older \cup {file} \cup (IF temp = "synced" THEN {} ELSE {Torn})
  /\ lost' = (lost \/ (~Rotated(r) /\ file # doc[r]))
  /\ temp' = Nothing
  /\ attempt' = attempt + 1
  /\ Serve(r)
  /\ UNCHANGED <<pid, leftovers>>

\* Slip: the guard is armed before the file is known to be new.
CleanUpAnyway(r) == /\ temp' = Nothing
                    /\ leftovers' = leftovers \ {TempName}

\* Slip: no guard.
CleanUpForgotten(r) == UNCHANGED <<temp, leftovers>>

\* TempFileGuard::drop: armed only once the file was created.
CleanUp(r) == temp' = Nothing /\ UNCHANGED leftovers

\* Any step of it fails, a taken name included; the request is served all the
\* same.  Only the second read leaves ATTEMPT alone.
PersistFails(r) ==
  /\ pc[r] \in Persisting
  /\ CleanUp(r)
  /\ attempt' = IF pc[r] = "rereading" THEN attempt ELSE attempt + 1
  /\ lost' = (lost \/ Rotated(r))
  /\ Serve(r)
  /\ UNCHANGED <<disk, pid>>

-----------------------------------------------------------------------------
(* What the gateway does not control. *)

\* CACHE_TTL passes.
Age ==
  /\ Fresh(memo)
  /\ memo' = [memo EXCEPT !.fresh = FALSE]
  /\ burst' = 0
  /\ UNCHANGED <<authority, holder, flight, locals, disk, temps, cli, crashes, spent, lost>>

\* The system writes back the directory and what it holds.
Flush ==
  /\ older # {}
  /\ older' = {}
  /\ UNCHANGED <<file, authority, memo, holder, flight, locals, temps, cli, crashes, history>>

SameRefreshToken(f, g) == f # Torn /\ g # Torn /\ f.rt = g.rt

\* The temp file being written stays behind.
ProcessEnds ==
  /\ leftovers' = IF temp = Nothing THEN leftovers ELSE leftovers \cup {TempName}
  /\ lost' = (lost \/ \E r \in Requests : pc[r] \in Persisting /\ Rotated(r))
  /\ UNCHANGED <<disk, cli>>

\* Codex CLI goes down as well, renames not yet written back may be undone, and
\* temp files that were renamed or removed may be there again.
PowerLoss ==
  /\ file' \in {file} \cup older
  /\ older' = {}
  /\ \E names \in SUBSET {[pid |-> pid, attempt |-> n] : n \in 0 .. attempt} :
       leftovers' = leftovers \cup names
  /\ cli' = [doing |-> "nothing", pair |-> Blank]
  /\ lost' = (\/ lost
              \/ \E r \in Requests : pc[r] \in Persisting /\ Rotated(r)
              \/ cli.doing = "writing"
              \/ ~SameRefreshToken(file, file'))

\* The process goes down, alone or with the machine; another takes over, under
\* the same id or another.
Crash ==
  /\ crashes < MaxCrash
  /\ crashes' = crashes + 1
  /\ ProcessEnds \/ PowerLoss
  /\ temp' = Nothing /\ pid' \in Pids /\ attempt' = 0
  /\ memo' = Nothing /\ holder' = Nobody /\ burst' = 0
  /\ pc' = [r \in Requests |-> "idle"]
  /\ token' = [r \in Requests |-> 0]
  /\ retry' = [r \in Requests |-> 0]
  /\ rt' = [r \in Requests |-> 0]
  /\ new' = [r \in Requests |-> Blank]
  /\ doc' = [r \in Requests |-> Blank]
  /\ UNCHANGED <<authority, spent>>

\* Codex CLI reads its refresh token, redeems it, and writes the new pair; a
\* login needs no refresh token.
CliRead ==
  /\ cli.doing = "nothing"
  /\ file # Torn
  /\ cli' = [doing |-> "redeeming", pair |-> file]
  /\ UNCHANGED <<authority, memo, holder, flight, locals, disk, temps, crashes, history>>

CliRefused ==
  /\ cli.doing = "redeeming"
  /\ cli' = [doing |-> "nothing", pair |-> Blank]
  /\ UNCHANGED <<authority, memo, holder, flight, locals, disk, temps, crashes, history>>

CliGranted ==
  /\ \/ /\ cli.doing = "redeeming"
        /\ cli.pair.rt \in valid
        /\ valid' = (valid \ {cli.pair.rt}) \cup {minted + 1}
     \/ /\ cli.doing = "nothing"
        /\ valid' = valid \cup {minted + 1}
  /\ minted < MaxGrant
  /\ minted' = minted + 1
  /\ cli' = [doing |-> "writing", pair |-> [at |-> minted + 1, rt |-> minted + 1]]
  /\ UNCHANGED <<memo, holder, flight, locals, disk, temps, crashes, history>>

CliWrite ==
  /\ cli.doing = "writing"
  /\ file' = cli.pair /\ older' = older \cup {file}
  /\ lost' = FALSE
  /\ cli' = [doing |-> "nothing", pair |-> Blank]
  /\ UNCHANGED <<authority, memo, holder, flight, locals, temps, crashes, burst, spent>>

Forward(r) == Attach(r) \/ Rejected(r) \/ End(r)

Refresh(r) == MemoHit(r) \/ TakeLock(r) \/ ReadAuth(r) \/ GiveUp(r) \/ Redeem(r)

Persist(r) ==
  \/ ReRead(r) \/ Create(r) \/ Write(r) \/ Sync(r) \/ Rename(r) \/ PersistFails(r)

Cli == CliRead \/ CliRefused \/ CliGranted \/ CliWrite

Next == (\E r \in Requests : Forward(r) \/ Refresh(r) \/ Persist(r)) \/ Age \/ Flush \/ Crash \/ Cli

Spec == Init /\ [][Next]_vars

-----------------------------------------------------------------------------
(* Properties. *)

\* A burst of 401s triggers one grant: between two lapses of the memoised token
\* at most one refresh token is redeemed, whoever waits for it.
OneGrantPerBurst == burst =< 1

\* The gateway never presents a refresh token it already had rotated, unless
\* the pair it got for it was lost: no request reads the file between another's
\* grant and its rename.
NoRefreshTokenReplayed ==
  [][\A r \in Requests :
       pc[r] = "reading" /\ pc'[r] = "redeeming" /\ ~lost => rt'[r] \notin spent]_vars

\* No crash, of the process or of the machine, leaves auth.json "empty or
\* garbage"; and whenever nobody is in the middle of a refresh, it holds a
\* refresh token the authority honours, so that the gateway and Codex CLI can
\* both go on.  The exceptions are those `lost` names: a crash or a failure
\* between the grant and the rename, an answer that did not arrive, a concurrent
\* write undone, and a power loss that brings back the file from before a
\* rotation.
AuthFileCurrent ==
  /\ file # Torn
  /\ holder = Nobody /\ cli.doing # "writing" /\ ~lost => file.rt \in valid

\* "Never leaves a stray temp file": a file with a live token pair lies beside
\* auth.json only while the lock's holder is writing it.
TempOnlyWhileWritten ==
  temp # Nothing =>
    \E r \in Requests : holder = r /\ pc[r] \in {"writing", "syncing", "renaming"}

\* The guard never deletes a file its own call did not create, though a process
\* may meet the names of a predecessor with its id.
ForeignTempKept == [][leftovers \subseteq leftovers']_vars
=============================================================================
