-------------------------- MODULE CodexRouteProofs --------------------------
(***************************************************************************)
(* Proofs about the Codex route: CodexRefresh, its credential, and         *)
(* ChatTranslation, what becomes of an answer.  They hold for any          *)
(* requests, process ids, calls, conversations and bounds.                 *)
(*                                                                         *)
(* CodexRefresh: the argument is custody.  The lock gives the refresh one  *)
(* owner (Custody), who alone creates the temp file and alone makes the    *)
(* memoised token fresh.  A refresh token is known to one place at a time: *)
(* the pair the gateway or Codex CLI was granted is honoured by the        *)
(* authority and appears nowhere else until it is written (GatewayPair,    *)
(* CliPair), so nobody else can have it retired; and the file holds an     *)
(* honoured token whenever no such pair is on its way (Honoured, Unspent). *)
(*                                                                         *)
(* ChatTranslation: the argument is that the translator keeps step.        *)
(* Streamed relates the events read to the translator and to the frames it *)
(* made: an index per announced call, the same text under each index, a    *)
(* terminal chunk for the first final event and for each failure. An event *)
(* keeps it (PushStep), so a chunk does, by the least event after which it *)
(* would fail, wherever the chunk ends; a delta with a character cut in    *)
(* two is an event with another text (Got). The order of upstream's events *)
(* (Ordered, Itemised) says that the items repeat what the deltas said. A  *)
(* message that repeats the items as they were read (Gives) brings them    *)
(* back, since chat_to_responses makes the input turn by turn (InputOf,    *)
(* TurnsAppended) and in order (SaidInOrder). What FlattenSeq makes is     *)
(* reached through its partial sums (Sums).                                *)
(***************************************************************************)
EXTENDS CodexRefresh, ChatTranslation, SequenceTheorems, NaturalsInduction,
        WellFoundedInduction, TLAPS


NeverTorn == file # Torn

\* The lock's holder is exactly the one inside the refresh, the temp file is
\* there only while it writes, and nothing unsynced is ever renamed, so that a
\* power loss leaves a whole file, if perhaps an older one.
Custody ==
  /\ \A r \in Requests : pc[r] \in Refreshing <=> holder = r
  /\ TempOnlyWhileWritten
  /\ \A r \in Requests : pc[r] = "renaming" => temp = "synced"
  /\ older \subseteq Pairs
  /\ NeverTorn

\* A grant is counted until the memoised token it leads to lapses.
Counted ==
  /\ OneGrantPerBurst
  /\ burst = 1 => Fresh(memo) \/ \E r \in Requests : pc[r] \in Persisting
  /\ \A r \in Requests : pc[r] \in {"reading", "redeeming"} => ~Fresh(memo)

\* A rotated pair the gateway has not written yet.
OnItsWay(r) == pc[r] \in Persisting /\ Rotated(r)

\* No token is numbered ahead of the grants, and none is honoured once spent.
Numbered ==
  /\ file.rt =< minted /\ cli.pair.rt =< minted
  /\ \A r \in Requests : /\ rt[r] =< minted /\ doc[r].rt =< minted
                         /\ Rotated(r) => new[r].rt =< minted
  /\ \A g \in valid \cup spent : g =< minted
  /\ valid \cap spent = {}

GatewayPair ==
  \A r \in Requests : OnItsWay(r) =>
    new[r].rt \in valid \ {0} /\ file.rt # new[r].rt /\ cli.pair.rt # new[r].rt

CliPair ==
  cli.doing = "writing" =>
    /\ cli.pair.rt \in valid \ {0}
    /\ file.rt # cli.pair.rt
    /\ \A r \in Requests : doc[r].rt # cli.pair.rt /\ (pc[r] = "redeeming" => rt[r] # cli.pair.rt)

Honoured ==
  ~lost => file.rt \in valid \/ cli.doing = "writing" \/ \E r \in Requests : OnItsWay(r)

\* What a power loss may bring back is no newer than the grants.
OlderNumbered == \A f \in older : f.rt =< minted

Unspent == ~lost => file.rt \notin spent \/ \E r \in Requests : OnItsWay(r)

Tokens == Numbered /\ GatewayPair /\ CliPair /\ Honoured /\ Unspent

IInv == TypeOK /\ Custody /\ Counted /\ Tokens /\ OlderNumbered

-----------------------------------------------------------------------------
(* Types. *)

LEMMA ServeType ==
  ASSUME TypeOK, NEW r \in Requests, Serve(r)
  PROVE  /\ memo' \in Memos \cup {Nothing}
         /\ holder' \in Requests \cup {Nobody}
         /\ pc' \in [Requests -> {"idle", "sent", "waiting", "retrying"} \cup Refreshing]
         /\ retry' \in [Requests -> Grants]
         /\ rt' \in [Requests -> Grants]
         /\ new' \in [Requests -> [at : Grants, rt : Grants \cup {Nothing}]]
         /\ doc' \in [Requests -> Pairs]
         /\ valid' \subseteq Grants /\ minted' \in Grants
         /\ token' \in [Requests -> Grants]
         /\ cli' = cli /\ crashes' \in 0 .. MaxCrash
         /\ burst' \in Nat /\ spent' \subseteq Grants
  BY BoundAssumption DEF TypeOK, Serve, Unlock, Goto, Blank, Pairs, Grants, Memos, authority

\* What `persist_rotation` writes is a pair of tokens.
LEMMA ReplacementType ==
  ASSUME TypeOK, NEW r \in Requests
  PROVE  Replacement(r) \in Pairs
  BY DEF TypeOK, Replacement, Rotated, Pairs

\* Every step keeps the types.
LEMMA TypeStep == TypeOK /\ [Next]_vars => TypeOK'
<1> SUFFICES ASSUME TypeOK, [Next]_vars PROVE TypeOK'
  OBVIOUS
<1> USE DEF Goto, authority, flight, locals, disk, temps, history
<1>0. 0 \in Grants /\ MaxGrant \in Nat /\ MaxCrash \in Nat
  BY BoundAssumption DEF Grants
<1>1. ASSUME NEW r \in Requests, Forward(r) PROVE TypeOK'
  <2>1. CASE Attach(r)
    <3>1. file.at \in Grants
      BY <2>1 DEF TypeOK, Attach, Pairs
    <3>. QED
      BY <2>1, <3>1 DEF TypeOK, Attach
  <2>2. CASE Rejected(r)
    BY <2>2 DEF TypeOK, Rejected
  <2>3. CASE End(r)
    BY <2>3, <1>0 DEF TypeOK, End
  <2>. QED
    BY <1>1, <2>1, <2>2, <2>3 DEF Forward
<1>2. ASSUME NEW r \in Requests, Refresh(r) PROVE TypeOK'
  <2>1. CASE MemoHit(r)
    BY <2>1 DEF TypeOK, MemoHit, Fresh, Memos
  <2>2. CASE TakeLock(r)
    BY <2>2 DEF TypeOK, TakeLock, Refreshing
  <2>3. CASE ReadAuth(r)
    <3>1. file.rt \in Grants
      BY <2>3 DEF TypeOK, ReadAuth, Pairs
    <3>. QED
      BY <2>3, <3>1 DEF TypeOK, ReadAuth, Refreshing
  <2>4. CASE GiveUp(r)
    <3>1. minted' \in Grants /\ valid' \subseteq Grants
      <4>1. CASE UNCHANGED <<authority, lost>>
        BY <2>4, <4>1 DEF TypeOK
      <4>2. CASE minted < MaxGrant /\ minted' = minted + 1 /\ valid' = (valid \ {rt[r]}) \cup {minted + 1}
        <5>1. minted + 1 \in Grants
          BY <4>2, <1>0 DEF TypeOK, Grants
        <5>. QED
          BY <4>2, <5>1 DEF TypeOK
      <4>. QED
        BY <2>4, <4>1, <4>2 DEF GiveUp
    <3>2. lost' \in BOOLEAN
      BY <2>4 DEF TypeOK, GiveUp
    <3>3. /\ holder' \in Requests \cup {Nobody}
          /\ rt' \in [Requests -> Grants] /\ token' \in [Requests -> Grants]
      BY <2>4, <1>0 DEF TypeOK, GiveUp, Unlock
    <3>4. Blank \in Pairs /\ Blank \in [at : Grants, rt : Grants \cup {Nothing}]
      BY <1>0 DEF Blank, Pairs
    <3>5. /\ new' \in [Requests -> [at : Grants, rt : Grants \cup {Nothing}]]
          /\ doc' \in [Requests -> Pairs]
      BY <2>4, <3>4 DEF TypeOK, GiveUp, Unlock
    <3>. QED
      BY <2>4, <3>1, <3>2, <3>3, <3>5 DEF TypeOK, GiveUp
  <2>5. CASE Redeem(r)
    <3>1. minted + 1 \in Grants /\ minted' = minted + 1
      BY <2>5, <1>0 DEF TypeOK, Redeem, Grants
    <3>2. /\ valid' \subseteq Grants /\ spent' \subseteq Grants /\ minted' \in Grants
          /\ burst' \in Nat
      BY <2>5, <3>1 DEF TypeOK, Redeem
    <3>3. new' \in [Requests -> [at : Grants, rt : Grants \cup {Nothing}]]
      BY <2>5, <3>1 DEF TypeOK, Redeem
    <3>4. pc' \in [Requests -> {"idle", "sent", "waiting", "retrying"} \cup Refreshing]
      BY <2>5 DEF TypeOK, Redeem, Refreshing, Persisting
    <3>. QED
      BY <2>5, <3>2, <3>3, <3>4 DEF TypeOK, Redeem
  <2>. QED
    BY <1>2, <2>1, <2>2, <2>3, <2>4, <2>5 DEF Refresh
<1>3. ASSUME NEW r \in Requests, Persist(r) PROVE TypeOK'
  <2>1. CASE ReRead(r)
    BY <2>1 DEF TypeOK, ReRead, Refreshing, Persisting
  <2>2. CASE Create(r) \/ Write(r) \/ Sync(r)
    BY <2>2 DEF TypeOK, Create, Write, Sync, Refreshing, Persisting
  <2>3. CASE Rename(r)
    <3>1. file' \in Pairs
      BY <2>3, ReplacementType DEF Rename
    <3>2. older' \subseteq Pairs \cup {Torn} /\ lost' \in BOOLEAN
      BY <2>3 DEF TypeOK, Rename
    <3>. QED
      BY <2>3, <3>1, <3>2, ServeType DEF TypeOK, Rename
  <2>4. CASE PersistFails(r)
    <3>1. lost' \in BOOLEAN
      BY <2>4 DEF PersistFails
    <3>. QED
      BY <2>4, <3>1, ServeType DEF TypeOK, PersistFails, CleanUp
  <2>. QED
    BY <1>3, <2>1, <2>2, <2>3, <2>4 DEF Persist
<1>4. CASE Age
  BY <1>4 DEF TypeOK, Age, Fresh, Memos
<1>f. CASE Flush
  BY <1>f DEF TypeOK, Flush
<1>5. CASE Crash
  <2>1. lost' \in BOOLEAN
    BY <1>5 DEF Crash, ProcessEnds, PowerLoss, TypeOK
  <2>2. leftovers' \subseteq Names
    <3>1. TempName \in Names /\ \A n \in 0 .. attempt : [pid |-> pid, attempt |-> n] \in Names
      BY DEF TypeOK, TempName, Names
    <3>2. CASE ProcessEnds
      BY <3>1, <3>2 DEF ProcessEnds, TypeOK
    <3>3. CASE PowerLoss
      <4>1. PICK names \in SUBSET {[pid |-> pid, attempt |-> n] : n \in 0 .. attempt} :
              leftovers' = leftovers \cup names
        BY <3>3 DEF PowerLoss
      <4>2. names \subseteq Names
        BY <3>1
      <4>. QED
        BY <4>1, <4>2 DEF TypeOK
    <3>. QED
      BY <1>5, <3>2, <3>3 DEF Crash
  <2>3. /\ file' \in Pairs \cup {Torn} /\ older' \subseteq Pairs \cup {Torn}
        /\ cli' \in [doing : {"nothing", "redeeming", "writing"}, pair : Pairs]
    <3>1. Blank \in Pairs
      BY <1>0 DEF Blank, Pairs
    <3>2. CASE ProcessEnds
      BY <3>2 DEF ProcessEnds, TypeOK
    <3>3. CASE PowerLoss
      BY <3>1, <3>3 DEF PowerLoss, TypeOK
    <3>. QED
      BY <1>5, <3>2, <3>3 DEF Crash
  <2>4. /\ memo' = Nothing /\ holder' = Nobody /\ burst' = 0 /\ temp' = Nothing
        /\ pid' \in Pids /\ attempt' = 0 /\ UNCHANGED <<valid, minted, spent>>
        /\ crashes' \in 0 .. MaxCrash
    BY <1>5, <1>0 DEF Crash, TypeOK
  <2>5. /\ pc' \in [Requests -> {"idle", "sent", "waiting", "retrying"} \cup Refreshing]
        /\ token' \in [Requests -> Grants] /\ retry' \in [Requests -> Grants]
        /\ rt' \in [Requests -> Grants]
        /\ new' \in [Requests -> [at : Grants, rt : Grants \cup {Nothing}]]
        /\ doc' \in [Requests -> Pairs]
    BY <1>5, <1>0 DEF Crash, Blank, Pairs
  <2>. QED
    BY <2>1, <2>2, <2>3, <2>4, <2>5 DEF TypeOK
<1>6. CASE Cli
  <2>1. CASE CliRead
    BY <2>1 DEF TypeOK, CliRead
  <2>2. CASE CliRefused
    BY <2>2, <1>0 DEF TypeOK, CliRefused, Blank, Pairs
  <2>3. CASE CliGranted
    <3>0. minted < MaxGrant /\ minted' = minted + 1 /\ minted \in 0 .. MaxGrant
      BY <2>3 DEF TypeOK, CliGranted, Grants
    <3>1. minted' \in Grants /\ minted' = minted + 1 /\ valid' \subseteq Grants
      <4>1. minted' \in Grants
        BY <3>0, <1>0 DEF Grants
      <4>2. valid' \subseteq valid \cup {minted'}
        BY <2>3 DEF CliGranted
      <4>. QED
        BY <3>0, <4>1, <4>2 DEF TypeOK
    <3>2. cli' \in [doing : {"nothing", "redeeming", "writing"}, pair : Pairs]
      BY <2>3, <3>1 DEF CliGranted, Pairs
    <3>. QED
      BY <2>3, <3>1, <3>2 DEF TypeOK, CliGranted
  <2>4. CASE CliWrite
    BY <2>4, <1>0 DEF TypeOK, CliWrite, Blank, Pairs
  <2>. QED
    BY <1>6, <2>1, <2>2, <2>3, <2>4 DEF Cli
<1>7. CASE UNCHANGED vars
  BY <1>7 DEF TypeOK, vars
<1>. QED
  BY <1>f, <1>1, <1>2, <1>3, <1>4, <1>5, <1>6, <1>7 DEF Next

-----------------------------------------------------------------------------
(* Custody. *)

LEMMA CustodyStep == TypeOK /\ Custody /\ [Next]_vars => Custody'
<1> SUFFICES ASSUME TypeOK, Custody, [Next]_vars PROVE Custody'
  OBVIOUS
<1> USE RequestAssumption DEF Goto, authority, flight, locals, disk, temps, history,
        TempOnlyWhileWritten, NeverTorn, Refreshing, Persisting
<1>0. /\ pc \in [Requests -> {"idle", "sent", "waiting", "retrying"} \cup Refreshing]
      /\ temp \in {Nothing, "partial", "written", "synced"}
  BY DEF TypeOK
<1>1. ASSUME NEW r \in Requests, Forward(r) PROVE Custody'
  BY <1>0, <1>1 DEF Custody, Forward, Attach, Rejected, End
<1>2. ASSUME NEW r \in Requests, Refresh(r) PROVE Custody'
  <2>1. CASE MemoHit(r)
    BY <1>0, <2>1 DEF Custody, MemoHit
  <2>2. CASE TakeLock(r)
    BY <1>0, <2>2 DEF Custody, TakeLock
  <2>3. CASE ReadAuth(r)
    BY <1>0, <2>3 DEF Custody, ReadAuth
  <2>4. CASE GiveUp(r)
    BY <1>0, <2>4 DEF Custody, GiveUp, Unlock
  <2>5. CASE Redeem(r)
    BY <1>0, <2>5 DEF Custody, Redeem
  <2>. QED
    BY <1>2, <2>1, <2>2, <2>3, <2>4, <2>5 DEF Refresh
<1>3. ASSUME NEW r \in Requests, Persist(r) PROVE Custody'
  <2>1. CASE ReRead(r)
    BY <1>0, <2>1 DEF Custody, ReRead
  <2>2. CASE Create(r) \/ Write(r) \/ Sync(r)
    BY <1>0, <2>2 DEF Custody, Create, Write, Sync
  <2>3. CASE Rename(r)
    <3>1. file' # Torn
      BY <2>3, ReplacementType, TornAssumption DEF Rename
    <3>2. older' \subseteq Pairs
      BY <2>3 DEF Custody, TypeOK, Rename
    <3>3. pc' = [pc EXCEPT ![r] = "retrying"] /\ holder' = Nobody /\ temp' = Nothing
      BY <2>3 DEF Rename, Serve, Unlock
    <3>4. holder = r
      BY <2>3 DEF Custody, Rename
    <3>. QED
      BY <1>0, <3>1, <3>2, <3>3, <3>4 DEF Custody
  <2>4. CASE PersistFails(r)
    <3>1. /\ pc' = [pc EXCEPT ![r] = "retrying"] /\ holder' = Nobody /\ temp' = Nothing
          /\ UNCHANGED <<file, older>>
      BY <2>4 DEF PersistFails, Serve, Unlock, CleanUp
    <3>2. holder = r
      BY <2>4 DEF Custody, PersistFails
    <3>. QED
      BY <1>0, <3>1, <3>2 DEF Custody
  <2>. QED
    BY <1>3, <2>1, <2>2, <2>3, <2>4 DEF Persist
<1>4. CASE Age \/ Flush
  <2>1. UNCHANGED <<pc, holder, temp, file>> /\ older' \subseteq older
    BY <1>4 DEF Age, Flush
  <2>. QED
    BY <2>1 DEF Custody
<1>5. CASE Crash
  <2>1. file' # Torn /\ older' \subseteq Pairs
    BY <1>5, TornAssumption DEF Custody, Crash, ProcessEnds, PowerLoss
  <2>. QED
    BY <1>5, <2>1 DEF Custody, Crash
<1>6. CASE Cli
  <2>1. file' # Torn /\ older' \subseteq Pairs /\ UNCHANGED <<pc, holder, temp>>
    BY <1>6, TornAssumption DEF Custody, TypeOK, Cli, CliRead, CliRefused, CliGranted, CliWrite
  <2>. QED
    BY <2>1 DEF Custody
<1>7. CASE UNCHANGED vars
  BY <1>7 DEF Custody, vars
<1>. QED
  BY <1>1, <1>2, <1>3, <1>4, <1>5, <1>6, <1>7 DEF Next

\* Every step keeps the count of grants a burst of rejections has redeemed.
LEMMA CountedStep == TypeOK /\ Custody /\ Counted /\ [Next]_vars => Counted'
<1> SUFFICES ASSUME TypeOK, Custody, Counted, [Next]_vars PROVE Counted'
  OBVIOUS
<1> USE DEF Goto, authority, flight, locals, disk, temps, history,
        OneGrantPerBurst, Refreshing, Persisting
<1>0. /\ pc \in [Requests -> {"idle", "sent", "waiting", "retrying"} \cup Refreshing]
      /\ burst \in Nat
  BY DEF TypeOK
<1>1. ASSUME NEW r \in Requests, Forward(r) PROVE Counted'
  BY <1>0, <1>1 DEF Counted, Forward, Attach, Rejected, End, Fresh
<1>2. ASSUME NEW r \in Requests, Refresh(r) PROVE Counted'
  <2>1. CASE MemoHit(r)
    BY <1>0, <2>1 DEF Counted, MemoHit, Fresh
  <2>2. CASE TakeLock(r)
    BY <1>0, <2>2 DEF Counted, TakeLock, Fresh
  <2>3. CASE ReadAuth(r)
    BY <1>0, <2>3 DEF Counted, ReadAuth, Fresh
  <2>4. CASE GiveUp(r)
    <3>1. pc' = [pc EXCEPT ![r] = "idle"] /\ UNCHANGED <<burst, memo>>
          /\ pc[r] \in {"reading", "redeeming"}
      BY <2>4 DEF GiveUp
    <3>. QED
      BY <1>0, <3>1 DEF Counted, Fresh
  <2>5. CASE Redeem(r)
    <3>1. /\ pc[r] = "redeeming" /\ pc' = [pc EXCEPT ![r] = "rereading"]
          /\ burst' = burst + 1 /\ memo' = memo
      BY <2>5 DEF Redeem
    <3>2. holder = r /\ ~Fresh(memo)
      BY <3>1 DEF Custody, Counted
    <3>3. ~ \E q \in Requests : pc[q] \in Persisting
      BY <3>1, <3>2 DEF Custody
    <3>4. burst = 0
      BY <1>0, <3>2, <3>3 DEF Counted
    <3>. QED
      BY <1>0, <3>1, <3>2, <3>4 DEF Counted, Fresh
  <2>. QED
    BY <1>2, <2>1, <2>2, <2>3, <2>4, <2>5 DEF Refresh
<1>3. ASSUME NEW r \in Requests, Persist(r) PROVE Counted'
  <2>1. CASE ReRead(r) \/ Create(r) \/ Write(r) \/ Sync(r)
    BY <1>0, <2>1 DEF Counted, ReRead, Create, Write, Sync, Fresh
  <2>2. CASE Rename(r) \/ PersistFails(r)
    <3>1. pc' = [pc EXCEPT ![r] = "retrying"] /\ burst' = burst /\ holder = r
      BY <2>2 DEF Rename, PersistFails, Serve, Custody
    <3>2. Fresh(memo)'
      <4>1. memo' = [tok |-> new[r].at, fresh |-> TRUE]
        BY <2>2 DEF Rename, PersistFails, Serve
      <4>2. memo' \in Memos
        BY <4>1 DEF TypeOK, Memos
      <4>. QED
        BY <4>1, <4>2, NothingAssumption DEF Fresh
    <3>3. \A q \in Requests : pc'[q] \notin {"reading", "redeeming"}
      BY <1>0, <3>1 DEF Custody
    <3>. QED
      BY <3>1, <3>2, <3>3 DEF Counted
  <2>. QED
    BY <1>3, <2>1, <2>2 DEF Persist
<1>f. CASE Flush
  BY <1>f DEF Flush, Counted, Fresh
<1>4. CASE Age
  <2>1. burst' = 0 /\ UNCHANGED pc
    BY <1>4 DEF Age
  <2>2. ~Fresh(memo')
    <3>1. memo \in Memos /\ memo' = [memo EXCEPT !.fresh = FALSE]
      BY <1>4 DEF Age, Fresh, TypeOK
    <3>2. memo'.fresh = FALSE
      BY <3>1, Zenon DEF Memos
    <3>. QED
      BY <3>2 DEF Fresh
  <2>. QED
    BY <2>1, <2>2 DEF Counted, Fresh
<1>5. CASE Crash
  BY <1>5 DEF Counted, Crash
<1>6. CASE Cli
  <2>1. UNCHANGED <<pc, memo, burst>>
    BY <1>6 DEF Cli, CliRead, CliRefused, CliGranted, CliWrite
  <2>. QED
    BY <2>1 DEF Counted, Fresh
<1>7. CASE UNCHANGED vars
  BY <1>7 DEF Counted, vars, Fresh
<1>. QED
  BY <1>f, <1>1, <1>2, <1>3, <1>4, <1>5, <1>6, <1>7 DEF Next

-----------------------------------------------------------------------------
(* Tokens. *)

LEMMA Shape ==
  ASSUME TypeOK, NeverTorn
  PROVE  /\ file \in Pairs /\ file.rt \in Grants
         /\ cli.pair \in Pairs /\ cli.pair.rt \in Grants
         /\ \A r \in Requests : /\ rt[r] \in Grants /\ doc[r].rt \in Grants
                                /\ new[r].rt \in Grants \cup {Nothing}
         /\ minted \in Nat /\ Grants \subseteq Nat /\ Nothing \notin Grants
         /\ valid \subseteq Grants /\ spent \subseteq Grants
<1>1. Grants \subseteq Nat
  BY BoundAssumption DEF Grants
<1>2. Nothing \notin Grants
  BY NothingAssumption
<1>. QED
  BY <1>1, <1>2 DEF TypeOK, NeverTorn, Pairs

\* One request at a time is inside the refresh.
LEMMA Alone ==
  ASSUME Custody, NEW r \in Requests, pc[r] \in Refreshing
  PROVE  /\ holder = r
         /\ \A q \in Requests : q # r => pc[q] \notin Refreshing
  BY DEF Custody

\* A step that moves no refresh token.
LEMMA Quiet ==
  ASSUME Tokens,
         UNCHANGED <<file, cli, rt, doc, new, valid, spent, minted, lost>>,
         \A q \in Requests : /\ pc'[q] \in Persisting <=> pc[q] \in Persisting
                             /\ pc'[q] = "redeeming" => pc[q] = "redeeming"
  PROVE  Tokens'
  BY DEF Tokens, Numbered, GatewayPair, CliPair, Honoured, Unspent, OnItsWay, Rotated

\* The steps of a request outside the refresh leave all tokens alone.
LEMMA TokensForward ==
  ASSUME TypeOK, Tokens, NEW r \in Requests, Forward(r)
  PROVE  Tokens'
<1>1. UNCHANGED <<file, cli, rt, doc, new, valid, spent, minted, lost>>
  BY DEF Forward, Attach, Rejected, End, authority, locals, disk, history
<1>2. \E to \in {"idle", "sent", "waiting"} :
        pc[r] \in {"idle", "sent", "waiting", "retrying"} /\ pc' = [pc EXCEPT ![r] = to]
  BY DEF Forward, Attach, Rejected, End, Goto
<1>. QED
  BY <1>1, <1>2, Quiet DEF TypeOK, Persisting

\* Reading `auth.json` copies a token that the file still has.
LEMMA TokensReadAuth ==
  ASSUME TypeOK, Custody, Tokens, NEW r \in Requests, ReadAuth(r)
  PROVE  Tokens'
<1>1. /\ UNCHANGED <<file, cli, doc, new, valid, spent, minted, lost>>
      /\ rt' = [rt EXCEPT ![r] = file.rt] /\ pc' = [pc EXCEPT ![r] = "redeeming"]
      /\ pc[r] = "reading"
  BY DEF ReadAuth, Goto, authority, disk, history
<1>2. \A q \in Requests : OnItsWay(q)' <=> OnItsWay(q)
  BY <1>1 DEF TypeOK, OnItsWay, Rotated, Persisting
<1>3. \A q \in Requests : rt'[q] = rt[q] \/ rt'[q] = file.rt
  BY <1>1 DEF TypeOK
<1>4. \A q \in Requests : pc'[q] = "redeeming" => pc[q] = "redeeming" \/ rt'[q] = file.rt
  BY <1>1 DEF TypeOK
<1>5. Numbered'
  BY <1>1, <1>3 DEF Tokens, Numbered, Rotated
<1>6. CliPair'
  BY <1>1, <1>3, <1>4 DEF Tokens, CliPair
<1>. QED
  BY <1>1, <1>2, <1>5, <1>6 DEF Tokens, GatewayPair, Honoured, Unspent

\* Giving up drops a copy of what the file still has.
LEMMA TokensGiveUp ==
  ASSUME TypeOK, Custody, Tokens, NEW r \in Requests, GiveUp(r)
  PROVE  Tokens'
<1>1. /\ UNCHANGED <<file, cli, spent>>
      /\ rt' = [rt EXCEPT ![r] = 0] /\ pc' = [pc EXCEPT ![r] = "idle"]
      /\ new' = [new EXCEPT ![r] = Blank] /\ doc' = [doc EXCEPT ![r] = Blank]
      /\ pc[r] \in {"reading", "redeeming"}
  BY DEF GiveUp, Unlock, Goto, disk
<1>2. \A q \in Requests : pc[q] \notin Persisting
  BY <1>1, Alone DEF Refreshing, Persisting
<1>3. \A q \in Requests : ~OnItsWay(q) /\ ~OnItsWay(q)'
  BY <1>1, <1>2 DEF TypeOK, OnItsWay, Persisting
<1>4. \A q \in Requests :
        /\ rt'[q] \in {rt[q], 0} /\ doc'[q].rt \in {doc[q].rt, 0} /\ new'[q].rt \in {new[q].rt, 0}
        /\ pc'[q] = "redeeming" => pc[q] = "redeeming" /\ rt'[q] = rt[q]
  BY <1>1 DEF TypeOK, Blank
<1>5. CASE UNCHANGED <<valid, minted, lost>>
  <2>1. Numbered'
    BY <1>1, <1>4, <1>5, Shape DEF Tokens, Numbered, Rotated, Custody
  <2>2. CliPair'
    BY <1>1, <1>4, <1>5 DEF Tokens, CliPair
  <2>. QED
    BY <1>1, <1>3, <1>5, <2>1, <2>2 DEF Tokens, GatewayPair, Honoured, Unspent
<1>6. CASE /\ pc[r] = "redeeming" /\ minted' = minted + 1
           /\ valid' = (valid \ {rt[r]}) \cup {minted + 1} /\ lost' = TRUE
  <2>1. Numbered'
    BY <1>1, <1>4, <1>6, Shape DEF Tokens, Numbered, Rotated, Custody
  <2>2. CliPair'
    BY <1>1, <1>4, <1>6 DEF Tokens, CliPair
  <2>. QED
    BY <1>3, <1>6, <2>1, <2>2 DEF Tokens, GatewayPair, Honoured, Unspent
<1>. QED
  BY <1>5, <1>6 DEF GiveUp, authority

\* A grant retires the token redeemed and puts its successor on its way.
LEMMA TokensRedeem ==
  ASSUME TypeOK, Custody, Tokens, NEW r \in Requests, Redeem(r)
  PROVE  Tokens'
<1>1. /\ UNCHANGED <<file, cli, rt, doc, lost>>
      /\ minted' = minted + 1 /\ pc[r] = "redeeming" /\ pc' = [pc EXCEPT ![r] = "rereading"]
  BY DEF Redeem, Goto, disk
<1>2. \A q \in Requests : ~OnItsWay(q)
  BY <1>1, Alone DEF OnItsWay, Refreshing, Persisting
<1>3. \A q \in Requests : q # r => new'[q] = new[q] /\ pc'[q] = pc[q]
  BY <1>1 DEF TypeOK, Redeem
<1>4. CASE /\ valid' = (valid \ {rt[r]}) \cup {minted + 1}
           /\ new' = [new EXCEPT ![r] = [at |-> minted + 1, rt |-> minted + 1]]
           /\ spent' = spent \cup {rt[r]}
  <2>1. new'[r].rt = minted + 1
    BY <1>4 DEF TypeOK
  <2>2. Numbered'
    BY <1>1, <1>3, <1>4, <2>1, Shape DEF Tokens, Numbered, Rotated, Custody
  <2>3. \A q \in Requests : OnItsWay(q)' <=> q = r
    <3>1. minted + 1 # Nothing
      BY NothingAssumption, BoundAssumption DEF TypeOK, Redeem, Grants
    <3>. QED
      BY <1>1, <1>2, <1>3, <2>1, <3>1 DEF TypeOK, OnItsWay, Rotated, Persisting
  <2>4. GatewayPair'
    BY <1>1, <1>4, <2>1, <2>3, Shape DEF Tokens, Numbered, GatewayPair, Custody
  <2>5. CliPair'
    BY <1>1, <1>3, <1>4 DEF Tokens, CliPair
  <2>. QED
    BY <2>2, <2>3, <2>4, <2>5 DEF Tokens, Honoured, Unspent
<1>5. CASE /\ new' = [new EXCEPT ![r] = [at |-> minted + 1, rt |-> Nothing]]
           /\ UNCHANGED <<valid, spent>>
  <2>1. new'[r].rt = Nothing
    BY <1>5 DEF TypeOK
  <2>2. Numbered'
    BY <1>1, <1>3, <1>5, <2>1, Shape DEF Tokens, Numbered, Rotated, Custody
  <2>3. \A q \in Requests : ~OnItsWay(q)'
    BY <1>2, <1>3, <2>1 DEF OnItsWay, Rotated
  <2>4. CliPair'
    BY <1>1, <1>3, <1>5 DEF Tokens, CliPair
  <2>. QED
    BY <1>1, <1>2, <1>5, <2>2, <2>3, <2>4 DEF Tokens, GatewayPair, Honoured, Unspent
<1>. QED
  BY <1>4, <1>5 DEF Redeem

\* The second read of `auth.json` makes the document to be written.
LEMMA TokensReRead ==
  ASSUME TypeOK, Custody, Tokens, NEW r \in Requests, ReRead(r)
  PROVE  Tokens'
<1>1. /\ UNCHANGED <<file, cli, rt, new, valid, spent, minted, lost>>
      /\ doc' = [doc EXCEPT ![r] = file] /\ pc' = [pc EXCEPT ![r] = "creating"]
      /\ pc[r] = "rereading"
  BY DEF ReRead, Goto, authority, disk, history
<1>2. \A q \in Requests : /\ OnItsWay(q)' <=> OnItsWay(q)
                          /\ pc'[q] = "redeeming" => pc[q] = "redeeming"
  BY <1>1 DEF TypeOK, OnItsWay, Rotated, Persisting
<1>3. \A q \in Requests : doc'[q].rt \in {doc[q].rt, file.rt}
  BY <1>1 DEF TypeOK
<1>4. Numbered'
  BY <1>1, <1>3 DEF Tokens, Numbered, Rotated
<1>5. CliPair'
  BY <1>1, <1>2, <1>3 DEF Tokens, CliPair
<1>. QED
  BY <1>1, <1>2, <1>4, <1>5 DEF Tokens, GatewayPair, Honoured, Unspent

\* What the end of r's refresh leaves of the tokens in flight.
Released(r) ==
  /\ UNCHANGED <<cli, valid, spent, minted>>
  /\ \A q \in Requests : /\ rt'[q] \in {rt[q], 0}
                         /\ doc'[q].rt \in {doc[q].rt, 0}
                         /\ new'[q].rt \in {new[q].rt, 0}
                         /\ pc'[q] = "redeeming" => pc[q] = "redeeming" /\ rt'[q] = rt[q]
                         /\ ~OnItsWay(q)'
                         /\ OnItsWay(q) => q = r

\* A refresher that serves its token leaves the refresh with nothing in hand.
LEMMA Served ==
  ASSUME TypeOK, Custody, NEW r \in Requests, pc[r] \in Persisting, Serve(r)
  PROVE  Released(r)
<1>1. /\ UNCHANGED <<cli, valid, spent, minted>>
      /\ rt' = [rt EXCEPT ![r] = 0] /\ pc' = [pc EXCEPT ![r] = "retrying"]
      /\ new' = [new EXCEPT ![r] = Blank] /\ doc' = [doc EXCEPT ![r] = Blank]
  BY DEF Serve, Unlock, Goto, authority
<1>2. \A q \in Requests : q # r => pc[q] \notin Persisting
  BY Alone DEF Refreshing
<1>. QED
  BY <1>1, <1>2 DEF Released, TypeOK, OnItsWay, Persisting, Blank

\* The rename puts the successor in the file in one step.
LEMMA TokensRename ==
  ASSUME TypeOK, Custody, Tokens, NEW r \in Requests, Rename(r)
  PROVE  Tokens'
<1>1. /\ Serve(r) /\ pc[r] = "renaming" /\ pc[r] \in Persisting
      /\ file' = Replacement(r)
      /\ lost' = (lost \/ (~Rotated(r) /\ file # doc[r]))
  BY DEF Rename, Persisting
<1>r. Released(r)
  BY <1>1, Served
<1>2. OnItsWay(r) <=> Rotated(r)
  BY <1>1 DEF OnItsWay
<1>3. CASE Rotated(r)
  <2>1. file'.rt = new[r].rt
    BY <1>1, <1>3 DEF Replacement
  <2>2. new[r].rt \in valid /\ new[r].rt \notin spent /\ new[r].rt =< minted
    BY <1>2, <1>3 DEF Tokens, Numbered, GatewayPair
  <2>3. cli.pair.rt # new[r].rt
    BY <1>2, <1>3 DEF Tokens, GatewayPair
  <2>4. Numbered'
    BY <1>1, <2>1, <2>2, <1>r, Shape DEF Tokens, Numbered, Rotated, Custody, Released
  <2>5. CliPair'
    BY <1>1, <2>1, <2>3, <1>r DEF Tokens, CliPair, Released
  <2>. QED
    BY <1>1, <2>1, <2>2, <2>4, <2>5, <1>r DEF Tokens, GatewayPair, Honoured, Unspent, Released
<1>4. CASE ~Rotated(r)
  <2>1. file'.rt = doc[r].rt
    BY <1>1, <1>4 DEF Replacement
  <2>2. Numbered'
    BY <1>1, <2>1, <1>r, Shape DEF Tokens, Numbered, Rotated, Custody, Released
  <2>3. CliPair'
    BY <1>1, <2>1, <1>r DEF Tokens, CliPair, Released
  <2>4. ~lost' => ~lost /\ file'.rt = file.rt
    BY <1>1, <1>4, <2>1
  <2>5. \A q \in Requests : ~OnItsWay(q)
    BY <1>1, <1>2, <1>4, <1>r DEF Released
  <2>. QED
    BY <1>1, <2>2, <2>3, <2>4, <2>5, <1>r DEF Tokens, GatewayPair, Honoured, Unspent, Released
<1>. QED
  BY <1>3, <1>4

\* A failed write loses the successor, which `lost` records.
LEMMA TokensPersistFails ==
  ASSUME TypeOK, Custody, Tokens, NEW r \in Requests, PersistFails(r)
  PROVE  Tokens'
<1>1. /\ Serve(r) /\ pc[r] \in Persisting /\ file' = file
      /\ lost' = (lost \/ Rotated(r))
  BY DEF PersistFails, disk
<1>r. Released(r)
  BY <1>1, Served
<1>2. ~lost' => ~lost /\ \A q \in Requests : ~OnItsWay(q)
  BY <1>1, <1>r DEF OnItsWay, Released
<1>3. Numbered'
  BY <1>1, <1>r, Shape DEF Tokens, Numbered, Rotated, Custody, Released
<1>4. CliPair'
  BY <1>1, <1>r DEF Tokens, CliPair, Released
<1>. QED
  BY <1>1, <1>2, <1>3, <1>4, <1>r DEF Tokens, GatewayPair, Honoured, Unspent, Released

\* A crash loses at most the successor on its way and a rename not yet durable,
\* which `lost` records.
LEMMA TokensCrash ==
  ASSUME TypeOK, Custody, Tokens, OlderNumbered, Crash
  PROVE  Tokens'
<1>1. /\ UNCHANGED <<valid, minted, spent>>
      /\ \A q \in Requests : /\ pc'[q] = "idle" /\ rt'[q] = 0
                             /\ new'[q].rt = 0 /\ doc'[q].rt = 0
  BY DEF Crash, authority, Blank
<1>2. /\ file' \in {file} \cup older
      /\ cli' = cli \/ (cli'.doing = "nothing" /\ cli'.pair.rt = 0)
      /\ ~lost' => (cli' = cli \/ cli.doing # "writing") /\ file'.rt = file.rt
  <2>1. CASE ProcessEnds
    BY <2>1 DEF ProcessEnds, disk
  <2>2. CASE PowerLoss
    BY <2>2 DEF PowerLoss, SameRefreshToken, Blank
  <2>. QED
    BY <2>1, <2>2 DEF Crash
<1>3. ~lost' => ~lost /\ \A q \in Requests : ~OnItsWay(q)
  BY DEF Crash, ProcessEnds, PowerLoss, OnItsWay
<1>4. \A q \in Requests : ~OnItsWay(q)'
  BY <1>1 DEF OnItsWay, Persisting
<1>5. Numbered'
  BY <1>1, <1>2, Shape DEF Tokens, Numbered, Custody, OlderNumbered
<1>6. CliPair'
  <2>1. CASE cli'.doing # "writing"
    BY <2>1 DEF CliPair
  <2>2. CASE ProcessEnds
    BY <1>1, <2>2 DEF Tokens, CliPair, ProcessEnds, disk
  <2>3. CASE PowerLoss
    BY <2>3 DEF CliPair, PowerLoss
  <2>. QED
    BY <2>2, <2>3 DEF Crash
<1>. QED
  BY <1>1, <1>2, <1>3, <1>4, <1>5, <1>6 DEF Tokens, GatewayPair, Honoured, Unspent

\* What Codex CLI does to the same file and the same authority.
LEMMA TokensCli ==
  ASSUME TypeOK, Custody, Tokens, Cli
  PROVE  Tokens'
<1>1. UNCHANGED <<rt, doc, new, pc, spent>>
  BY DEF Cli, CliRead, CliRefused, CliGranted, CliWrite, flight, locals, history
<1>2. \A q \in Requests : OnItsWay(q)' <=> OnItsWay(q)
  BY <1>1 DEF OnItsWay, Rotated
<1>3. CASE CliRead
  <2>1. /\ UNCHANGED <<file, valid, minted, lost>>
        /\ cli.doing = "nothing" /\ cli'.doing = "redeeming" /\ cli'.pair = file
    BY <1>3 DEF CliRead, disk, authority, history
  <2>2. Numbered'
    BY <1>1, <2>1 DEF Tokens, Numbered, Rotated
  <2>. QED
    BY <1>1, <1>2, <2>1, <2>2 DEF Tokens, GatewayPair, CliPair, Honoured, Unspent
<1>4. CASE CliRefused
  <2>1. /\ UNCHANGED <<file, valid, minted, lost>>
        /\ cli.doing = "redeeming" /\ cli'.doing = "nothing" /\ cli'.pair.rt = 0
    BY <1>4 DEF CliRefused, disk, authority, history, Blank
  <2>2. Numbered'
    BY <1>1, <2>1, Shape DEF Tokens, Numbered, Rotated, Custody
  <2>. QED
    BY <1>1, <1>2, <2>1, <2>2 DEF Tokens, GatewayPair, CliPair, Honoured, Unspent
<1>5. CASE CliGranted
  <2>1. /\ UNCHANGED <<file, lost>> /\ minted' = minted + 1
        /\ cli'.doing = "writing" /\ cli'.pair.rt = minted + 1
        /\ cli.doing \in {"nothing", "redeeming"}
    BY <1>5 DEF CliGranted, disk, history
  <2>2. /\ valid' \subseteq valid \cup {minted + 1} /\ minted + 1 \in valid'
        /\ \A g \in valid : g \in valid' \/ g = cli.pair.rt
    BY <1>5 DEF CliGranted
  <2>3. Numbered'
    BY <1>1, <2>1, <2>2, Shape DEF Tokens, Numbered, Rotated, Custody
  <2>4. GatewayPair'
    BY <1>1, <1>2, <2>1, <2>2, Shape DEF Tokens, Numbered, GatewayPair, OnItsWay, Rotated, Custody
  <2>5. CliPair'
    BY <1>1, <2>1, <2>2, Shape DEF Tokens, Numbered, CliPair, Custody
  <2>. QED
    BY <1>1, <1>2, <2>1, <2>3, <2>4, <2>5 DEF Tokens, Honoured, Unspent
<1>6. CASE CliWrite
  <2>1. /\ UNCHANGED <<valid, minted>> /\ cli.doing = "writing" /\ file' = cli.pair
        /\ cli'.doing = "nothing" /\ cli'.pair.rt = 0
    BY <1>6 DEF CliWrite, authority, Blank
  <2>2. file'.rt \in valid /\ file'.rt \notin spent /\ file'.rt =< minted
    BY <2>1 DEF Tokens, Numbered, CliPair
  <2>3. Numbered'
    BY <1>1, <2>1, <2>2, Shape DEF Tokens, Numbered, Rotated, Custody
  <2>. QED
    BY <1>1, <1>2, <2>1, <2>2, <2>3 DEF Tokens, GatewayPair, CliPair, Honoured, Unspent
<1>. QED
  BY <1>3, <1>4, <1>5, <1>6 DEF Cli

\* Every step keeps the bookkeeping of tokens.
LEMMA TokensStep == TypeOK /\ Custody /\ Tokens /\ OlderNumbered /\ [Next]_vars => Tokens'
<1> SUFFICES ASSUME TypeOK, Custody, Tokens, OlderNumbered, [Next]_vars PROVE Tokens'
  OBVIOUS
<1>1. ASSUME NEW r \in Requests, MemoHit(r) \/ TakeLock(r) PROVE Tokens'
  <2>1. /\ UNCHANGED <<file, cli, rt, doc, new, valid, spent, minted, lost>>
        /\ pc[r] = "waiting" /\ \E to \in {"retrying", "reading"} : pc' = [pc EXCEPT ![r] = to]
    BY <1>1 DEF MemoHit, TakeLock, Goto, authority, locals, disk, history
  <2>. QED
    BY <2>1, Quiet DEF TypeOK, Persisting
<1>2. ASSUME NEW r \in Requests, Create(r) \/ Write(r) \/ Sync(r) PROVE Tokens'
  <2>1. /\ UNCHANGED <<file, cli, rt, doc, new, valid, spent, minted, lost>>
        /\ pc[r] \in {"creating", "writing", "syncing"}
        /\ \E to \in {"writing", "syncing", "renaming"} : pc' = [pc EXCEPT ![r] = to]
    BY <1>2 DEF Create, Write, Sync, Goto, authority, locals, disk, history
  <2>. QED
    BY <2>1, Quiet DEF TypeOK, Persisting
<1>3. CASE Age \/ Flush \/ UNCHANGED vars
  <2>1. UNCHANGED <<file, cli, rt, doc, new, valid, spent, minted, lost, pc>>
    BY <1>3 DEF Age, Flush, vars, flight, authority, locals, disk, history
  <2>. QED
    BY <2>1, Quiet
<1>. QED
  BY <1>1, <1>2, <1>3, TokensForward, TokensReadAuth, TokensGiveUp, TokensRedeem, TokensReRead,
     TokensRename, TokensPersistFails, TokensCrash, TokensCli
  DEF Next, Refresh, Persist

\* Only the file as it was joins what a power loss may bring back.
LEMMA OlderStep ==
  ASSUME TypeOK, Custody, Tokens, OlderNumbered, [Next]_vars
  PROVE  OlderNumbered'
<1>1. older' \subseteq older \cup {file}
  <2>1. ASSUME NEW r \in Requests, Forward(r) \/ Refresh(r) PROVE older' = older
    BY <2>1 DEF Forward, Attach, Rejected, End, Refresh, MemoHit, TakeLock, ReadAuth, GiveUp,
                Redeem, disk
  <2>2. ASSUME NEW r \in Requests, Persist(r) PROVE older' \subseteq older \cup {file}
    <3>1. CASE Rename(r)
      BY <3>1 DEF Rename, Custody
    <3>. QED
      BY <2>2, <3>1 DEF Persist, ReRead, Create, Write, Sync, Rename, PersistFails, disk, Custody
  <2>3. ASSUME Age \/ Flush \/ Crash \/ Cli \/ UNCHANGED vars PROVE older' \subseteq older \cup {file}
    BY <2>3 DEF Age, Flush, Crash, ProcessEnds, PowerLoss, Cli, CliRead, CliRefused, CliGranted,
                CliWrite, vars, disk
  <2>. QED
    BY <2>1, <2>2, <2>3 DEF Next
<1>2. minted' \in {minted, minted + 1}
  <2>1. ASSUME NEW r \in Requests, Forward(r) \/ Refresh(r) PROVE minted' \in {minted, minted + 1}
    BY <2>1 DEF Forward, Attach, Rejected, End, Refresh, MemoHit, TakeLock, ReadAuth, GiveUp,
                Redeem, authority
  <2>2. ASSUME NEW r \in Requests, Persist(r) PROVE minted' = minted
    BY <2>2 DEF Persist, ReRead, Create, Write, Sync, Rename, PersistFails, Serve, authority
  <2>3. ASSUME Age \/ Flush \/ Crash \/ Cli \/ UNCHANGED vars PROVE minted' \in {minted, minted + 1}
    BY <2>3 DEF Age, Flush, Crash, Cli, CliRead, CliRefused, CliGranted, CliWrite, vars, authority
  <2>. QED
    BY <2>1, <2>2, <2>3 DEF Next
<1>. QED
  BY <1>1, <1>2, Shape DEF OlderNumbered, Custody, Tokens, Numbered, TypeOK, Pairs

-----------------------------------------------------------------------------
(* The invariant, and what follows from it. *)

LEMMA InitIInv == Init => IInv
<1> SUFFICES ASSUME Init PROVE IInv
  OBVIOUS
<1>0. 0 \in Grants /\ MaxGrant \in Nat /\ MaxCrash \in Nat
  BY BoundAssumption DEF Grants
<1>1. Blank \in Pairs /\ Blank \in [at : Grants, rt : Grants \cup {Nothing}]
  BY <1>0 DEF Blank, Pairs
<1>2. TypeOK
  <2>1. /\ file \in Pairs /\ older = {} /\ lost \in BOOLEAN
        /\ valid \subseteq Grants /\ minted \in Grants
        /\ cli \in [doing : {"nothing", "redeeming", "writing"}, pair : Pairs]
    BY <1>0, <1>1 DEF Init
  <2>2. /\ new \in [Requests -> [at : Grants, rt : Grants \cup {Nothing}]]
        /\ doc \in [Requests -> Pairs]
    BY <1>1 DEF Init
  <2>3. /\ pc \in [Requests -> {"idle", "sent", "waiting", "retrying"} \cup Refreshing]
        /\ token \in [Requests -> Grants] /\ retry \in [Requests -> Grants]
        /\ rt \in [Requests -> Grants]
    BY <1>0 DEF Init
  <2>. QED
    BY <1>0, <2>1, <2>2, <2>3 DEF Init, TypeOK
<1>3. Custody
  BY <1>1, RequestAssumption, TornAssumption
  DEF Init, Custody, TempOnlyWhileWritten, NeverTorn, Refreshing, Persisting
<1>4. Counted
  BY DEF Init, Counted, OneGrantPerBurst
<1>5. Tokens
  BY NothingAssumption
  DEF Init, Tokens, Numbered, GatewayPair, CliPair, Honoured, Unspent, OnItsWay, Rotated,
      Persisting, Blank
<1>6. OlderNumbered
  BY DEF Init, OlderNumbered
<1>. QED
  BY <1>2, <1>3, <1>4, <1>5, <1>6 DEF IInv

\* The invariant holds of every reachable state.
LEMMA InductiveInvariant == Spec => []IInv
<1>1. IInv /\ [Next]_vars => IInv'
  BY TypeStep, CustodyStep, CountedStep, TokensStep, OlderStep DEF IInv
<1>. QED
  BY InitIInv, <1>1, PTL DEF Spec

\* Every variable keeps its type.
THEOREM TypeCorrect == Spec => []TypeOK
<1>1. IInv => TypeOK
  BY DEF IInv
<1>. QED
  BY InductiveInvariant, <1>1, PTL

\* A burst of 401s leads to one grant, however many requests wait and however
\* the refresh ends.
THEOREM OneGrant == Spec => []OneGrantPerBurst
<1>1. IInv => OneGrantPerBurst
  BY DEF IInv, Counted
<1>. QED
  BY InductiveInvariant, <1>1, PTL

\* auth.json is never torn, and between refreshes it holds a refresh token the
\* authority honours, unless something `lost` names took the last rotated pair.
THEOREM FileCurrent == Spec => []AuthFileCurrent
<1>1. IInv => AuthFileCurrent
  BY RequestAssumption
  DEF IInv, Custody, NeverTorn, Tokens, Honoured, AuthFileCurrent, OnItsWay, Refreshing
<1>. QED
  BY InductiveInvariant, <1>1, PTL

\* A temp file lies beside auth.json only while the lock's holder writes it.
THEOREM TempCustody == Spec => []TempOnlyWhileWritten
<1>1. IInv => TempOnlyWhileWritten
  BY DEF IInv, Custody
<1>. QED
  BY InductiveInvariant, <1>1, PTL

\* Only read_auth puts a refresh token in a request's hands.
LEMMA OnlyReadAuth ==
  ASSUME TypeOK, [Next]_vars, NEW r \in Requests, pc[r] = "reading", pc'[r] = "redeeming"
  PROVE  ReadAuth(r)
<1>1. ASSUME NEW q \in Requests, Forward(q) PROVE FALSE
  BY <1>1 DEF TypeOK, Forward, Attach, Rejected, End, Goto
<1>2. ASSUME NEW q \in Requests, MemoHit(q) \/ TakeLock(q) \/ GiveUp(q) \/ Redeem(q) PROVE FALSE
  <2>1. \E to \in {"retrying", "reading", "idle", "rereading"} : pc' = [pc EXCEPT ![q] = to]
    BY <1>2 DEF MemoHit, TakeLock, GiveUp, Redeem, Goto
  <2>. QED
    BY <2>1 DEF TypeOK
<1>3. ASSUME NEW q \in Requests, Persist(q) PROVE FALSE
  <2>1. \E to \in Persisting \cup {"retrying"} : pc' = [pc EXCEPT ![q] = to]
    BY <1>3
    DEF Persist, ReRead, Create, Write, Sync, Rename, PersistFails, Serve, Goto, Persisting
  <2>. QED
    BY <2>1 DEF TypeOK, Persisting
<1>4. ASSUME Age \/ Flush \/ Cli \/ UNCHANGED vars PROVE FALSE
  <2>1. UNCHANGED pc
    BY <1>4 DEF Age, Flush, Cli, CliRead, CliRefused, CliGranted, CliWrite, vars, flight
  <2>. QED
    BY <2>1
<1>5. ASSUME Crash PROVE FALSE
  BY <1>5 DEF Crash
<1>6. ASSUME NEW q \in Requests, ReadAuth(q) PROVE q = r
  BY <1>6 DEF TypeOK, ReadAuth, Goto
<1>. QED
  BY <1>1, <1>2, <1>3, <1>4, <1>5, <1>6 DEF Next, Refresh

\* The gateway never presents a refresh token it already had rotated, unless the
\* pair it got for it was lost.
THEOREM NoReplay == Spec => NoRefreshTokenReplayed
<1>1. IInv /\ [Next]_vars =>
        \A r \in Requests :
          pc[r] = "reading" /\ pc'[r] = "redeeming" /\ ~lost => rt'[r] \notin spent
  <2> SUFFICES ASSUME IInv, [Next]_vars, NEW r \in Requests,
                      pc[r] = "reading", pc'[r] = "redeeming", ~lost
               PROVE  rt'[r] \notin spent
    OBVIOUS
  <2>1. TypeOK /\ Custody /\ Unspent
    BY DEF IInv, Tokens
  <2>2. ReadAuth(r)
    BY <2>1, OnlyReadAuth
  <2>3. rt'[r] = file.rt
    BY <2>1, <2>2 DEF TypeOK, ReadAuth
  <2>4. \A q \in Requests : ~OnItsWay(q)
    BY <2>1, Alone DEF OnItsWay, Refreshing, Persisting
  <2>. QED
    BY <2>1, <2>3, <2>4 DEF Unspent
<1>. QED
  BY InductiveInvariant, <1>1, PTL DEF Spec, NoRefreshTokenReplayed

\* No step removes a file that a crashed process left behind.
THEOREM ForeignTempsKept == Spec => ForeignTempKept
<1>1. [Next]_vars => leftovers \subseteq leftovers'
  <2>1. ASSUME NEW r \in Requests, Forward(r) \/ Refresh(r) PROVE leftovers' = leftovers
    BY <2>1 DEF Forward, Attach, Rejected, End, Refresh, MemoHit, TakeLock, ReadAuth, GiveUp,
                Redeem, temps
  <2>2. ASSUME NEW r \in Requests, Persist(r) PROVE leftovers' = leftovers
    BY <2>2 DEF Persist, ReRead, Create, Write, Sync, Rename, PersistFails, CleanUp, temps
  <2>3. ASSUME Age \/ Flush \/ Cli \/ UNCHANGED vars PROVE leftovers' = leftovers
    BY <2>3 DEF Age, Flush, Cli, CliRead, CliRefused, CliGranted, CliWrite, vars, temps
  <2>4. ASSUME Crash PROVE leftovers \subseteq leftovers'
    BY <2>4 DEF Crash, ProcessEnds, PowerLoss
  <2>. QED
    BY <2>1, <2>2, <2>3, <2>4 DEF Next
<1>. QED
  BY <1>1, PTL DEF Spec, ForeignTempKept

-----------------------------------------------------------------------------
(* ChatTranslation. *)
-----------------------------------------------------------------------------
(* Sequences of sequences. *)

\* A set of numbers that is not empty has a least one.
LEMMA Least == ASSUME NEW N \in SUBSET Nat, N # {} PROVE \E m \in N : \A n \in N : m <= n
<1> DEFINE R == OpToRel(<, Nat)
<1>1. IsWellFoundedOn(R, Nat)
  BY NatLessThanWellFounded, Zenon
<1> HIDE DEF R
<1>2. PICK m \in N : \A n \in N : ~(<<n, m>> \in R)
  BY <1>1, WFMin, Zenon
<1>3. R = {ss \in Nat \X Nat : ss[1] < ss[2]}
  BY DEF R, OpToRel
<1>4. ASSUME NEW n \in N PROVE m <= n
  <2>1. <<n, m>> \in Nat \X Nat /\ <<n, m>>[1] = n /\ <<n, m>>[2] = m
    OBVIOUS
  <2> QED BY <1>2, <1>3, <2>1
<1> QED BY <1>4

\* sums[k] are the first k sequences of ss, one behind the other.
Sums(S, ss, sums) ==
  /\ sums \in [0 .. Len(ss) -> Seq(S)] /\ sums[0] = <<>>
  /\ \A k \in 1 .. Len(ss) : sums[k] = sums[k - 1] \o ss[k]

\* There are sums for every sequence of sequences.
LEMMA SumsExist == ASSUME NEW S, NEW ss \in Seq(Seq(S)) PROVE \E sums : Sums(S, ss, sums)
<1>1. PICK n : n = Len(ss)
  OBVIOUS
<1>2. n \in Nat /\ \A k \in 1 .. n : ss[k] \in Seq(S)
  BY <1>1
<1> DEFINE Upto(k, sums) ==
      /\ sums \in [0 .. k -> Seq(S)] /\ sums[0] = <<>>
      /\ \A j \in 1 .. k : sums[j] = sums[j - 1] \o ss[j]
           N == {k \in 0 .. n : ~\E sums : Upto(k, sums)}
<1>3. Upto(0, [j \in 0 .. 0 |-> <<>>])
  <2>1. [j \in 0 .. 0 |-> <<>>] \in [0 .. 0 -> Seq(S)]
    OBVIOUS
  <2> QED BY <2>1
<1>4. ASSUME NEW k \in 1 .. n, NEW sums, Upto(k - 1, sums) PROVE \E next : Upto(k, next)
  <2> DEFINE next == [j \in 0 .. k |-> IF j = k THEN sums[k - 1] \o ss[k] ELSE sums[j]]
  <2>1. k \in Nat /\ k \in 0 .. k /\ k - 1 \in 0 .. k - 1 /\ \A j \in 0 .. k : j = k \/ j \in 0 .. k - 1
    BY <1>2
  <2>2. sums[k - 1] \o ss[k] \in Seq(S)
    <3>1. sums[k - 1] \in Seq(S) /\ ss[k] \in Seq(S)
      BY <1>2, <1>4, <2>1
    <3> QED BY <3>1
  <2>3. \A j \in 0 .. k - 1 : j # k /\ j \in 0 .. k /\ next[j] = sums[j]
    BY <2>1
  <2>4. next \in [0 .. k -> Seq(S)]
    BY <1>4, <2>1, <2>2
  <2>5. 0 \in 0 .. k - 1 /\ next[0] = <<>>
    BY <1>4, <2>1, <2>3
  <2>6. ASSUME NEW j \in 1 .. k PROVE next[j] = next[j - 1] \o ss[j]
    <3>1. j - 1 \in 0 .. k - 1
      BY <2>1
    <3>2. next[j - 1] = sums[j - 1]
      BY <2>3, <3>1
    <3>3. CASE j = k
      <4>1. next[k] = sums[k - 1] \o ss[k]
        BY <2>1
      <4> HIDE DEF next
      <4> QED BY <2>3, <3>1, <3>3, <4>1
    <3>4. CASE j # k
      <4>1. j \in 1 .. k - 1 /\ j \in 0 .. k - 1
        BY <2>1, <3>4
      <4>2. next[j] = sums[j] /\ sums[j] = sums[j - 1] \o ss[j]
        BY <1>4, <2>3, <4>1
      <4> QED BY <3>2, <4>2
    <3> QED BY <3>3, <3>4
  <2> HIDE DEF next
  <2> QED BY <2>4, <2>5, <2>6
<1> HIDE DEF Upto
<1>5. N = {}
  <2> SUFFICES ASSUME N # {} PROVE FALSE
    OBVIOUS
  <2>1. N \in SUBSET Nat
    BY <1>2
  <2>2. PICK k \in N : \A j \in N : k <= j
    <3> HIDE DEF N
    <3> QED BY <2>1, Least
  <2>3. k # 0
    BY <1>3
  <2>4. k - 1 \in 0 .. n /\ ~(k <= k - 1) /\ k \in 1 .. n
    BY <1>2, <2>3
  <2>5. PICK sums : Upto(k - 1, sums)
    BY <2>2, <2>4
  <2> QED BY <1>4, <2>4, <2>5
<1>6. PICK sums : Upto(n, sums)
  <2>1. n \in 0 .. n
    BY <1>2
  <2> QED BY <1>5, <2>1
<1> QED BY <1>1, <1>6 DEF Upto, Sums

\* FlattenSeq is the last of them.
LEMMA SumsFlatten ==
  ASSUME NEW S, NEW ss \in Seq(Seq(S)), NEW sums, Sums(S, ss, sums)
  PROVE  FlattenSeq(ss) = sums[Len(ss)] /\ FlattenSeq(ss) \in Seq(S)
<1>1. PICK n : n = Len(ss)
  OBVIOUS
<1>2. n \in Nat /\ \A k \in 1 .. n : ss[k] \in Seq(S)
  BY <1>1
<1>3. CASE n = 0
  <2>1. ss = <<>>
    <3>1. ss # <<>> => Len(ss) \in Nat \ {0}
      BY EmptySeq
    <3> QED BY <1>1, <1>3, <3>1
  <2>2. FlattenSeq(ss) = ss
    BY <1>1, <1>3, Zenon DEF FlattenSeq
  <2>3. sums[0] = <<>> /\ <<>> \in Seq(S)
    BY DEF Sums
  <2> QED BY <1>1, <1>3, <2>1, <2>2, <2>3
<1>4. CASE n # 0
  <2> DEFINE f == [i \in 1 .. n |-> sums[i]]
  <2>1. \A k \in 1 .. n : sums[k] \in Seq(S) /\ sums[k] = sums[k - 1] \o ss[k]
    <3>1. sums \in [0 .. n -> Seq(S)] /\ \A k \in 1 .. n : sums[k] = sums[k - 1] \o ss[k]
      BY <1>1 DEF Sums
    <3>2. \A k \in 1 .. n : k \in 0 .. n
      BY <1>2
    <3> QED BY <3>1, <3>2
  <2>2. sums[1] = ss[1]
    <3>1. sums[1] = <<>> \o ss[1] /\ ss[1] \in Seq(S)
      <4>1. 1 \in 1 .. n /\ 1 - 1 = 0
        BY <1>2, <1>4
      <4> QED BY <1>2, <2>1, <4>1 DEF Sums
    <3> QED BY <3>1
  <2>3. f = [i \in 1 .. n |-> IF i = 1 THEN ss[i] ELSE f[i - 1] \o ss[i]]
    <3>1. ASSUME NEW i \in 1 .. n PROVE f[i] = IF i = 1 THEN ss[i] ELSE f[i - 1] \o ss[i]
      <4>1. CASE i = 1
        BY <2>2, <4>1
      <4>2. CASE i # 1
        <5>1. i - 1 \in 1 .. n
          BY <1>2, <4>2
        <5> QED BY <2>1, <4>2, <5>1
      <4> QED BY <4>1, <4>2
    <3> QED BY <3>1
  <2>4. PICK g : /\ g = [i \in 1 .. n |-> IF i = 1 THEN ss[i] ELSE g[i - 1] \o ss[i]]
                 /\ FlattenSeq(ss) = g[n]
    <3> HIDE DEF f
    <3> QED BY <1>1, <1>4, <2>3, Zenon DEF FlattenSeq
  <2> DEFINE D == {k \in 1 .. n : g[k] # sums[k]}
  <2>5. D = {}
    <3> SUFFICES ASSUME D # {} PROVE FALSE
      OBVIOUS
    <3>1. D \in SUBSET Nat
      BY <1>2
    <3>2. PICK k \in D : \A j \in D : k <= j
      <4> HIDE DEF D
      <4> QED BY <3>1, Least
    <3>3. k \in 1 .. n /\ g[k] = IF k = 1 THEN ss[k] ELSE g[k - 1] \o ss[k]
      BY <2>4
    <3>4. k # 1
      BY <2>2, <3>3
    <3>5. k - 1 \in 1 .. n /\ ~(k <= k - 1)
      BY <1>2, <3>3, <3>4
    <3>6. g[k - 1] = sums[k - 1]
      BY <3>2, <3>5
    <3> QED BY <2>1, <3>3, <3>4, <3>6
  <2>6. n \in 1 .. n
    BY <1>2, <1>4
  <2>7. g[n] = sums[n]
    BY <2>5, <2>6
  <2> HIDE DEF f, D
  <2>8. FlattenSeq(ss) = sums[n] /\ sums[n] \in Seq(S)
    BY <2>1, <2>4, <2>6, <2>7, Zenon
  <2> QED BY <1>1, <2>8, Zenon
<1> QED BY <1>3, <1>4

\* tt is ss with one more sequence t behind it.
Extended(ss, t, tt) == tt = [i \in 1 .. Len(ss) + 1 |-> IF i = Len(ss) + 1 THEN t ELSE ss[i]]

\* It goes behind what the others make.
LEMMA FlattenAppend ==
  ASSUME NEW S, NEW ss \in Seq(Seq(S)), NEW t \in Seq(S), NEW tt, Extended(ss, t, tt)
  PROVE  FlattenSeq(tt) = FlattenSeq(ss) \o t /\ FlattenSeq(ss) \in Seq(S) /\ FlattenSeq(tt) \in Seq(S)
<1>0. PICK n : n = Len(ss)
  OBVIOUS
<1>1. n \in Nat /\ n + 1 \in Nat /\ \A i \in 1 .. n : i # n + 1 /\ i \in 1 .. n + 1
  BY <1>0
<1>2. tt \in Seq(Seq(S)) /\ Len(tt) = n + 1 /\ tt[n + 1] = t /\ \A i \in 1 .. n : tt[i] = ss[i]
  <2>1. tt = [i \in 1 .. n + 1 |-> IF i = n + 1 THEN t ELSE ss[i]] /\ \A i \in 1 .. n : ss[i] \in Seq(S)
    BY <1>0 DEF Extended
  <2> HIDE DEF Extended
  <2> QED BY <1>1, <2>1
<1>3. PICK sums : Sums(S, tt, sums)
  BY <1>2, SumsExist
<1>4. PICK less : less = [k \in 0 .. n |-> sums[k]]
  OBVIOUS
<1>5. sums \in [0 .. n + 1 -> Seq(S)] /\ sums[0] = <<>> /\ \A k \in 1 .. n + 1 : sums[k] = sums[k - 1] \o tt[k]
  BY <1>2, <1>3 DEF Sums
<1>6. Sums(S, ss, less)
  <2>1. less \in [0 .. n -> Seq(S)] /\ less[0] = <<>>
    BY <1>1, <1>4, <1>5
  <2>2. ASSUME NEW k \in 1 .. n PROVE less[k] = less[k - 1] \o ss[k]
    <3>1. k \in 0 .. n /\ k - 1 \in 0 .. n /\ k \in 1 .. n + 1
      BY <1>1
    <3> QED BY <1>2, <1>4, <1>5, <3>1
  <2> QED BY <1>0, <2>1, <2>2 DEF Sums
<1>7. FlattenSeq(ss) = sums[n] /\ FlattenSeq(ss) \in Seq(S)
  <2>1. FlattenSeq(ss) = less[Len(ss)] /\ FlattenSeq(ss) \in Seq(S)
    BY <1>6, SumsFlatten
  <2>2. n \in 0 .. n
    BY <1>1
  <2> QED BY <1>0, <1>4, <2>1, <2>2
<1>8. FlattenSeq(tt) = sums[n + 1] /\ FlattenSeq(tt) \in Seq(S)
  <2>1. FlattenSeq(tt) = sums[Len(tt)] /\ FlattenSeq(tt) \in Seq(S)
    BY <1>2, <1>3, SumsFlatten
  <2> QED BY <1>2, <2>1
<1>9. sums[n + 1] = sums[n] \o t
  <2>1. n + 1 \in 1 .. n + 1 /\ (n + 1) - 1 = n
    BY <1>1
  <2> QED BY <1>2, <1>5, <2>1
<1> QED BY <1>7, <1>8, <1>9

-----------------------------------------------------------------------------
(* What is carried by events and by frames. *)

Bodies == Seq(Int)
Events ==
  [kind : Deltas \cup Announcing \cup {"item"} \cup Terminal, call : Calls \cup {NoCall}, body : Bodies]
Ending == {"stop", "tool_calls", "error"}
FrameTypes == {"role", "content", "call", "arguments", "[DONE]"} \cup Ending
FrameSet == [type : FrameTypes, call : Calls \cup {NoCall}, index : Nat, body : Bodies]

\* What the deltas of one item among the events w say.
BodyOf(w, kind, c) ==
  FlattenSeq([i \in DOMAIN w |-> IF w[i].kind = kind /\ w[i].call = c THEN w[i].body ELSE <<>>])

\* What the frames f of a type and an index say.
Carried(f, type, index) ==
  FlattenSeq([i \in DOMAIN f |-> IF f[i].type = type /\ f[i].index = index THEN f[i].body ELSE <<>>])

\* g is f with x behind it.
Longer(f, x, g) ==
  /\ Len(f) \in Nat /\ Len(g) = Len(f) + 1
  /\ DOMAIN f = 1 .. Len(f) /\ DOMAIN g = 1 .. Len(f) + 1
  /\ g[Len(f) + 1] = x /\ \A i \in 1 .. Len(f) : g[i] = f[i]
  /\ \A i \in 1 .. Len(f) + 1 : i = Len(f) + 1 \/ i \in 1 .. Len(f)

\* Append makes a sequence longer.
LEMMA AppendLonger ==
  ASSUME NEW S, NEW f \in Seq(S), NEW x \in S
  PROVE  Append(f, x) \in Seq(S) /\ Longer(f, x, Append(f, x))
<1>1. PICK n, g : n = Len(f) /\ g = Append(f, x)
  OBVIOUS
<1>2. n \in Nat /\ DOMAIN f = 1 .. n
  BY <1>1
<1>3. g \in Seq(S) /\ Len(g) = n + 1 /\ g[n + 1] = x /\ \A i \in 1 .. n : g[i] = f[i]
  BY <1>1, <1>2
<1>4. DOMAIN g = 1 .. n + 1
  BY <1>3, LenProperties
<1> QED BY <1>1, <1>2, <1>3, <1>4 DEF Longer

\* One more event adds its body to the item it is about.
LEMMA BodyAppend ==
  ASSUME NEW w \in Seq(Events), NEW e \in Events, NEW kind, NEW c
  PROVE  /\ BodyOf(w, kind, c) \in Seq(Int)
         /\ BodyOf(Append(w, e), kind, c) =
              IF e.kind = kind /\ e.call = c THEN BodyOf(w, kind, c) \o e.body ELSE BodyOf(w, kind, c)
<1>1. PICK n, v : n = Len(w) /\ v = Append(w, e)
  OBVIOUS
<1>2. n \in Nat /\ DOMAIN w = 1 .. n /\ DOMAIN v = 1 .. n + 1 /\ v[n + 1] = e /\ \A i \in 1 .. n : v[i] = w[i]
  BY <1>1, AppendLonger DEF Longer
<1> DEFINE part(d) == IF d.kind = kind /\ d.call = c THEN d.body ELSE <<>>
           ss == [i \in 1 .. n |-> part(w[i])]
           tt == [i \in 1 .. n + 1 |-> part(v[i])]
<1>3. \A d \in Events : part(d) \in Seq(Int)
  BY DEF Events, Bodies
<1>4. \A i \in 1 .. n : w[i] \in Events
  BY <1>1, <1>2
<1> HIDE DEF part
<1>5. ss \in Seq(Seq(Int)) /\ n = Len(ss)
  <2>1. \A i \in 1 .. n : part(w[i]) \in Seq(Int)
    BY <1>3, <1>4
  <2>2. ss \in [1 .. n -> Seq(Int)]
    BY <2>1, Zenon
  <2>3. n \in Nat
    BY <1>2
  <2> HIDE DEF ss
  <2> QED BY <2>2, <2>3
<1>6. Extended(ss, part(e), tt)
  <2>1. \A i \in 1 .. n + 1 : part(v[i]) = IF i = n + 1 THEN part(e) ELSE ss[i]
    BY <1>2
  <2> QED BY <1>5, <2>1 DEF Extended
<1>7. part(e) \in Seq(Int)
  BY <1>3
<1> HIDE DEF ss, tt
<1>8. FlattenSeq(tt) = FlattenSeq(ss) \o part(e) /\ FlattenSeq(ss) \in Seq(Int)
  BY <1>5, <1>6, <1>7, FlattenAppend, Zenon
<1>9. BodyOf(w, kind, c) = FlattenSeq(ss) /\ BodyOf(v, kind, c) = FlattenSeq(tt)
  BY <1>2, Zenon DEF BodyOf, ss, tt, part
<1>10. CASE e.kind = kind /\ e.call = c
  BY <1>1, <1>8, <1>9, <1>10 DEF part
<1>11. CASE ~(e.kind = kind /\ e.call = c)
  <2>1. part(e) = <<>>
    BY <1>11 DEF part
  <2> QED BY <1>1, <1>8, <1>9, <1>11, <2>1, ConcatEmptySeq
<1> QED BY <1>10, <1>11

\* So does one more frame.
LEMMA CarriedAppend ==
  ASSUME NEW f \in Seq(FrameSet), NEW x \in FrameSet, NEW type, NEW index
  PROVE  /\ Carried(f, type, index) \in Bodies
         /\ Carried(Append(f, x), type, index) =
              IF x.type = type /\ x.index = index THEN Carried(f, type, index) \o x.body
              ELSE Carried(f, type, index)
<1>1. PICK n, g : n = Len(f) /\ g = Append(f, x)
  OBVIOUS
<1>2. n \in Nat /\ DOMAIN f = 1 .. n /\ DOMAIN g = 1 .. n + 1 /\ g[n + 1] = x /\ \A i \in 1 .. n : g[i] = f[i]
  BY <1>1, AppendLonger DEF Longer
<1> DEFINE part(d) == IF d.type = type /\ d.index = index THEN d.body ELSE <<>>
           ss == [i \in 1 .. n |-> part(f[i])]
           tt == [i \in 1 .. n + 1 |-> part(g[i])]
<1>3. \A d \in FrameSet : part(d) \in Seq(Int)
  BY DEF FrameSet, Bodies
<1>4. \A i \in 1 .. n : f[i] \in FrameSet
  BY <1>1, <1>2
<1> HIDE DEF part
<1>5. ss \in Seq(Seq(Int)) /\ n = Len(ss)
  <2>1. \A i \in 1 .. n : part(f[i]) \in Seq(Int)
    BY <1>3, <1>4
  <2>2. ss \in [1 .. n -> Seq(Int)]
    BY <2>1, Zenon
  <2>3. n \in Nat
    BY <1>2
  <2> HIDE DEF ss
  <2> QED BY <2>2, <2>3
<1>6. Extended(ss, part(x), tt)
  <2>1. \A i \in 1 .. n + 1 : part(g[i]) = IF i = n + 1 THEN part(x) ELSE ss[i]
    BY <1>2
  <2> QED BY <1>5, <2>1 DEF Extended
<1>7. part(x) \in Seq(Int)
  BY <1>3
<1> HIDE DEF ss, tt
<1>8. FlattenSeq(tt) = FlattenSeq(ss) \o part(x) /\ FlattenSeq(ss) \in Seq(Int)
  BY <1>5, <1>6, <1>7, FlattenAppend, Zenon
<1>9. Carried(f, type, index) = FlattenSeq(ss) /\ Carried(g, type, index) = FlattenSeq(tt)
  BY <1>2, Zenon DEF Carried, ss, tt, part
<1>10. CASE x.type = type /\ x.index = index
  BY <1>1, <1>8, <1>9, <1>10 DEF part, Bodies
<1>11. CASE ~(x.type = type /\ x.index = index)
  <2>1. part(x) = <<>>
    BY <1>11 DEF part
  <2> QED BY <1>1, <1>8, <1>9, <1>11, <2>1, ConcatEmptySeq DEF Bodies
<1> QED BY <1>10, <1>11

\* Nothing is carried by frames of none.
LEMMA CarriedNothing ==
  ASSUME NEW f \in Seq(FrameSet), NEW type, NEW index, \A i \in DOMAIN f : ~(f[i].type = type /\ f[i].index = index)
  PROVE  Carried(f, type, index) = <<>>
<1>1. PICK n : n = Len(f)
  OBVIOUS
<1>2. n \in Nat /\ DOMAIN f = 1 .. n
  BY <1>1
<1>3. PICK ss : ss = [i \in 1 .. n |-> <<>>]
  OBVIOUS
<1>4. Carried(f, type, index) = FlattenSeq(ss)
  <2>1. [i \in DOMAIN f |-> IF f[i].type = type /\ f[i].index = index THEN f[i].body ELSE <<>>] = ss
    BY <1>2, <1>3
  <2> QED BY <2>1 DEF Carried
<1>5. ss \in Seq(Seq(Int)) /\ Len(ss) = n /\ \A k \in 1 .. n : ss[k] = <<>>
  BY <1>2, <1>3
<1>6. Sums(Int, ss, [k \in 0 .. n |-> <<>>])
  <2>1. [k \in 0 .. n |-> <<>>] \in [0 .. n -> Seq(Int)]
    OBVIOUS
  <2>2. \A k \in 1 .. n : k \in 0 .. n /\ k - 1 \in 0 .. n
    BY <1>2
  <2>3. <<>> = <<>> \o <<>>
    BY ConcatEmptySeq, EmptySeq
  <2>4. 0 \in 0 .. n
    BY <1>2
  <2> QED BY <1>5, <2>1, <2>2, <2>3, <2>4 DEF Sums
<1>7. FlattenSeq(ss) = [k \in 0 .. n |-> <<>>][n] /\ n \in 0 .. n
  BY <1>2, <1>5, <1>6, SumsFlatten
<1> QED BY <1>4, <1>7

\* A body in which the deltas sp have a character replaced.
Put(sp, body) == [i \in DOMAIN body |-> IF body[i] \in sp THEN 0 - body[i] ELSE body[i]]

\* The characters are replaced piece by piece.
LEMMA PutConcat ==
  ASSUME NEW sp, NEW s \in Bodies, NEW t \in Bodies
  PROVE  Put(sp, s) \in Bodies /\ Put(sp, s \o t) = Put(sp, s) \o Put(sp, t)
<1>1. PICK m, n : m = Len(s) /\ n = Len(t)
  OBVIOUS
<1>2. m \in Nat /\ n \in Nat
  BY <1>1 DEF Bodies
<1> DEFINE put(x) == IF x \in sp THEN 0 - x ELSE x
<1>3. \A x \in Int : put(x) \in Int
  OBVIOUS
<1> HIDE DEF put
<1>4. \A u \in Bodies : Put(sp, u) \in Bodies /\ Len(Put(sp, u)) = Len(u) /\ \A i \in 1 .. Len(u) : Put(sp, u)[i] = put(u[i])
  <2> TAKE u \in Bodies
  <2>1. PICK k : k = Len(u)
    OBVIOUS
  <2>2. k \in Nat /\ DOMAIN u = 1 .. k /\ \A i \in 1 .. k : u[i] \in Int
    BY <2>1 DEF Bodies
  <2>3. Put(sp, u) = [i \in 1 .. k |-> put(u[i])]
    BY <2>2 DEF Put, put
  <2>4. \A i \in 1 .. k : put(u[i]) \in Int
    BY <1>3, <2>2
  <2> QED BY <2>1, <2>2, <2>3, <2>4 DEF Bodies
<1>5. PICK a, b, u : a = Put(sp, s) /\ b = Put(sp, t) /\ u = s \o t
  OBVIOUS
<1>6. u \in Bodies /\ Len(u) = m + n /\ \A i \in 1 .. m + n : u[i] = IF i <= m THEN s[i] ELSE t[i - m]
  BY <1>1, <1>5, ConcatProperties DEF Bodies
<1>7. /\ a \in Bodies /\ Len(a) = m /\ \A i \in 1 .. m : a[i] = put(s[i])
      /\ b \in Bodies /\ Len(b) = n /\ \A i \in 1 .. n : b[i] = put(t[i])
  BY <1>1, <1>4, <1>5
<1>8. a \o b \in Bodies /\ Len(a \o b) = m + n /\ \A i \in 1 .. m + n : (a \o b)[i] = IF i <= m THEN a[i] ELSE b[i - m]
  <2>1. a \in Seq(Int) /\ b \in Seq(Int) /\ Len(a) = m /\ Len(b) = n
    BY <1>7 DEF Bodies
  <2> QED BY <2>1, ConcatProperties DEF Bodies
<1>9. Put(sp, u) \in Bodies /\ Len(Put(sp, u)) = m + n /\ \A i \in 1 .. m + n : Put(sp, u)[i] = put(u[i])
  BY <1>4, <1>6
<1>10. \A i \in 1 .. m + n : Put(sp, u)[i] = (a \o b)[i]
  <2> TAKE i \in 1 .. m + n
  <2>1. CASE i <= m
    <3>1. i \in 1 .. m
      BY <1>2, <2>1
    <3>2. u[i] = s[i] /\ (a \o b)[i] = a[i]
      BY <1>6, <1>8, <2>1
    <3>3. Put(sp, u)[i] = put(u[i]) /\ a[i] = put(s[i])
      BY <1>7, <1>9, <3>1
    <3> QED BY <3>2, <3>3
  <2>2. CASE ~(i <= m)
    <3>1. i - m \in 1 .. n
      BY <1>2, <2>2
    <3>2. u[i] = t[i - m] /\ (a \o b)[i] = b[i - m]
      BY <1>6, <1>8, <2>2
    <3>3. Put(sp, u)[i] = put(u[i]) /\ b[i - m] = put(t[i - m])
      BY <1>7, <1>9, <3>1
    <3> QED BY <3>2, <3>3
  <2> QED BY <2>1, <2>2
<1>11. Put(sp, u) = a \o b
  BY <1>8, <1>9, <1>10, SeqEqual DEF Bodies
<1> QED BY <1>5, <1>7, <1>11

-----------------------------------------------------------------------------
(* What the translator knows of the events it got. *)

\* Event e may come after the events w.
Fits(w, e) ==
  /\ e \in Events
  /\ e.kind \in Announcing => e.call \in Calls /\ \A i \in DOMAIN w : ~(w[i].kind = "added" /\ w[i].call = e.call)
  /\ e.kind = "args" => \E i \in DOMAIN w : w[i].kind = "added" /\ w[i].call = e.call
  /\ e.kind = "text" => e.call = NoCall

\* The indices handed out are those of the calls announced, and the frames use
\* no others.
Indexed(w, tr, f) ==
  /\ \A j, k \in DOMAIN tr.index : tr.index[j] = tr.index[k] => j = k
  /\ \A k \in DOMAIN tr.index : \E i \in DOMAIN w : w[i].kind = "added" /\ w[i].call = tr.index[k]
  /\ \A i \in DOMAIN w :
       w[i].kind \in {"added", "args"} => \E k \in DOMAIN tr.index : tr.index[k] = w[i].call
  /\ \A i \in DOMAIN f :
       /\ f[i].type \in {"call", "arguments"} => f[i].index \in DOMAIN tr.index
       /\ f[i].type = "call" => tr.index[f[i].index] = f[i].call
  /\ \A k \in DOMAIN tr.index : \E i \in DOMAIN f : f[i].type = "call" /\ f[i].index = k

\* The frames carry what the events said.
Carries(w, tr, f) ==
  /\ Carried(f, "content", 0) = BodyOf(w, "text", NoCall)
  /\ \A k \in DOMAIN tr.index : Carried(f, "arguments", k) = BodyOf(w, "args", tr.index[k])

Has(w, kinds) == \E i \in DOMAIN w : w[i].kind \in kinds

\* Nothing is behind a final event.
Lasting(w) == \A i \in DOMAIN w : w[i].kind \in Final => i = Len(w)

\* A final event has a terminal chunk, of which none but the first is normal; when
\* nothing is behind the event, nothing is behind the chunk.
Ended(w, tr, f) ==
  /\ \A i \in DOMAIN f : f[i].type # "[DONE]"
  /\ tr.finished = TRUE <=> Has(w, Final)
  /\ Has(w, Final) <=> \E i \in DOMAIN f : f[i].type \in Ending
  /\ \A i, j \in DOMAIN f : i < j /\ f[i].type \in Ending => f[j].type \notin Normal
  /\ Lasting(w) => \A i \in DOMAIN f : f[i].type \in Ending => i = Len(f)
  /\ Lasting(w) /\ Has(w, {"completed"}) =>
       f[Len(f)].type = IF tr.index # <<>> THEN "tool_calls" ELSE "stop"

Translators == [role_sent : BOOLEAN, index : Seq(Calls), finished : BOOLEAN]

Streamed(w, tr, f) ==
  /\ w \in Seq(Events) /\ tr \in Translators /\ f \in Seq(FrameSet)
  /\ Indexed(w, tr, f) /\ Carries(w, tr, f) /\ Ended(w, tr, f)
  /\ ~tr.role_sent => ~Has(w, Final)

\* Nothing is said by events of none.
LEMMA BodyNothing ==
  ASSUME NEW w \in Seq(Events), NEW kind, NEW c, \A i \in DOMAIN w : ~(w[i].kind = kind /\ w[i].call = c)
  PROVE  BodyOf(w, kind, c) = <<>>
<1>1. PICK n : n = Len(w)
  OBVIOUS
<1>2. n \in Nat /\ DOMAIN w = 1 .. n
  BY <1>1
<1>3. PICK ss : ss = [i \in 1 .. n |-> <<>>]
  OBVIOUS
<1>4. BodyOf(w, kind, c) = FlattenSeq(ss)
  <2>1. [i \in DOMAIN w |-> IF w[i].kind = kind /\ w[i].call = c THEN w[i].body ELSE <<>>] = ss
    BY <1>2, <1>3
  <2> QED BY <2>1 DEF BodyOf
<1>5. ss \in Seq(Seq(Int)) /\ Len(ss) = n /\ \A k \in 1 .. n : ss[k] = <<>>
  BY <1>2, <1>3
<1>6. Sums(Int, ss, [k \in 0 .. n |-> <<>>])
  <2>1. [k \in 0 .. n |-> <<>>] \in [0 .. n -> Seq(Int)]
    OBVIOUS
  <2>2. \A k \in 1 .. n : k \in 0 .. n /\ k - 1 \in 0 .. n
    BY <1>2
  <2>3. <<>> = <<>> \o <<>>
    BY ConcatEmptySeq, EmptySeq
  <2>4. 0 \in 0 .. n
    BY <1>2
  <2> QED BY <1>5, <2>1, <2>2, <2>3, <2>4 DEF Sums
<1>7. FlattenSeq(ss) = [k \in 0 .. n |-> <<>>][n] /\ n \in 0 .. n
  BY <1>2, <1>5, <1>6, SumsFlatten
<1> QED BY <1>4, <1>7

\* A frame that is neither content nor about a call changes nothing told.
LEMMA TellsNothing ==
  ASSUME NEW w, NEW tr, NEW f, Streamed(w, tr, f), NEW x \in FrameSet,
         x.type \notin {"content", "call", "arguments"}
  PROVE  Indexed(w, tr, Append(f, x)) /\ Carries(w, tr, Append(f, x))
<1>1. PICK g, n : g = Append(f, x) /\ n = Len(f)
  OBVIOUS
<1>2. /\ n \in Nat /\ DOMAIN f = 1 .. n /\ DOMAIN g = 1 .. n + 1 /\ g[n + 1] = x
      /\ \A i \in 1 .. n : g[i] = f[i] /\ i \in 1 .. n + 1
      /\ \A i \in 1 .. n + 1 : i = n + 1 \/ i \in 1 .. n
  BY <1>1, AppendLonger DEF Longer, Streamed
<1>3. Indexed(w, tr, g)
  <2>1. \A i \in DOMAIN g :
       /\ g[i].type \in {"call", "arguments"} => g[i].index \in DOMAIN tr.index
       /\ g[i].type = "call" => tr.index[g[i].index] = g[i].call
    BY <1>2 DEF Streamed, Indexed
  <2>2. \A k \in DOMAIN tr.index : \E i \in DOMAIN g : g[i].type = "call" /\ g[i].index = k
    BY <1>2 DEF Streamed, Indexed
  <2> QED BY <2>1, <2>2 DEF Streamed, Indexed
<1>4. Carries(w, tr, g)
  <2>1. \A k : Carried(g, "arguments", k) = Carried(f, "arguments", k)
    BY <1>1, CarriedAppend DEF Streamed
  <2>2. Carried(g, "content", 0) = Carried(f, "content", 0)
    BY <1>1, CarriedAppend DEF Streamed
  <2> QED BY <2>1, <2>2 DEF Streamed, Carries
<1> QED BY <1>1, <1>3, <1>4

\* An event that says nothing and announces nothing changes nothing told.
LEMMA Heard ==
  ASSUME NEW w \in Seq(Events), NEW tr, NEW f, Indexed(w, tr, f), Carries(w, tr, f), NEW e \in Events,
         e.kind \notin {"added", "args", "text"}
  PROVE  Indexed(Append(w, e), tr, f) /\ Carries(Append(w, e), tr, f)
<1>1. PICK v, n : v = Append(w, e) /\ n = Len(w)
  OBVIOUS
<1>2. /\ n \in Nat /\ DOMAIN w = 1 .. n /\ DOMAIN v = 1 .. n + 1 /\ v[n + 1] = e
      /\ \A i \in 1 .. n : v[i] = w[i] /\ i \in 1 .. n + 1
      /\ \A i \in 1 .. n + 1 : i = n + 1 \/ i \in 1 .. n
  BY <1>1, AppendLonger DEF Longer
<1>3. Indexed(v, tr, f)
  <2>1. \A k \in DOMAIN tr.index : \E i \in DOMAIN v : v[i].kind = "added" /\ v[i].call = tr.index[k]
    BY <1>2 DEF Indexed
  <2>2. \A i \in DOMAIN v :
       v[i].kind \in {"added", "args"} => \E k \in DOMAIN tr.index : tr.index[k] = v[i].call
    BY <1>2 DEF Indexed
  <2> QED BY <2>1, <2>2 DEF Indexed
<1>4. Carries(v, tr, f)
  <2>1. \A c : BodyOf(v, "args", c) = BodyOf(w, "args", c) /\ BodyOf(v, "text", c) = BodyOf(w, "text", c)
    BY <1>1, BodyAppend
  <2> QED BY <2>1 DEF Carries
<1> QED BY <1>1, <1>3, <1>4

\* The role chunk.
LEMMA RolePushed ==
  ASSUME NEW w, NEW tr, NEW f, Streamed(w, tr, f)
  PROVE  Streamed(w, [tr EXCEPT !.role_sent = TRUE], f \o (IF tr.role_sent THEN <<>> ELSE <<Plain("role")>>))
<1>1. PICK t : t = [tr EXCEPT !.role_sent = TRUE]
  OBVIOUS
<1>2. t \in Translators /\ t.index = tr.index /\ t.finished = tr.finished /\ t.role_sent
  BY <1>1 DEF Streamed, Translators
<1>3. Indexed(w, t, f) /\ Carries(w, t, f) /\ Ended(w, t, f)
  <2>1. Indexed(w, t, f) <=> Indexed(w, tr, f)
    BY <1>2 DEF Indexed
  <2>2. Carries(w, t, f) <=> Carries(w, tr, f)
    BY <1>2 DEF Carries
  <2>3. Ended(w, t, f) <=> Ended(w, tr, f)
    BY <1>2 DEF Ended
  <2> QED BY <2>1, <2>2, <2>3 DEF Streamed
<1>4. Streamed(w, t, f)
  BY <1>2, <1>3 DEF Streamed
<1>5. CASE tr.role_sent
  <2>1. f \o <<>> = f
    BY ConcatEmptySeq DEF Streamed
  <2> QED BY <1>1, <1>4, <1>5, <2>1
<1>6. CASE ~tr.role_sent
  <2>1. PICK x, g : x = Plain("role") /\ g = Append(f, x)
    OBVIOUS
  <2>2. x \in FrameSet /\ x.type = "role"
    BY <2>1, EmptySeq DEF Plain, Chunk, FrameSet, FrameTypes, Ending, Bodies
  <2>3. g \in Seq(FrameSet) /\ g = f \o <<x>>
    BY <2>1, <2>2, AppendProperties, AppendIsConcat DEF Streamed
  <2>4. Indexed(w, t, g) /\ Carries(w, t, g)
    BY <1>4, <2>1, <2>2, TellsNothing
  <2>5. Ended(w, t, g)
    <3>1. PICK n : n = Len(f)
      OBVIOUS
    <3>2. /\ n \in Nat /\ DOMAIN f = 1 .. n /\ DOMAIN g = 1 .. n + 1 /\ g[n + 1] = x
          /\ \A i \in 1 .. n : g[i] = f[i] /\ i \in 1 .. n + 1
          /\ \A i \in 1 .. n + 1 : i = n + 1 \/ i \in 1 .. n
      BY <2>1, <2>2, <3>1, AppendLonger DEF Longer, Streamed
    <3>3. ~Has(w, Final)
      BY <1>6 DEF Streamed
    <3>4. \A i \in DOMAIN g : g[i].type # "[DONE]" /\ g[i].type \notin Ending
      BY <1>3, <2>2, <3>2, <3>3 DEF Ended, Ending
    <3>5. ~Has(w, {"completed"})
      BY <3>3 DEF Has, Final
    <3> QED BY <1>3, <3>3, <3>4, <3>5 DEF Ended
  <2>6. Streamed(w, t, g)
    BY <1>2, <2>3, <2>4, <2>5 DEF Streamed
  <2> QED BY <1>1, <1>6, <2>1, <2>3, <2>6
<1> QED BY <1>5, <1>6

-----------------------------------------------------------------------------
(* One event more. *)

\* An event that ends nothing and a frame that ends nothing.
LEMMA GoesOn ==
  ASSUME NEW w \in Seq(Events), NEW tr, NEW f \in Seq(FrameSet), Ended(w, tr, f),
         NEW e \in Events, e.kind \notin Final,
         NEW x \in FrameSet, x.type \notin Ending \cup {"[DONE]"}, NEW t, t.finished = tr.finished
  PROVE  Ended(Append(w, e), t, Append(f, x)) /\ Ended(Append(w, e), t, f)
<1>1. PICK v, g, n, k : v = Append(w, e) /\ g = Append(f, x) /\ n = Len(f) /\ k = Len(w)
  OBVIOUS
<1>2. /\ n \in Nat /\ DOMAIN f = 1 .. n /\ DOMAIN g = 1 .. n + 1 /\ g[n + 1] = x
      /\ \A i \in 1 .. n : g[i] = f[i] /\ i \in 1 .. n + 1
      /\ \A i \in 1 .. n + 1 : i = n + 1 \/ i \in 1 .. n
  BY <1>1, AppendLonger DEF Longer
<1>3. /\ k \in Nat /\ DOMAIN w = 1 .. k /\ DOMAIN v = 1 .. k + 1 /\ Len(v) = k + 1 /\ v[k + 1] = e
      /\ \A i \in 1 .. k : v[i] = w[i] /\ i \in 1 .. k + 1 /\ i # k + 1
      /\ \A i \in 1 .. k + 1 : i = k + 1 \/ i \in 1 .. k
  BY <1>1, AppendLonger DEF Longer
<1>4. (Has(v, Final) <=> Has(w, Final)) /\ (Lasting(v) => ~Has(w, Final))
  BY <1>3 DEF Has, Lasting
<1>5. Has(v, {"completed"}) => Has(v, Final)
  BY DEF Has, Final
<1>6. x.type \notin Ending /\ x.type \notin Normal /\ x.type # "[DONE]"
  BY DEF Ending, Normal
<1>7. Ended(v, t, g)
  <2>1. \A i \in DOMAIN g : g[i].type # "[DONE]"
    BY <1>2, <1>6 DEF Ended
  <2>2. (\E i \in DOMAIN g : g[i].type \in Ending) <=> \E i \in DOMAIN f : f[i].type \in Ending
    BY <1>2, <1>6
  <2>3. \A i, j \in DOMAIN g : i < j /\ g[i].type \in Ending => g[j].type \notin Normal
    BY <1>2, <1>6 DEF Ended
  <2> QED BY <1>4, <1>5, <2>1, <2>2, <2>3 DEF Ended
<1>8. Ended(v, t, f)
  BY <1>4, <1>5 DEF Ended
<1> QED BY <1>1, <1>7, <1>8

\* A frame adds its body to what is carried at its place.
FrameAdds(f, x) ==
  \A type, index :
    Carried(Append(f, x), type, index) =
      IF x.type = type /\ x.index = index THEN Carried(f, type, index) \o x.body ELSE Carried(f, type, index)
LEMMA FramesAdd == \A f \in Seq(FrameSet) : \A x \in FrameSet : FrameAdds(f, x)
BY CarriedAppend DEF FrameAdds

\* A text delta.
LEMMA TextPushed ==
  ASSUME NEW w, NEW tr, NEW f, Streamed(w, tr, f), tr.role_sent = TRUE, NEW e, Fits(w, e), e.kind = "text",
         NEW x, x = Chunk("content", NoCall, 0, e.body)
  PROVE  Streamed(Append(w, e), tr, Append(f, x)) /\ x \in FrameSet
<1>1. PICK v, g, n, k : v = Append(w, e) /\ g = Append(f, x) /\ n = Len(f) /\ k = Len(w)
  OBVIOUS
<1>2. e \in Events /\ e.kind = "text" /\ e.call = NoCall /\ e.body \in Bodies
  BY DEF Fits, Events
<1>3. x \in FrameSet /\ x.type = "content" /\ x.index = 0 /\ x.body = e.body
  BY <1>2 DEF Chunk, FrameSet, FrameTypes
<1>4. /\ n \in Nat /\ DOMAIN f = 1 .. n /\ DOMAIN g = 1 .. n + 1 /\ g[n + 1] = x
      /\ \A i \in 1 .. n : g[i] = f[i] /\ i \in 1 .. n + 1
      /\ \A i \in 1 .. n + 1 : i = n + 1 \/ i \in 1 .. n
  BY <1>1, <1>3, AppendLonger DEF Longer, Streamed
<1>5. /\ k \in Nat /\ DOMAIN w = 1 .. k /\ DOMAIN v = 1 .. k + 1 /\ v[k + 1] = e
      /\ \A i \in 1 .. k : v[i] = w[i] /\ i \in 1 .. k + 1
      /\ \A i \in 1 .. k + 1 : i = k + 1 \/ i \in 1 .. k
  BY <1>1, <1>2, AppendLonger DEF Longer, Streamed
<1>6. v \in Seq(Events) /\ g \in Seq(FrameSet)
  BY <1>1, <1>2, <1>3, AppendProperties DEF Streamed
<1>7. Indexed(v, tr, g)
  <2>1. Indexed(w, tr, f)
    BY DEF Streamed
  <2>2. \A i \in DOMAIN g :
       /\ g[i].type \in {"call", "arguments"} => g[i].index \in DOMAIN tr.index
       /\ g[i].type = "call" => tr.index[g[i].index] = g[i].call
    BY <1>3, <1>4, <2>1 DEF Indexed
  <2>3. \A j \in DOMAIN tr.index : \E i \in DOMAIN g : g[i].type = "call" /\ g[i].index = j
    BY <1>4, <2>1 DEF Indexed
  <2>4. \A j \in DOMAIN tr.index : \E i \in DOMAIN v : v[i].kind = "added" /\ v[i].call = tr.index[j]
    BY <1>5, <2>1 DEF Indexed
  <2>5. \A i \in DOMAIN v :
       v[i].kind \in {"added", "args"} => \E j \in DOMAIN tr.index : tr.index[j] = v[i].call
    BY <1>2, <1>5, <2>1 DEF Indexed
  <2> QED BY <2>1, <2>2, <2>3, <2>4, <2>5 DEF Indexed
<1>8. Carries(v, tr, g)
  <2>1. \A c : BodyOf(v, "args", c) = BodyOf(w, "args", c)
    BY <1>1, <1>2, BodyAppend DEF Streamed
  <2>2. \A j : Carried(g, "arguments", j) = Carried(f, "arguments", j)
    BY <1>1, <1>3, CarriedAppend DEF Streamed
  <2>3. BodyOf(v, "text", NoCall) = BodyOf(w, "text", NoCall) \o e.body
    <3>1. w \in Seq(Events)
      BY DEF Streamed
    <3>2. BodyOf(Append(w, e), "text", NoCall) =
            IF e.kind = "text" /\ e.call = NoCall THEN BodyOf(w, "text", NoCall) \o e.body ELSE BodyOf(w, "text", NoCall)
      BY <1>2, <3>1, BodyAppend
    <3> QED BY <1>1, <1>2, <3>2
  <2>4. Carried(g, "content", 0) = Carried(f, "content", 0) \o e.body
    <3>1. f \in Seq(FrameSet)
      BY DEF Streamed
    <3>2. FrameAdds(f, x)
      BY <1>3, <3>1, FramesAdd, Zenon
    <3> QED BY <1>1, <1>3, <3>2 DEF FrameAdds
  <2>6. Carried(g, "content", 0) = BodyOf(v, "text", NoCall)
    <3>1. Carried(f, "content", 0) = BodyOf(w, "text", NoCall)
      BY DEF Streamed, Carries
    <3> QED BY <2>3, <2>4, <3>1
  <2>7. ASSUME NEW j \in DOMAIN tr.index
        PROVE  Carried(g, "arguments", j) = BodyOf(v, "args", tr.index[j])
    <3>1. Carried(f, "arguments", j) = BodyOf(w, "args", tr.index[j])
      BY DEF Streamed, Carries
    <3> QED BY <2>1, <2>2, <3>1
  <2> QED BY <2>6, <2>7 DEF Carries
<1>9. Ended(v, tr, g)
  <2>1. x.type \notin Ending \cup {"[DONE]"} /\ e.kind \notin Final
    BY <1>2, <1>3 DEF Ending, Final
  <2> QED BY <1>1, <1>2, <1>3, <2>1, GoesOn DEF Streamed
<1> QED BY <1>1, <1>3, <1>6, <1>7, <1>8, <1>9 DEF Streamed

\* An argument delta.
LEMMA ArgsPushed ==
  ASSUME NEW w, NEW tr, NEW f, Streamed(w, tr, f), tr.role_sent = TRUE, NEW e, Fits(w, e), e.kind = "args",
         NEW x, x = Chunk("arguments", NoCall, Place(tr, e.call), e.body)
  PROVE  Streamed(Append(w, e), tr, Append(f, x)) /\ x \in FrameSet
<1>1. PICK v, g, n, k, p : v = Append(w, e) /\ g = Append(f, x) /\ n = Len(f) /\ k = Len(w) /\ p = Place(tr, e.call)
  OBVIOUS
<1>2. e \in Events /\ e.kind = "args" /\ e.body \in Bodies
  BY DEF Fits, Events
<1>3. p \in DOMAIN tr.index /\ tr.index[p] = e.call
  <2>1. \E j \in DOMAIN tr.index : tr.index[j] = e.call
    BY <1>2 DEF Fits, Streamed, Indexed
  <2> QED BY <1>1, <2>1 DEF Place
<1>4. x \in FrameSet /\ x.type = "arguments" /\ x.index = p /\ x.body = e.body
  <2>1. p \in Nat
    BY <1>3 DEF Streamed, Translators
  <2> QED BY <1>1, <1>2, <2>1 DEF Chunk, FrameSet, FrameTypes
<1>5. /\ n \in Nat /\ DOMAIN f = 1 .. n /\ DOMAIN g = 1 .. n + 1 /\ g[n + 1] = x
      /\ \A i \in 1 .. n : g[i] = f[i] /\ i \in 1 .. n + 1
      /\ \A i \in 1 .. n + 1 : i = n + 1 \/ i \in 1 .. n
  BY <1>1, <1>4, AppendLonger DEF Longer, Streamed
<1>6. /\ k \in Nat /\ DOMAIN w = 1 .. k /\ DOMAIN v = 1 .. k + 1 /\ v[k + 1] = e
      /\ \A i \in 1 .. k : v[i] = w[i] /\ i \in 1 .. k + 1
      /\ \A i \in 1 .. k + 1 : i = k + 1 \/ i \in 1 .. k
  BY <1>1, <1>2, AppendLonger DEF Longer, Streamed
<1>7. v \in Seq(Events) /\ g \in Seq(FrameSet)
  BY <1>1, <1>2, <1>4, AppendProperties DEF Streamed
<1>8. Indexed(v, tr, g)
  <2>1. Indexed(w, tr, f)
    BY DEF Streamed
  <2>2. \A i \in DOMAIN g :
       /\ g[i].type \in {"call", "arguments"} => g[i].index \in DOMAIN tr.index
       /\ g[i].type = "call" => tr.index[g[i].index] = g[i].call
    BY <1>3, <1>4, <1>5, <2>1 DEF Indexed
  <2>3. \A j \in DOMAIN tr.index : \E i \in DOMAIN g : g[i].type = "call" /\ g[i].index = j
    BY <1>5, <2>1 DEF Indexed
  <2>4. \A j \in DOMAIN tr.index : \E i \in DOMAIN v : v[i].kind = "added" /\ v[i].call = tr.index[j]
    BY <1>6, <2>1 DEF Indexed
  <2>5. \A i \in DOMAIN v :
       v[i].kind \in {"added", "args"} => \E j \in DOMAIN tr.index : tr.index[j] = v[i].call
    BY <1>2, <1>3, <1>6, <2>1 DEF Indexed
  <2> QED BY <2>1, <2>2, <2>3, <2>4, <2>5 DEF Indexed
<1>9. Carries(v, tr, g)
  <2>1. BodyOf(v, "text", NoCall) = BodyOf(w, "text", NoCall)
    BY <1>1, <1>2, BodyAppend DEF Streamed
  <2>2. Carried(g, "content", 0) = Carried(f, "content", 0)
    BY <1>1, <1>4, CarriedAppend DEF Streamed
  <2>3. ASSUME NEW j \in DOMAIN tr.index
        PROVE  Carried(g, "arguments", j) = BodyOf(v, "args", tr.index[j])
    <3>1. Carried(f, "arguments", j) = BodyOf(w, "args", tr.index[j])
      BY DEF Streamed, Carries
    <3>2. CASE j = p
      <4>1. BodyOf(v, "args", e.call) = BodyOf(w, "args", e.call) \o e.body
        <5>1. w \in Seq(Events)
          BY DEF Streamed
        <5>2. BodyOf(Append(w, e), "args", e.call) =
                IF e.kind = "args" /\ e.call = e.call THEN BodyOf(w, "args", e.call) \o e.body
                ELSE BodyOf(w, "args", e.call)
          BY <1>2, <5>1, BodyAppend
        <5> QED BY <1>1, <1>2, <5>2
      <4>2. Carried(g, "arguments", p) = Carried(f, "arguments", p) \o e.body
        <5>1. f \in Seq(FrameSet)
          BY DEF Streamed
        <5>2. FrameAdds(f, x)
          BY <1>4, <5>1, FramesAdd, Zenon
        <5> QED BY <1>1, <1>4, <5>2 DEF FrameAdds
      <4> QED BY <1>3, <3>1, <3>2, <4>1, <4>2
    <3>3. CASE j # p
      <4>1. tr.index[j] # e.call
        BY <1>2, <1>3, <3>3 DEF Streamed, Indexed
      <4>2. BodyOf(v, "args", tr.index[j]) = BodyOf(w, "args", tr.index[j])
        <5>1. PICK c : c = tr.index[j]
          OBVIOUS
        <5>2. BodyOf(v, "args", c) = BodyOf(w, "args", c)
          BY <1>1, <1>2, <4>1, <5>1, BodyAppend DEF Streamed
        <5> QED BY <5>1, <5>2
      <4>3. Carried(g, "arguments", j) = Carried(f, "arguments", j)
        <5>1. ~(x.type = "arguments" /\ x.index = j)
          BY <1>4, <3>3
        <5> QED BY <1>1, <1>4, <5>1, CarriedAppend DEF Streamed
      <4> QED BY <3>1, <4>2, <4>3
    <3> QED BY <3>2, <3>3
  <2> QED BY <2>1, <2>2, <2>3 DEF Carries, Streamed
<1>10. Ended(v, tr, g)
  <2>1. x.type \notin Ending \cup {"[DONE]"} /\ e.kind \notin Final
    BY <1>2, <1>4 DEF Ending, Final
  <2> QED BY <1>1, <1>2, <1>4, <2>1, GoesOn DEF Streamed
<1> QED BY <1>1, <1>4, <1>7, <1>8, <1>9, <1>10 DEF Streamed

-----------------------------------------------------------------------------
\* A call that is announced gets the next index, of which nothing was said yet.
LEMMA AddedPushed ==
  ASSUME NEW w, NEW tr, NEW f, Streamed(w, tr, f), tr.role_sent = TRUE, NEW e, Fits(w, e), e.kind = "added",
         NEW t, t = [tr EXCEPT !.index = Append(@, e.call)],
         NEW x, x = Chunk("call", e.call, Len(tr.index) + 1, <<>>)
  PROVE  Streamed(Append(w, e), t, Append(f, x)) /\ x \in FrameSet
<1>1. PICK v, g, n, k, c, q :
        v = Append(w, e) /\ g = Append(f, x) /\ n = Len(f) /\ k = Len(w) /\ c = e.call /\ q = Len(tr.index)
  OBVIOUS
<1>2. /\ e \in Events /\ e.kind = "added" /\ e.call = c
      /\ c \in Calls /\ \A i \in DOMAIN w : ~(w[i].kind = "added" /\ w[i].call = c)
  BY <1>1 DEF Fits, Announcing
<1>3. /\ q \in Nat /\ tr.index \in Seq(Calls) /\ DOMAIN tr.index = 1 .. q
      /\ t \in Translators /\ t.finished = tr.finished /\ t.role_sent
      /\ t.index = Append(tr.index, c) /\ Len(t.index) = q + 1 /\ DOMAIN t.index = 1 .. q + 1
      /\ t.index[q + 1] = c /\ \A j \in 1 .. q : t.index[j] = tr.index[j] /\ j \in 1 .. q + 1
      /\ \A j \in 1 .. q + 1 : j = q + 1 \/ j \in 1 .. q
  <2>1. tr \in Translators /\ tr.index \in Seq(Calls)
    BY DEF Streamed, Translators
  <2>2. t \in Translators /\ t.finished = tr.finished /\ t.role_sent /\ t.index = Append(tr.index, c)
    <3>1. PICK s : s = Append(tr.index, c)
      OBVIOUS
    <3>2. s \in Seq(Calls)
      BY <1>2, <2>1, <3>1, AppendProperties
    <3>3. t = [tr EXCEPT !.index = s]
      BY <1>1, <3>1
    <3> QED BY <2>1, <3>1, <3>2, <3>3 DEF Translators
  <2> QED BY <1>1, <1>2, <2>1, <2>2, AppendLonger DEF Longer
<1>4. x \in FrameSet /\ x.type = "call" /\ x.index = q + 1 /\ x.call = c
  BY <1>1, <1>2, <1>3, EmptySeq DEF Chunk, FrameSet, FrameTypes, Bodies
<1>5. /\ n \in Nat /\ DOMAIN f = 1 .. n /\ DOMAIN g = 1 .. n + 1 /\ g[n + 1] = x
      /\ \A i \in 1 .. n : g[i] = f[i] /\ i \in 1 .. n + 1
      /\ \A i \in 1 .. n + 1 : i = n + 1 \/ i \in 1 .. n
  BY <1>1, <1>4, AppendLonger DEF Longer, Streamed
<1>6. /\ k \in Nat /\ DOMAIN w = 1 .. k /\ DOMAIN v = 1 .. k + 1 /\ v[k + 1] = e
      /\ \A i \in 1 .. k : v[i] = w[i] /\ i \in 1 .. k + 1
      /\ \A i \in 1 .. k + 1 : i = k + 1 \/ i \in 1 .. k
  BY <1>1, <1>2, AppendLonger DEF Longer, Streamed
<1>7. v \in Seq(Events) /\ g \in Seq(FrameSet)
  BY <1>1, <1>2, <1>4, AppendProperties DEF Streamed
<1>8. \A j \in 1 .. q : tr.index[j] # c
  <2>1. \A j \in DOMAIN tr.index : \E i \in DOMAIN w : w[i].kind = "added" /\ w[i].call = tr.index[j]
    BY DEF Streamed, Indexed
  <2> QED BY <1>2, <1>3, <2>1
<1>9. Indexed(v, t, g)
  <2>1. Indexed(w, tr, f)
    BY DEF Streamed
  <2>2. \A j, l \in DOMAIN t.index : t.index[j] = t.index[l] => j = l
    <3> TAKE j, l \in DOMAIN t.index
    <3>1. CASE j = q + 1
      BY <1>3, <1>8, <3>1
    <3>2. CASE l = q + 1
      BY <1>3, <1>8, <3>2
    <3>3. CASE j \in 1 .. q /\ l \in 1 .. q
      BY <1>3, <2>1, <3>3 DEF Indexed
    <3> QED BY <1>3, <3>1, <3>2, <3>3
  <2>3. \A i \in DOMAIN g :
       /\ g[i].type \in {"call", "arguments"} => g[i].index \in DOMAIN t.index
       /\ g[i].type = "call" => t.index[g[i].index] = g[i].call
    <3> TAKE i \in DOMAIN g
    <3>1. CASE i = n + 1
      <4>1. q + 1 \in 1 .. q + 1
        BY <1>3
      <4> QED BY <1>3, <1>4, <1>5, <3>1, <4>1
    <3>2. CASE i \in 1 .. n
      <4>1. g[i] = f[i] /\ i \in DOMAIN f
        BY <1>5, <3>2
      <4>2. f[i].type \in {"call", "arguments"} => f[i].index \in 1 .. q
        BY <1>3, <2>1, <4>1 DEF Indexed
      <4>3. f[i].type = "call" => tr.index[f[i].index] = f[i].call
        BY <2>1, <4>1 DEF Indexed
      <4> QED BY <1>3, <4>1, <4>2, <4>3
    <3> QED BY <1>5, <3>1, <3>2
  <2>4. \A j \in DOMAIN t.index : \E i \in DOMAIN g : g[i].type = "call" /\ g[i].index = j
    <3> TAKE j \in DOMAIN t.index
    <3>1. CASE j = q + 1
      <4>1. n + 1 \in DOMAIN g
        BY <1>5
      <4> QED BY <1>4, <1>5, <3>1, <4>1
    <3>2. CASE j \in 1 .. q
      <4>1. PICK i \in DOMAIN f : f[i].type = "call" /\ f[i].index = j
        BY <1>3, <2>1, <3>2 DEF Indexed
      <4> QED BY <1>5, <4>1
    <3> QED BY <1>3, <3>1, <3>2
  <2>5. \A j \in DOMAIN t.index : \E i \in DOMAIN v : v[i].kind = "added" /\ v[i].call = t.index[j]
    <3> TAKE j \in DOMAIN t.index
    <3>1. CASE j = q + 1
      <4>1. k + 1 \in DOMAIN v
        BY <1>6
      <4> QED BY <1>2, <1>3, <1>6, <3>1, <4>1
    <3>2. CASE j \in 1 .. q
      <4>1. PICK i \in DOMAIN w : w[i].kind = "added" /\ w[i].call = tr.index[j]
        BY <1>3, <2>1, <3>2 DEF Indexed
      <4> QED BY <1>3, <1>6, <3>2, <4>1
    <3> QED BY <1>3, <3>1, <3>2
  <2>6. \A i \in DOMAIN v :
       v[i].kind \in {"added", "args"} => \E j \in DOMAIN t.index : t.index[j] = v[i].call
    <3> TAKE i \in DOMAIN v
    <3>1. CASE i = k + 1
      <4>1. q + 1 \in DOMAIN t.index
        BY <1>3
      <4> QED BY <1>2, <1>3, <1>6, <3>1, <4>1
    <3>2. CASE i \in 1 .. k
      <4>1. v[i] = w[i] /\ i \in DOMAIN w
        BY <1>6, <3>2
      <4>2. w[i].kind \in {"added", "args"} => \E j \in 1 .. q : tr.index[j] = w[i].call
        BY <1>3, <2>1, <4>1 DEF Indexed
      <4> QED BY <1>3, <4>1, <4>2
    <3> QED BY <1>6, <3>1, <3>2
  <2> QED BY <2>2, <2>3, <2>4, <2>5, <2>6 DEF Indexed
<1>10. Carries(v, t, g)
  <2>1. \A d : BodyOf(v, "args", d) = BodyOf(w, "args", d) /\ BodyOf(v, "text", d) = BodyOf(w, "text", d)
    BY <1>1, <1>2, BodyAppend DEF Streamed
  <2>2. \A j : Carried(g, "arguments", j) = Carried(f, "arguments", j)
    BY <1>1, <1>4, CarriedAppend DEF Streamed
  <2>3. Carried(g, "content", 0) = Carried(f, "content", 0)
    BY <1>1, <1>4, CarriedAppend DEF Streamed
  <2>4. Carried(g, "content", 0) = BodyOf(v, "text", NoCall)
    BY <2>1, <2>3 DEF Streamed, Carries
  <2>5. ASSUME NEW j \in DOMAIN t.index
        PROVE  Carried(g, "arguments", j) = BodyOf(v, "args", t.index[j])
    <3>1. CASE j = q + 1
      <4>1. BodyOf(w, "args", c) = <<>>
        <5>1. \A i \in DOMAIN w : ~(w[i].kind = "args" /\ w[i].call = c)
          <6>1. \A i \in DOMAIN w :
                  w[i].kind \in {"added", "args"} => \E l \in DOMAIN tr.index : tr.index[l] = w[i].call
            BY DEF Streamed, Indexed
          <6> QED BY <1>3, <1>8, <6>1
        <5> QED BY <5>1, BodyNothing DEF Streamed
      <4>2. Carried(f, "arguments", q + 1) = <<>>
        <5>1. \A i \in DOMAIN f : ~(f[i].type = "arguments" /\ f[i].index = q + 1)
          BY <1>3 DEF Streamed, Indexed
        <5> QED BY <5>1, CarriedNothing DEF Streamed
      <4>4. Carried(g, "arguments", q + 1) = BodyOf(v, "args", c)
        BY <2>1, <2>2, <4>1, <4>2, Zenon
      <4> QED BY <1>3, <3>1, <4>4
    <3>2. CASE j \in 1 .. q
      <4>1. Carried(f, "arguments", j) = BodyOf(w, "args", tr.index[j])
        BY <1>3, <3>2 DEF Streamed, Carries
      <4>2. t.index[j] = tr.index[j]
        BY <1>3, <3>2
      <4> QED BY <2>1, <2>2, <4>1, <4>2, Zenon
    <3> QED BY <1>3, <3>1, <3>2
  <2> QED BY <2>4, <2>5 DEF Carries
<1>11. Ended(v, t, g)
  <2>1. x.type \notin Ending \cup {"[DONE]"} /\ e.kind \notin Final
    BY <1>2, <1>4 DEF Ending, Final
  <2> QED BY <1>1, <1>2, <1>3, <1>4, <2>1, GoesOn DEF Streamed
<1> QED BY <1>1, <1>3, <1>4, <1>7, <1>9, <1>10, <1>11 DEF Streamed

\* Behind a final event stands a terminal chunk, a normal one if it is the first.
LEMMA TerminalPushed ==
  ASSUME NEW w, NEW tr, NEW f, Streamed(w, tr, f), tr.role_sent = TRUE, NEW e, Fits(w, e), e.kind \in Final,
         NEW t, t = [tr EXCEPT !.finished = TRUE], NEW y,
         IF e.kind = "completed" THEN ~Has(w, Final) /\ y = (IF tr.index # <<>> THEN "tool_calls" ELSE "stop")
         ELSE y = "error",
         NEW x, x = Plain(y)
  PROVE  Streamed(Append(w, e), t, Append(f, x)) /\ x \in FrameSet
<1>1. PICK v, g, n, k : v = Append(w, e) /\ g = Append(f, x) /\ n = Len(f) /\ k = Len(w)
  OBVIOUS
<1>2. e \in Events /\ e.kind \notin {"added", "args", "text"}
  BY DEF Fits, Final
<1>3. x \in FrameSet /\ x.type = y /\ x.type \notin {"content", "call", "arguments", "[DONE]"} /\ x.type \in Ending
  BY EmptySeq DEF Plain, Chunk, FrameSet, FrameTypes, Bodies, Ending
<1>4. /\ n \in Nat /\ DOMAIN f = 1 .. n /\ DOMAIN g = 1 .. n + 1 /\ g[n + 1] = x /\ Len(g) = n + 1 /\ n + 1 \in 1 .. n + 1
      /\ \A i \in 1 .. n : g[i] = f[i] /\ i \in 1 .. n + 1 /\ i # n + 1
      /\ \A i \in 1 .. n + 1 : i = n + 1 \/ i \in 1 .. n
  BY <1>1, <1>3, AppendLonger DEF Longer, Streamed
<1>5. /\ k \in Nat /\ DOMAIN w = 1 .. k /\ DOMAIN v = 1 .. k + 1 /\ v[k + 1] = e /\ Len(v) = k + 1 /\ k + 1 \in 1 .. k + 1
      /\ \A i \in 1 .. k : v[i] = w[i] /\ i \in 1 .. k + 1 /\ i # k + 1
      /\ \A i \in 1 .. k + 1 : i = k + 1 \/ i \in 1 .. k
  BY <1>1, <1>2, AppendLonger DEF Longer, Streamed
<1>6. v \in Seq(Events) /\ g \in Seq(FrameSet)
  BY <1>1, <1>2, <1>3, AppendProperties DEF Streamed
<1>7. t \in Translators /\ t.finished = TRUE /\ t.index = tr.index /\ t.role_sent
  BY DEF Streamed, Translators
<1>8. Indexed(v, t, g) /\ Carries(v, t, g)
  <2>1. Indexed(w, tr, g) /\ Carries(w, tr, g)
    BY <1>1, <1>3, TellsNothing
  <2>2. w \in Seq(Events)
    BY DEF Streamed
  <2>3. Indexed(v, tr, g) /\ Carries(v, tr, g)
    BY <1>1, <1>2, <2>1, <2>2, Heard
  <2>4. Indexed(v, t, g) <=> Indexed(v, tr, g)
    BY <1>7 DEF Indexed
  <2>5. Carries(v, t, g) <=> Carries(v, tr, g)
    BY <1>7 DEF Carries
  <2> QED BY <2>3, <2>4, <2>5
<1>9. Ended(v, t, g)
  <2>1. Ended(w, tr, f)
    BY DEF Streamed
  <2>2. Has(v, Final)
    BY <1>5 DEF Has
  <2>3. Lasting(v) => ~Has(w, Final)
    BY <1>5 DEF Lasting, Has
  <2>4. ~Has(w, Final) => \A i \in 1 .. n : f[i].type \notin Ending
    BY <1>4, <2>1 DEF Ended
  <2>5. \A i \in DOMAIN g : g[i].type # "[DONE]"
    BY <1>3, <1>4, <2>1 DEF Ended
  <2>6. \E i \in DOMAIN g : g[i].type \in Ending
    BY <1>3, <1>4
  <2>7. ASSUME NEW i \in DOMAIN g, NEW j \in DOMAIN g, i < j, g[i].type \in Ending PROVE g[j].type \notin Normal
    <3>1. i \in 1 .. n /\ g[i] = f[i]
      BY <1>4, <2>7
    <3>2. CASE j \in 1 .. n
      BY <1>4, <2>1, <2>7, <3>1, <3>2 DEF Ended
    <3>3. CASE j = n + 1
      <4>1. Has(w, Final)
        BY <2>4, <2>7, <3>1
      <4>2. y = "error"
        BY <4>1
      <4> QED BY <1>3, <1>4, <3>3, <4>2 DEF Normal
    <3> QED BY <1>4, <3>2, <3>3
  <2>8. Lasting(v) => \A i \in DOMAIN g : g[i].type \in Ending => i = Len(g)
    BY <1>4, <2>3, <2>4
  <2>9. Lasting(v) /\ Has(v, {"completed"}) => g[Len(g)].type = IF t.index # <<>> THEN "tool_calls" ELSE "stop"
    <3> SUFFICES ASSUME Lasting(v), Has(v, {"completed"}) PROVE e.kind = "completed"
      BY <1>3, <1>4, <1>7
    <3>1. PICK i \in DOMAIN v : v[i].kind = "completed"
      BY DEF Has
    <3>2. i = k + 1
      BY <1>5, <3>1 DEF Lasting, Final
    <3> QED BY <1>5, <3>1, <3>2
  <2> QED BY <1>7, <2>2, <2>5, <2>6, <2>7, <2>8, <2>9 DEF Ended
<1> QED BY <1>1, <1>3, <1>6, <1>7, <1>8, <1>9 DEF Streamed

\* A finished item adds nothing, nor does a truncated response.
LEMMA ItemPushed ==
  ASSUME NEW w, NEW tr, NEW f, Streamed(w, tr, f), tr.role_sent = TRUE, NEW e, Fits(w, e), e.kind \in {"item", "truncated"}
  PROVE  Streamed(Append(w, e), tr, f)
<1>1. e \in Events /\ e.kind \notin {"added", "args", "text"} /\ e.kind \notin Final
  BY DEF Fits, Final
<1>2. Indexed(w, tr, f) /\ Carries(w, tr, f) /\ Ended(w, tr, f) /\ w \in Seq(Events) /\ tr \in Translators
      /\ f \in Seq(FrameSet)
  BY DEF Streamed
<1>3. Indexed(Append(w, e), tr, f) /\ Carries(Append(w, e), tr, f)
  BY <1>1, <1>2, Heard
<1>4. Ended(Append(w, e), tr, f)
  <2>1. Plain("role") \in FrameSet /\ Plain("role").type \notin Ending \cup {"[DONE]"}
    BY EmptySeq DEF Plain, Chunk, FrameSet, FrameTypes, Bodies, Ending
  <2> HIDE DEF Streamed
  <2> QED BY <1>1, <1>2, <2>1, GoesOn
<1>5. Append(w, e) \in Seq(Events)
  BY <1>1, <1>2, AppendProperties
<1> QED BY <1>2, <1>3, <1>4, <1>5 DEF Streamed

\* Nor does another completion of a finished stream.
LEMMA LatePushed ==
  ASSUME NEW w, NEW tr, NEW f, Streamed(w, tr, f), tr.role_sent = TRUE, tr.finished = TRUE, NEW e, Fits(w, e), e.kind = "completed",
         NEW t, t = [tr EXCEPT !.finished = TRUE]
  PROVE  Streamed(Append(w, e), t, f)
<1>1. e \in Events /\ e.kind \notin {"added", "args", "text"} /\ e.kind \in Final
  BY DEF Fits, Final
<1>2. Indexed(w, tr, f) /\ Carries(w, tr, f) /\ Ended(w, tr, f) /\ w \in Seq(Events) /\ tr \in Translators
      /\ f \in Seq(FrameSet)
  BY DEF Streamed
<1>3. PICK v, k : v = Append(w, e) /\ k = Len(w)
  OBVIOUS
<1>4. /\ k \in Nat /\ DOMAIN w = 1 .. k /\ DOMAIN v = 1 .. k + 1 /\ v[k + 1] = e /\ Len(v) = k + 1 /\ k + 1 \in 1 .. k + 1
      /\ \A i \in 1 .. k : v[i] = w[i] /\ i \in 1 .. k + 1 /\ i # k + 1
  BY <1>1, <1>2, <1>3, AppendLonger DEF Longer
<1>5. t \in Translators /\ t.finished = TRUE /\ t.index = tr.index /\ t.role_sent
  BY <1>2 DEF Translators
<1>6. Indexed(v, tr, f) /\ Carries(v, tr, f)
  BY <1>1, <1>2, <1>3, Heard
<1>7. Indexed(v, t, f) <=> Indexed(v, tr, f)
  BY <1>5 DEF Indexed
<1>8. Carries(v, t, f) <=> Carries(v, tr, f)
  BY <1>5 DEF Carries
<1>9. Has(w, Final)
  BY <1>2 DEF Ended, Translators
<1>10. Has(v, Final) /\ ~Lasting(v)
  BY <1>4, <1>9 DEF Has, Lasting
<1>11. Ended(v, t, f)
  BY <1>2, <1>5, <1>9, <1>10 DEF Ended
<1>12. v \in Seq(Events)
  BY <1>1, <1>2, <1>3, AppendProperties
<1> QED BY <1>2, <1>3, <1>5, <1>6, <1>7, <1>8, <1>11, <1>12 DEF Streamed

-----------------------------------------------------------------------------
\* The arm for an event keeps the frames and the events together.
LEMMA ArmPushed ==
  ASSUME NEW w, NEW tr, NEW f, Streamed(w, tr, f), tr.role_sent = TRUE, NEW e, Fits(w, e), NEW arm, arm = Arm(tr, e)
  PROVE  arm.out \in Seq(FrameSet) /\ Streamed(Append(w, e), arm.tr, f \o arm.out)
<1>1. f \in Seq(FrameSet) /\ tr \in Translators
  BY DEF Streamed
<1>2. \A x \in FrameSet : <<x>> \in Seq(FrameSet) /\ f \o <<x>> = Append(f, x)
  BY <1>1, AppendIsConcat
<1>3. f \o <<>> = f /\ <<>> \in Seq(FrameSet)
  BY <1>1, ConcatEmptySeq
<1>4. e.kind \in {"text", "added", "args", "item", "completed", "truncated", "failed", "error"}
  BY DEF Fits, Events, Deltas, Announcing, Terminal
<1>5. CASE e.kind = "text"
  <2>1. PICK x : x = Chunk("content", NoCall, 0, e.body)
    OBVIOUS
  <2>2. arm.tr = tr /\ arm.out = <<x>>
    BY <1>5, <2>1 DEF Arm, Announcing
  <2> QED BY <1>2, <1>5, <2>1, <2>2, TextPushed
<1>6. CASE e.kind = "added"
  <2>1. PICK x, t : x = Chunk("call", e.call, Len(tr.index) + 1, <<>>) /\ t = [tr EXCEPT !.index = Append(@, e.call)]
    OBVIOUS
  <2>2. arm.tr = t /\ arm.out = <<x>>
    BY <1>6, <2>1 DEF Arm, Announcing
  <2>3. Streamed(Append(w, e), t, Append(f, x)) /\ x \in FrameSet
    BY <1>6, <2>1, AddedPushed
  <2> QED BY <1>2, <2>2, <2>3
<1>7. CASE e.kind = "args"
  <2>1. PICK x : x = Chunk("arguments", NoCall, Place(tr, e.call), e.body)
    OBVIOUS
  <2>2. arm.tr = tr /\ arm.out = <<x>>
    BY <1>7, <2>1 DEF Arm, Announcing
  <2> QED BY <1>2, <1>7, <2>1, <2>2, ArgsPushed
<1>8. CASE e.kind \in {"item", "truncated"}
  <2>1. arm.tr = tr /\ arm.out = <<>>
    BY <1>8 DEF Arm, Announcing
  <2>2. Streamed(Append(w, e), tr, f)
    BY <1>8, ItemPushed
  <2> QED BY <1>3, <2>1, <2>2
<1>9. CASE e.kind = "completed"
  <2>1. PICK t : t = [tr EXCEPT !.finished = TRUE]
    OBVIOUS
  <2>2. arm = Finish(tr)
    BY <1>9 DEF Arm, Announcing
  <2>3. CASE tr.finished = TRUE
    <3>1. arm.tr = t /\ arm.out = <<>>
      BY <2>1, <2>2, <2>3 DEF Finish
    <3>2. Streamed(Append(w, e), t, f)
      BY <1>9, <2>1, <2>3, LatePushed
    <3> QED BY <1>3, <3>1, <3>2
  <2>4. CASE tr.finished = FALSE
    <3>1. PICK y, x : y = (IF tr.index # <<>> THEN "tool_calls" ELSE "stop") /\ x = Plain(y)
      OBVIOUS
    <3>2. arm.tr = t /\ arm.out = <<x>>
      BY <2>1, <2>2, <2>4, <3>1 DEF Finish
    <3>3. ~Has(w, Final) /\ e.kind \in Final
      BY <1>9, <2>4 DEF Streamed, Ended, Final
    <3>4. Streamed(Append(w, e), t, Append(f, x)) /\ x \in FrameSet
      BY <1>9, <2>1, <3>1, <3>3, TerminalPushed
    <3> QED BY <1>2, <3>2, <3>4
  <2> QED BY <1>1, <2>3, <2>4 DEF Translators
<1>10. CASE e.kind \in {"failed", "error"}
  <2>1. PICK x, t : x = Plain("error") /\ t = [tr EXCEPT !.finished = TRUE]
    OBVIOUS
  <2>2. arm.tr = t /\ arm.out = <<x>>
    BY <1>10, <2>1 DEF Arm, Announcing
  <2>3. e.kind \in Final /\ e.kind # "completed"
    BY <1>10 DEF Final
  <2>4. Streamed(Append(w, e), t, Append(f, x)) /\ x \in FrameSet
    BY <2>1, <2>3, TerminalPushed
  <2> QED BY <1>2, <2>2, <2>4
<1> QED BY <1>4, <1>5, <1>6, <1>7, <1>8, <1>9, <1>10

Associative(a, b, c) == (a \o b) \o c = a \o (b \o c)

\* Frames behind frames behind frames.
LEMMA FramesBehind ==
  ASSUME NEW S, NEW a \in Seq(S), NEW b \in Seq(S), NEW c \in Seq(S)
  PROVE  Associative(a, b, c)
BY ConcatAssociative DEF Associative

\* So does an event as a whole, whatever frames the client had before the chunk.
LEMMA PushStep ==
  ASSUME NEW base \in Seq(FrameSet), NEW state, state.out \in Seq(FrameSet),
         NEW w, Streamed(w, state.tr, base \o state.out),
         NEW e, Fits(w, e), NEW p, p = Push(state, e)
  PROVE  p.out \in Seq(FrameSet) /\ Streamed(Append(w, e), p.tr, base \o p.out)
<1>1. PICK tr, out, role, t, arm :
        /\ tr = state.tr /\ out = state.out
        /\ role = (IF tr.role_sent THEN <<>> ELSE <<Plain("role")>>)
        /\ t = [tr EXCEPT !.role_sent = TRUE] /\ arm = Arm(t, e)
  OBVIOUS
<1>2. p.tr = arm.tr /\ p.out = (out \o role) \o arm.out
  BY <1>1, Zenon DEF Push
<1>3. role \in Seq(FrameSet)
  <2>1. Plain("role") \in FrameSet
    BY EmptySeq DEF Plain, Chunk, FrameSet, FrameTypes, Bodies
  <2> QED BY <1>1, <2>1
<1>4. Streamed(w, t, (base \o out) \o role) /\ t.role_sent = TRUE
  <2>1. Streamed(w, tr, base \o out)
    BY <1>1
  <2>2. t.role_sent = TRUE
    BY <1>1, <2>1 DEF Streamed, Translators
  <2> QED BY <1>1, <2>1, <2>2, RolePushed
<1>5. arm.out \in Seq(FrameSet) /\ Streamed(Append(w, e), arm.tr, ((base \o out) \o role) \o arm.out)
  BY <1>1, <1>4, ArmPushed
<1>6. out \o role \in Seq(FrameSet) /\ (out \o role) \o arm.out \in Seq(FrameSet)
  BY <1>1, <1>3, <1>5, ConcatProperties
<1>7. ((base \o out) \o role) \o arm.out = base \o ((out \o role) \o arm.out)
  <2>1. Associative(base, out, role)
    <3>1. out \in Seq(FrameSet)
      BY <1>1
    <3> QED BY <1>3, <3>1, FramesBehind, Zenon
  <2>2. Associative(base, out \o role, arm.out)
    BY <1>5, <1>6, FramesBehind, Zenon
  <2> QED BY <2>1, <2>2, Zenon DEF Associative
<1> QED BY <1>2, <1>5, <1>6, <1>7

-----------------------------------------------------------------------------
(* A chunk. *)

\* state[k] is the translator after k events, and what they came to.
Runs(tr, events, state) ==
  /\ state[0] = [tr |-> tr, out |-> <<>>]
  /\ \A k \in 1 .. Len(events) : state[k] = Push(state[k - 1], events[k])
  /\ state = [k \in 0 .. Len(events) |-> state[k]]

\* There is such a run of the first k events.
LEMMA RunsExist ==
  ASSUME NEW tr, NEW events, Len(events) \in Nat
  PROVE  \E state : Runs(tr, events, state)
<1>1. PICK n : n = Len(events)
  OBVIOUS
<1> DEFINE Upto(k, state) ==
      /\ state[0] = [tr |-> tr, out |-> <<>>]
      /\ \A j \in 1 .. k : state[j] = Push(state[j - 1], events[j])
      /\ state = [j \in 0 .. k |-> state[j]]
           N == {k \in 0 .. n : ~\E state : Upto(k, state)}
<1>2. n \in Nat
  BY <1>1
<1>3. Upto(0, [j \in 0 .. 0 |-> [tr |-> tr, out |-> <<>>]])
  OBVIOUS
<1>4. ASSUME NEW k \in 1 .. n, NEW state, Upto(k - 1, state) PROVE \E next : Upto(k, next)
  <2> DEFINE next == [j \in 0 .. k |-> IF j = k THEN Push(state[k - 1], events[k]) ELSE state[j]]
  <2>1. k \in Nat /\ k \in 0 .. k /\ k - 1 \in 0 .. k - 1 /\ 0 \in 0 .. k - 1
    BY <1>2
  <2>2. \A j \in 0 .. k - 1 : j # k /\ j \in 0 .. k /\ next[j] = state[j]
    BY <2>1
  <2>3. next[k] = Push(state[k - 1], events[k])
    BY <2>1
  <2>4. next = [j \in 0 .. k |-> next[j]]
    OBVIOUS
  <2> HIDE DEF next
  <2>5. ASSUME NEW j \in 1 .. k PROVE next[j] = Push(next[j - 1], events[j])
    <3>1. j - 1 \in 0 .. k - 1 /\ next[j - 1] = state[j - 1]
      BY <2>1, <2>2
    <3>2. CASE j = k
      BY <2>3, <3>1, <3>2
    <3>3. CASE j # k
      <4>1. j \in 1 .. k - 1 /\ j \in 0 .. k - 1
        BY <2>1, <3>3
      <4> QED BY <1>4, <2>2, <3>1, <4>1
    <3> QED BY <3>2, <3>3
  <2>6. next[0] = [tr |-> tr, out |-> <<>>]
    BY <1>4, <2>1, <2>2
  <2> QED BY <2>4, <2>5, <2>6
<1> HIDE DEF Upto
<1>5. N = {}
  <2> SUFFICES ASSUME N # {} PROVE FALSE
    OBVIOUS
  <2>1. N \in SUBSET Nat
    BY <1>2
  <2>2. PICK k \in N : \A j \in N : k <= j
    <3> HIDE DEF N
    <3> QED BY <2>1, Least
  <2>3. k # 0
    BY <1>3
  <2>4. k - 1 \in 0 .. n /\ ~(k <= k - 1) /\ k \in 1 .. n
    BY <1>2, <2>3
  <2>5. PICK state : Upto(k - 1, state)
    BY <2>2, <2>4
  <2> QED BY <1>4, <2>4, <2>5
<1>6. PICK state : Upto(n, state)
  <2>1. n \in 0 .. n
    BY <1>2
  <2> QED BY <1>5, <2>1
<1> QED BY <1>1, <1>6 DEF Upto, Runs

\* Pushed is where the run ends.
LEMMA RunsPushed ==
  ASSUME NEW tr, NEW events, Len(events) \in Nat, NEW state, Runs(tr, events, state)
  PROVE  Pushed(tr, events) = state[Len(events)]
<1>1. PICK n : n = Len(events)
  OBVIOUS
<1>2. n \in Nat /\ n \in 0 .. n
  BY <1>1
<1>3. state = [k \in 0 .. n |-> IF k = 0 THEN [tr |-> tr, out |-> <<>>] ELSE Push(state[k - 1], events[k])]
  <2>1. \A k \in 0 .. n : state[k] = IF k = 0 THEN [tr |-> tr, out |-> <<>>] ELSE Push(state[k - 1], events[k])
    <3> TAKE k \in 0 .. n
    <3>1. CASE k = 0
      BY <3>1 DEF Runs
    <3>2. CASE k # 0
      <4>1. k \in 1 .. n
        BY <1>2, <3>2
      <4> QED BY <1>1, <3>2, <4>1 DEF Runs
    <3> QED BY <3>1, <3>2
  <2>2. state = [k \in 0 .. n |-> state[k]]
    BY <1>1 DEF Runs
  <2> QED BY <2>1, <2>2
<1>4. PICK g : /\ g = [k \in 0 .. n |-> IF k = 0 THEN [tr |-> tr, out |-> <<>>] ELSE Push(g[k - 1], events[k])]
               /\ Pushed(tr, events) = g[n]
  BY <1>1, <1>3, Zenon DEF Pushed
<1> DEFINE D == {k \in 0 .. n : g[k] # state[k]}
<1>5. D = {}
  <2> SUFFICES ASSUME D # {} PROVE FALSE
    OBVIOUS
  <2>1. D \in SUBSET Nat
    BY <1>2
  <2>2. PICK k \in D : \A j \in D : k <= j
    <3> HIDE DEF D
    <3> QED BY <2>1, Least
  <2>3. g[k] = IF k = 0 THEN [tr |-> tr, out |-> <<>>] ELSE Push(g[k - 1], events[k])
    BY <1>4
  <2>4. k # 0
    BY <1>2, <2>3 DEF Runs
  <2>5. k - 1 \in 0 .. n /\ ~(k <= k - 1) /\ k \in 1 .. n
    BY <1>2, <2>4
  <2>6. g[k - 1] = state[k - 1]
    BY <2>2, <2>5
  <2> QED BY <1>1, <2>3, <2>4, <2>5, <2>6 DEF Runs
<1> QED BY <1>1, <1>2, <1>4, <1>5

-----------------------------------------------------------------------------
(* The order of upstream's events. *)

Ordered(w) ==
  \A i \in DOMAIN w :
    /\ w[i].kind = "added" =>
         w[i].call \in Calls /\ \A j \in DOMAIN w : j < i => ~(w[j].kind = "added" /\ w[j].call = w[i].call)
    /\ w[i].kind = "args" => \E j \in DOMAIN w : j < i /\ w[j].kind = "added" /\ w[j].call = w[i].call
    /\ w[i].kind = "text" => w[i].call = NoCall

\* In order, every event may come after those before it.
LEMMA OrderedFits ==
  ASSUME NEW w \in Seq(Events), Ordered(w), NEW k \in Nat, k < Len(w), NEW u, u = SubSeq(w, 1, k)
  PROVE  /\ Fits(u, w[k + 1]) /\ u \in Seq(Events) /\ Append(u, w[k + 1]) = SubSeq(w, 1, k + 1)
<1>1. PICK n, x : n = Len(w) /\ x = w[k + 1]
  OBVIOUS
<1>2. n \in Nat /\ DOMAIN w = 1 .. n /\ k + 1 \in 1 .. n /\ \A i \in 1 .. n : w[i] \in Events
  BY <1>1
<1>3. u \in Seq(Events) /\ Len(u) = k /\ DOMAIN u = 1 .. k /\ \A i \in 1 .. k : u[i] = w[i] /\ i \in 1 .. n /\ i < k + 1
  <2>1. k <= n
    BY <1>1
  <2>2. u \in Seq(Events) /\ Len(u) = k /\ \A i \in 1 .. k : u[i] = w[i]
    BY <1>1, <2>1
  <2>3. DOMAIN u = 1 .. k
    BY <2>2
  <2>4. \A i \in 1 .. k : i \in 1 .. n /\ i < k + 1
    BY <1>2, <2>1
  <2> QED BY <2>2, <2>3, <2>4
<1>4. x \in Events
  BY <1>1, <1>2
<1>6. x.kind = "added" => x.call \in Calls /\ \A j \in DOMAIN w : j < k + 1 => ~(w[j].kind = "added" /\ w[j].call = x.call)
  BY <1>1, <1>2 DEF Ordered
<1>7. x.kind = "args" => \E j \in DOMAIN w : j < k + 1 /\ w[j].kind = "added" /\ w[j].call = x.call
  BY <1>1, <1>2 DEF Ordered
<1>8. x.kind = "text" => x.call = NoCall
  BY <1>1, <1>2 DEF Ordered
<1>10. x.kind \in Announcing => x.call \in Calls /\ \A i \in DOMAIN u : ~(u[i].kind = "added" /\ u[i].call = x.call)
  BY <1>2, <1>3, <1>6 DEF Announcing
<1>11. x.kind = "args" => \E i \in DOMAIN u : u[i].kind = "added" /\ u[i].call = x.call
  <2> SUFFICES ASSUME x.kind = "args" PROVE \E i \in DOMAIN u : u[i].kind = "added" /\ u[i].call = x.call
    OBVIOUS
  <2>1. PICK j \in DOMAIN w : j < k + 1 /\ w[j].kind = "added" /\ w[j].call = x.call
    BY <1>7
  <2>2. j \in 1 .. k
    BY <1>2, <2>1
  <2> QED BY <1>3, <2>1, <2>2
<1>12. Fits(u, x)
  BY <1>4, <1>8, <1>10, <1>11 DEF Fits
<1>13. Append(u, x) = SubSeq(w, 1, k + 1)
  <2>1. PICK v, z : v = Append(u, x) /\ z = SubSeq(w, 1, k + 1)
    OBVIOUS
  <2>2. z \in Seq(Events) /\ Len(z) = k + 1 /\ \A i \in 1 .. k + 1 : z[i] = w[i]
    BY <1>1, <1>2, <2>1
  <2>3. v \in Seq(Events) /\ Len(v) = k + 1 /\ v[k + 1] = x /\ \A i \in 1 .. k : v[i] = u[i]
    BY <1>3, <1>4, <2>1
  <2>4. \A i \in 1 .. k + 1 : v[i] = z[i]
    <3> TAKE i \in 1 .. k + 1
    <3>1. CASE i = k + 1
      BY <1>1, <2>2, <2>3, <3>1
    <3>2. CASE i # k + 1
      <4>1. i \in 1 .. k
        BY <3>2
      <4> QED BY <1>3, <2>2, <2>3, <4>1
    <3> QED BY <3>1, <3>2
  <2> QED BY <2>1, <2>2, <2>3, <2>4, SeqEqual
<1> QED BY <1>1, <1>3, <1>12, <1>13

\* A chunk as a whole keeps the frames and the events together.
LEMMA ChunkPushed ==
  ASSUME NEW w \in Seq(Events), Ordered(w), NEW m \in Nat, NEW n \in Nat, m <= n, n <= Len(w),
         NEW tr, NEW base, Streamed(SubSeq(w, 1, m), tr, base),
         NEW events, Len(events) = n - m, \A k \in 1 .. n - m : events[k] = w[m + k],
         NEW p, p = Pushed(tr, events)
  PROVE  p.out \in Seq(FrameSet) /\ Streamed(SubSeq(w, 1, n), p.tr, base \o p.out)
<1>1. Len(events) \in Nat /\ base \in Seq(FrameSet)
  BY DEF Streamed
<1>2. PICK state : Runs(tr, events, state)
  BY <1>1, RunsExist
<1> DEFINE Holds(k) == state[k].out \in Seq(FrameSet) /\ Streamed(SubSeq(w, 1, m + k), state[k].tr, base \o state[k].out)
           D == {k \in 0 .. n - m : ~Holds(k)}
<1>3. Holds(0)
  <2>1. state[0].tr = tr /\ state[0].out = <<>>
    BY <1>2 DEF Runs
  <2>2. base \o <<>> = base /\ <<>> \in Seq(FrameSet) /\ m + 0 = m
    BY <1>1, ConcatEmptySeq
  <2> QED BY <2>1, <2>2
<1>4. ASSUME NEW k \in 1 .. n - m, Holds(k - 1) PROVE Holds(k)
  <2>1. PICK l, u, e : l = m + (k - 1) /\ u = SubSeq(w, 1, l) /\ e = w[l + 1]
    OBVIOUS
  <2>2. l \in Nat /\ l < Len(w) /\ l + 1 = m + k
    BY <2>1, LenProperties
  <2>3. Fits(u, e) /\ Append(u, e) = SubSeq(w, 1, m + k)
    BY <2>1, <2>2, OrderedFits
  <2>4. e = events[k]
    BY <2>1, <2>2
  <2>5. PICK p0, p1 : p0 = state[k - 1] /\ p1 = state[k]
    OBVIOUS
  <2>6. p1 = Push(p0, e)
    BY <1>2, <2>4, <2>5 DEF Runs
  <2>7. p0.out \in Seq(FrameSet) /\ Streamed(u, p0.tr, base \o p0.out)
    BY <1>4, <2>1, <2>5
  <2> HIDE DEF Holds
  <2>8. p1.out \in Seq(FrameSet) /\ Streamed(Append(u, e), p1.tr, base \o p1.out)
    BY <1>1, <2>3, <2>6, <2>7, PushStep
  <2> QED BY <2>3, <2>5, <2>8 DEF Holds
<1> HIDE DEF Holds
<1>5. D = {}
  <2> SUFFICES ASSUME D # {} PROVE FALSE
    OBVIOUS
  <2>1. D \in SUBSET Nat
    OBVIOUS
  <2>2. PICK k \in D : \A j \in D : k <= j
    <3> HIDE DEF D
    <3> QED BY <2>1, Least
  <2>3. k # 0
    BY <1>3
  <2>4. k - 1 \in 0 .. n - m /\ ~(k <= k - 1) /\ k \in 1 .. n - m
    BY <2>3
  <2>5. Holds(k - 1)
    BY <2>2, <2>4
  <2> QED BY <1>4, <2>4, <2>5
<1>6. n - m \in 0 .. n - m /\ m + (n - m) = n
  OBVIOUS
<1>7. Holds(n - m)
  BY <1>5, <1>6
<1>8. p = state[n - m]
  BY <1>1, <1>2, RunsPushed
<1> QED BY <1>6, <1>7, <1>8 DEF Holds

\* What the translator gets of the events w, the deltas sp with a character
\* replaced.
Replaced(e) == [e EXCEPT !.body = [j \in DOMAIN @ |-> 0 - @[j]]]
Got(w, sp) == [i \in DOMAIN w |-> IF i \in sp THEN Replaced(w[i]) ELSE w[i]]

\* A replaced event is about the same item.
LEMMA ReplacedEvent ==
  ASSUME NEW e \in Events
  PROVE  Replaced(e) \in Events /\ Replaced(e).kind = e.kind /\ Replaced(e).call = e.call
<1>1. PICK b, n, s : b = e.body /\ n = Len(b) /\ s = [j \in DOMAIN b |-> 0 - b[j]]
  OBVIOUS
<1>2. b \in Seq(Int) /\ n \in Nat /\ DOMAIN b = 1 .. n /\ \A j \in 1 .. n : b[j] \in Int
  BY <1>1 DEF Events, Bodies
<1>3. s \in Seq(Int)
  <2>1. \A j \in 1 .. n : 0 - b[j] \in Int
    BY <1>2
  <2> QED BY <1>1, <1>2, <2>1
<1>4. Replaced(e) = [e EXCEPT !.body = s]
  BY <1>1 DEF Replaced
<1> QED BY <1>3, <1>4 DEF Events, Bodies

\* So what it gets is a stream of the same shape.
LEMMA GotEvents ==
  ASSUME NEW w \in Seq(Events), NEW sp
  PROVE  /\ Got(w, sp) \in Seq(Events) /\ Len(Got(w, sp)) = Len(w) /\ DOMAIN Got(w, sp) = DOMAIN w
         /\ \A i \in DOMAIN w : Got(w, sp)[i].kind = w[i].kind /\ Got(w, sp)[i].call = w[i].call
<1>1. PICK n, g : n = Len(w) /\ g = Got(w, sp)
  OBVIOUS
<1>2. n \in Nat /\ DOMAIN w = 1 .. n /\ \A i \in 1 .. n : w[i] \in Events
  BY <1>1
<1>3. g = [i \in 1 .. n |-> IF i \in sp THEN Replaced(w[i]) ELSE w[i]]
  BY <1>1, <1>2 DEF Got
<1>4. \A i \in 1 .. n : g[i] \in Events /\ g[i].kind = w[i].kind /\ g[i].call = w[i].call
  BY <1>2, <1>3, ReplacedEvent
<1> QED BY <1>1, <1>2, <1>3, <1>4

\* In the same order.
LEMMA GotOrdered ==
  ASSUME NEW w \in Seq(Events), Ordered(w), NEW sp
  PROVE  Ordered(Got(w, sp))
<1>1. PICK g : g = Got(w, sp)
  OBVIOUS
<1>2. DOMAIN g = DOMAIN w /\ \A i \in DOMAIN w : g[i].kind = w[i].kind /\ g[i].call = w[i].call
  BY <1>1, GotEvents
<1>3. Ordered(g)
  BY <1>2 DEF Ordered
<1> QED BY <1>1, <1>3

-----------------------------------------------------------------------------
DeltaOf(c) == IF c = NoCall THEN "text" ELSE "args"
FirstOf(c) == IF c = NoCall THEN "text" ELSE "added"

\* Each item is done once, after it was begun, with all its deltas said, and a delta
\* says its number; when the stream ends completed every item is done.
Itemised(w) ==
  /\ \A i \in DOMAIN w : w[i].kind = "item" =>
       /\ w[i].body = BodyOf(w, DeltaOf(w[i].call), w[i].call)
       /\ \E j \in DOMAIN w : w[j].kind = FirstOf(w[i].call) /\ w[j].call = w[i].call
  /\ \A i, j \in DOMAIN w : w[i].kind = "item" /\ w[j].kind = "item" /\ w[i].call = w[j].call => i = j
  /\ \A i \in DOMAIN w : w[i].kind \in Deltas => w[i].body = <<i>>
  /\ w # <<>> /\ w[Len(w)].kind = "completed" =>
       \A i \in DOMAIN w : w[i].kind \in {"added", "text"} =>
         \E j \in DOMAIN w : w[j].kind = "item" /\ w[j].call = w[i].call

Done(w, c) == \E i \in DOMAIN w : w[i].kind = "item" /\ w[i].call = c

\* What upstream sends next.
Comes(w, e) ==
  /\ e.kind = "text" => e.call = NoCall
  /\ e.kind \in Deltas => e.body = <<Len(w) + 1>>
  /\ e.kind = "args" => e.call # NoCall
  /\ e.kind \in {"text", "args", "item"} => ~Done(w, e.call)
  /\ e.kind = "item" =>
       /\ e.body = BodyOf(w, DeltaOf(e.call), e.call)
       /\ \E j \in DOMAIN w : w[j].kind = FirstOf(e.call) /\ w[j].call = e.call
  /\ e.kind = "completed" => \A i \in DOMAIN w : w[i].kind \in {"added", "text"} => Done(w, w[i].call)

\* The order is kept.
LEMMA OrderedAppend ==
  ASSUME NEW w \in Seq(Events), Ordered(w), NEW e, Fits(w, e)
  PROVE  Append(w, e) \in Seq(Events) /\ Ordered(Append(w, e))
<1>1. PICK v, n : v = Append(w, e) /\ n = Len(w)
  OBVIOUS
<1>2. e \in Events
  BY DEF Fits
<1>3. /\ n \in Nat /\ DOMAIN w = 1 .. n /\ DOMAIN v = 1 .. n + 1 /\ v[n + 1] = e /\ v \in Seq(Events)
      /\ \A i \in 1 .. n : v[i] = w[i] /\ i \in 1 .. n + 1
      /\ \A i \in 1 .. n + 1 : i = n + 1 \/ i \in 1 .. n
  BY <1>1, <1>2, AppendLonger DEF Longer
<1>4. ASSUME NEW i \in 1 .. n + 1
      PROVE  /\ v[i].kind = "added" =>
                  v[i].call \in Calls /\ \A j \in 1 .. n + 1 : j < i => ~(v[j].kind = "added" /\ v[j].call = v[i].call)
             /\ v[i].kind = "args" =>
                  \E j \in 1 .. n + 1 : j < i /\ v[j].kind = "added" /\ v[j].call = v[i].call
             /\ v[i].kind = "text" => v[i].call = NoCall
  <2>1. \A j \in 1 .. n + 1 : j < i => j \in 1 .. n /\ v[j] = w[j]
    BY <1>3
  <2>2. CASE i = n + 1
    <3>1. v[i] = e
      BY <1>3, <2>2
    <3>3. e.kind = "added" =>
            e.call \in Calls /\ \A j \in 1 .. n + 1 : j < i => ~(v[j].kind = "added" /\ v[j].call = e.call)
      BY <1>3, <2>1 DEF Fits, Announcing
    <3>4. e.kind = "args" => \E j \in 1 .. n + 1 : j < i /\ v[j].kind = "added" /\ v[j].call = e.call
      <4> SUFFICES ASSUME e.kind = "args" PROVE \E j \in 1 .. n + 1 : j < i /\ v[j].kind = "added" /\ v[j].call = e.call
        OBVIOUS
      <4>1. PICK j \in 1 .. n : w[j].kind = "added" /\ w[j].call = e.call
        BY <1>3 DEF Fits
      <4> QED BY <1>3, <2>2, <4>1
    <3>5. e.kind = "text" => e.call = NoCall
      BY DEF Fits
    <3> QED BY <3>1, <3>3, <3>4, <3>5
  <2>3. CASE i \in 1 .. n
    <3>1. v[i] = w[i]
      BY <1>3, <2>3
    <3>3. w[i].kind = "added" =>
            w[i].call \in Calls /\ \A j \in 1 .. n + 1 : j < i => ~(w[j].kind = "added" /\ w[j].call = w[i].call)
      BY <1>3, <2>1, <2>3 DEF Ordered
    <3>4. w[i].kind = "args" => \E j \in 1 .. n : j < i /\ w[j].kind = "added" /\ w[j].call = w[i].call
      BY <1>3, <2>3 DEF Ordered
    <3>5. w[i].kind = "text" => w[i].call = NoCall
      BY <1>3, <2>3 DEF Ordered
    <3>6. w[i].kind = "args" => \E j \in 1 .. n + 1 : j < i /\ v[j].kind = "added" /\ v[j].call = w[i].call
      BY <1>3, <3>4
    <3> QED BY <2>1, <3>1, <3>3, <3>5, <3>6
  <2> QED BY <1>3, <2>2, <2>3
<1>5. Ordered(v)
  BY <1>3, <1>4 DEF Ordered
<1> QED BY <1>1, <1>3, <1>5

\* So are the items.
LEMMA ItemisedAppend ==
  ASSUME NEW w \in Seq(Events), Itemised(w), NEW e \in Events, Comes(w, e)
  PROVE  Itemised(Append(w, e))
<1>1. PICK v, n : v = Append(w, e) /\ n = Len(w)
  OBVIOUS
<1>2. /\ n \in Nat /\ DOMAIN w = 1 .. n /\ DOMAIN v = 1 .. n + 1 /\ v[n + 1] = e /\ Len(v) = n + 1
      /\ \A i \in 1 .. n : v[i] = w[i] /\ i \in 1 .. n + 1 /\ i # n + 1
      /\ \A i \in 1 .. n + 1 : i = n + 1 \/ i \in 1 .. n
  BY <1>1, AppendLonger DEF Longer
<1>3. ASSUME NEW i \in 1 .. n + 1, v[i].kind = "item"
      PROVE  /\ v[i].body = BodyOf(v, DeltaOf(v[i].call), v[i].call)
             /\ \E j \in 1 .. n + 1 : v[j].kind = FirstOf(v[i].call) /\ v[j].call = v[i].call
  <2>1. PICK d : d = v[i]
    OBVIOUS
  <2>2. d.body = BodyOf(w, DeltaOf(d.call), d.call)
    <3>1. CASE i = n + 1
      BY <1>2, <1>3, <2>1, <3>1 DEF Comes
    <3>2. CASE i \in 1 .. n
      BY <1>2, <1>3, <2>1, <3>2 DEF Itemised
    <3> QED BY <1>2, <3>1, <3>2
  <2>3. \E j \in 1 .. n : w[j].kind = FirstOf(d.call) /\ w[j].call = d.call
    <3>1. CASE i = n + 1
      BY <1>2, <1>3, <2>1, <3>1 DEF Comes
    <3>2. CASE i \in 1 .. n
      BY <1>2, <1>3, <2>1, <3>2 DEF Itemised
    <3> QED BY <1>2, <3>1, <3>2
  <2>4. ~(e.kind = DeltaOf(d.call) /\ e.call = d.call)
    <3>1. CASE i = n + 1
      BY <1>2, <1>3, <2>1, <3>1 DEF DeltaOf
    <3>2. CASE i \in 1 .. n
      <4>1. w[i].kind = "item" /\ w[i].call = d.call
        BY <1>2, <1>3, <2>1, <3>2
      <4>2. Done(w, d.call)
        BY <1>2, <3>2, <4>1 DEF Done
      <4>3. e.kind \in {"text", "args"} => ~Done(w, e.call)
        BY DEF Comes
      <4> QED BY <4>2, <4>3 DEF DeltaOf
    <3> QED BY <1>2, <3>1, <3>2
  <2>5. BodyOf(v, DeltaOf(d.call), d.call) = BodyOf(w, DeltaOf(d.call), d.call)
    <3>1. PICK kind, c : kind = DeltaOf(d.call) /\ c = d.call
      OBVIOUS
    <3>2. BodyOf(v, kind, c) = BodyOf(w, kind, c)
      BY <1>1, <2>4, <3>1, BodyAppend
    <3> QED BY <3>1, <3>2
  <2>6. \E j \in 1 .. n + 1 : v[j].kind = FirstOf(d.call) /\ v[j].call = d.call
    BY <1>2, <2>3
  <2> QED BY <2>1, <2>2, <2>5, <2>6
<1>4. ASSUME NEW i \in 1 .. n + 1, NEW j \in 1 .. n + 1, v[i].kind = "item", v[j].kind = "item", v[i].call = v[j].call
      PROVE  i = j
  <2>1. CASE i \in 1 .. n /\ j \in 1 .. n
    BY <1>2, <1>4, <2>1 DEF Itemised
  <2>2. CASE i = n + 1 /\ j \in 1 .. n
    <3>1. Done(w, e.call) /\ e.kind = "item"
      BY <1>2, <1>4, <2>2 DEF Done
    <3> QED BY <3>1 DEF Comes
  <2>3. CASE j = n + 1 /\ i \in 1 .. n
    <3>1. Done(w, e.call) /\ e.kind = "item"
      BY <1>2, <1>4, <2>3 DEF Done
    <3> QED BY <3>1 DEF Comes
  <2> QED BY <1>2, <2>1, <2>2, <2>3
<1>5. ASSUME e.kind = "completed", NEW i \in 1 .. n + 1, v[i].kind \in {"added", "text"}
      PROVE  \E j \in 1 .. n + 1 : v[j].kind = "item" /\ v[j].call = v[i].call
  <2>2. i \in 1 .. n /\ v[i] = w[i]
    BY <1>2, <1>5
  <2>3. Done(w, w[i].call)
    BY <1>2, <1>5, <2>2 DEF Comes
  <2>4. PICK j \in 1 .. n : w[j].kind = "item" /\ w[j].call = w[i].call
    BY <1>2, <2>3 DEF Done
  <2> QED BY <1>2, <2>2, <2>4
<1>6. ASSUME NEW i \in 1 .. n + 1, v[i].kind \in Deltas PROVE v[i].body = <<i>>
  <2>1. CASE i = n + 1
    BY <1>1, <1>2, <1>6, <2>1 DEF Comes
  <2>2. CASE i \in 1 .. n
    BY <1>2, <1>6, <2>2 DEF Itemised
  <2> QED BY <1>2, <2>1, <2>2
<1>7. Itemised(v)
  BY <1>2, <1>3, <1>4, <1>5, <1>6 DEF Itemised
<1> QED BY <1>1, <1>7

-----------------------------------------------------------------------------
(* The invariant. *)

\* A cut stream is itemised as well.
ItemisedUpto(w) == \A k \in 0 .. Len(w) : Itemised(SubSeq(w, 1, k))

WireInv ==
  /\ wire \in Seq(Events) /\ Ordered(wire) /\ ItemisedUpto(wire)
  /\ upstream \in {"open", "eof", "broken"} /\ cut \in BOOLEAN /\ (cut = TRUE => wire # <<>>)

Untouched == [role_sent |-> FALSE, index |-> <<>>, finished |-> FALSE]

\* What the end of the stream makes of the frames f.
Closing(tr, f) ==
  IF tr.finished THEN f ELSE Append(f, Plain(IF tr.index # <<>> THEN "tool_calls" ELSE "stop"))

\* The characters that were replaced are those of deltas upstream sent.
SplitInv ==
  /\ split \subseteq {i \in DOMAIN wire : wire[i].kind \in Deltas}
  /\ upstream = "open" \/ streaming = FALSE => split = {}

\* s is the whole of what the client gets for the events w.
Closed(w, s) == \E tr, f : Streamed(w, tr, f) /\ s = Append(Closing(tr, f), Plain("[DONE]"))

ReadInv ==
  /\ read \in Nat /\ read <= Halves
  /\ upstream = "open" => read = 0 /\ cut = FALSE /\ sse = <<>> /\ translator = Untouched
  /\ ~Over => Streamed(SubSeq(Got(wire, split), 1, read \div 2), translator, sse)
  /\ Over => upstream # "open" /\ read = Halves /\ Closed(SubSeq(Got(wire, split), 1, Halves \div 2), sse)

\* Upstream may send what it sends.
LEMMA UpstreamSends ==
  ASSUME WireInv, NEW e,
         \/ SendText /\ e = Event("text", NoCall, <<Len(wire) + 1>>)
         \/ \E c \in Calls : SendAdded(c) /\ e = Event("added", c, <<>>)
         \/ \E c \in Calls : SendArgs(c) /\ e = Event("args", c, <<Len(wire) + 1>>)
         \/ \E c \in Calls \cup {NoCall} :
              SendItem(c) /\ e = Event("item", c, Body(IF c = NoCall THEN "text" ELSE "args", c))
         \/ Unfinished = {} /\ e = Event("completed", NoCall, <<>>)
         \/ \E kind \in {"truncated", "failed", "error"} : e = Event(kind, NoCall, <<>>)
  PROVE  Fits(wire, e) /\ Comes(wire, e)
<1>1. PICK w, n : w = wire /\ n = Len(w)
  OBVIOUS
<1>2. w \in Seq(Events) /\ Ordered(w) /\ n \in Nat /\ DOMAIN w = 1 .. n
  BY <1>1 DEF WireInv
<1>3. <<n + 1>> \in Bodies /\ <<>> \in Bodies
  BY <1>2 DEF Bodies
<1>4. NoCall \notin Calls
  BY CallAssumption
<1>5. \A c : (Done(w, c) <=> Sent("item", c))
  BY <1>1 DEF Done, Sent
<1>6. CASE SendText /\ e = Event("text", NoCall, <<Len(wire) + 1>>)
  <2>1. e.kind = "text" /\ e.call = NoCall /\ e.body = <<n + 1>> /\ e \in Events
    BY <1>1, <1>3, <1>6 DEF Event, Events, Deltas
  <2>2. ~Done(w, NoCall)
    BY <1>5, <1>6 DEF SendText
  <2>3. Fits(w, e)
    BY <1>2, <2>1 DEF Fits, Announcing
  <2>4. Comes(w, e)
    BY <1>1, <2>1, <2>2 DEF Comes, Deltas
  <2> QED BY <1>1, <2>3, <2>4
<1>7. CASE \E c \in Calls : SendAdded(c) /\ e = Event("added", c, <<>>)
  <2>1. PICK c \in Calls : SendAdded(c) /\ e = Event("added", c, <<>>)
    BY <1>7
  <2>2. e.kind = "added" /\ e.call = c /\ e \in Events
    BY <1>3, <2>1 DEF Event, Events, Announcing
  <2>3. \A i \in DOMAIN w : ~(w[i].kind = "added" /\ w[i].call = c)
    BY <1>1, <2>1 DEF SendAdded, Sent
  <2>4. Fits(w, e)
    BY <1>2, <2>2, <2>3 DEF Fits, Announcing
  <2>5. Comes(w, e)
    BY <2>2 DEF Comes, Deltas
  <2> QED BY <1>1, <2>4, <2>5
<1>8. CASE \E c \in Calls : SendArgs(c) /\ e = Event("args", c, <<Len(wire) + 1>>)
  <2>1. PICK c \in Calls : SendArgs(c) /\ e = Event("args", c, <<Len(wire) + 1>>)
    BY <1>8
  <2>2. e.kind = "args" /\ e.call = c /\ e.body = <<n + 1>> /\ e \in Events
    BY <1>1, <1>3, <2>1 DEF Event, Events, Deltas
  <2>3. Sent("added", c) /\ ~Sent("item", c)
    BY <1>4, <2>1 DEF SendArgs, Unfinished
  <2>4. \E i \in DOMAIN w : w[i].kind = "added" /\ w[i].call = c
    BY <1>1, <2>3 DEF Sent
  <2>5. Fits(w, e)
    BY <1>2, <2>2, <2>4 DEF Fits, Announcing
  <2>6. Comes(w, e)
    BY <1>1, <1>4, <1>5, <2>2, <2>3 DEF Comes, Deltas
  <2> QED BY <1>1, <2>5, <2>6
<1>9. CASE \E c \in Calls \cup {NoCall} :
              SendItem(c) /\ e = Event("item", c, Body(IF c = NoCall THEN "text" ELSE "args", c))
  <2>1. PICK c \in Calls \cup {NoCall} : SendItem(c) /\ e = Event("item", c, Body(IF c = NoCall THEN "text" ELSE "args", c))
    BY <1>9
  <2>2. Body(IF c = NoCall THEN "text" ELSE "args", c) = BodyOf(w, DeltaOf(c), c)
    BY <1>1, Zenon DEF Body, BodyOf, DeltaOf
  <2>3. BodyOf(w, DeltaOf(c), c) \in Bodies
    <3>1. Event("text", NoCall, <<>>) \in Events
      BY <1>3 DEF Event, Events, Deltas
    <3> QED BY <1>2, <3>1, BodyAppend DEF Bodies
  <2>4. e.kind = "item" /\ e.call = c /\ e.body = BodyOf(w, DeltaOf(c), c) /\ e \in Events
    BY <2>1, <2>2, <2>3 DEF Event, Events
  <2>5. Sent(FirstOf(c), c) /\ ~Sent("item", c)
    BY <1>4, <2>1 DEF SendItem, Unfinished, FirstOf
  <2>6. \E j \in DOMAIN w : w[j].kind = FirstOf(c) /\ w[j].call = c
    BY <1>1, <2>5 DEF Sent
  <2>7. Fits(w, e)
    BY <1>2, <2>4 DEF Fits, Announcing
  <2>8. Comes(w, e)
    BY <1>5, <2>4, <2>5, <2>6 DEF Comes, Deltas
  <2> QED BY <1>1, <2>7, <2>8
<1>10. CASE Unfinished = {} /\ e = Event("completed", NoCall, <<>>)
  <2>1. e.kind = "completed" /\ e \in Events
    BY <1>3, <1>10 DEF Event, Events, Terminal
  <2>2. ASSUME NEW i \in DOMAIN w, w[i].kind \in {"added", "text"} PROVE Done(w, w[i].call)
    <3>1. CASE w[i].kind = "added"
      <4>1. w[i].call \in Calls
        BY <1>2, <2>2, <3>1 DEF Ordered
      <4>2. Sent("added", w[i].call)
        BY <1>1, <2>2, <3>1 DEF Sent
      <4> QED BY <1>5, <1>10, <4>1, <4>2 DEF Unfinished
    <3>2. CASE w[i].kind = "text"
      <4>1. w[i].call = NoCall
        BY <1>2, <2>2, <3>2 DEF Ordered
      <4>2. Sent("text", NoCall)
        BY <1>1, <2>2, <3>2, <4>1 DEF Sent
      <4> QED BY <1>5, <1>10, <4>1, <4>2 DEF Unfinished
    <3> QED BY <2>2, <3>1, <3>2
  <2>3. Fits(w, e)
    BY <1>2, <2>1 DEF Fits, Announcing
  <2>4. Comes(w, e)
    BY <2>1, <2>2 DEF Comes, Deltas
  <2> QED BY <1>1, <2>3, <2>4
<1>11. CASE \E kind \in {"truncated", "failed", "error"} : e = Event(kind, NoCall, <<>>)
  <2>1. e.kind \in {"truncated", "failed", "error"} /\ e \in Events
    <3>1. PICK kind \in {"truncated", "failed", "error"} : e = Event(kind, NoCall, <<>>)
      BY <1>11
    <3> QED BY <1>3, <3>1 DEF Event, Events, Terminal
  <2>2. Fits(w, e)
    BY <1>2, <2>1 DEF Fits, Announcing
  <2>3. Comes(w, e)
    BY <2>1 DEF Comes, Deltas
  <2> QED BY <1>1, <2>2, <2>3
<1> QED BY <1>6, <1>7, <1>8, <1>9, <1>10, <1>11

\* Before the connection ends nothing is read.
LEMMA Unread ==
  ASSUME NEW w \in Seq(Events)
  PROVE  SubSeq(w, 1, 0 \div 2) = <<>> /\ Streamed(<<>>, Untouched, <<>>)
<1>1. 0 \div 2 = 0
  OBVIOUS
<1>2. SubSeq(w, 1, 0) = <<>>
  OBVIOUS
<1>3. <<>> \in Seq(Events) /\ <<>> \in Seq(FrameSet) /\ DOMAIN <<>> = {}
  OBVIOUS
<1>4. Untouched \in Translators /\ Untouched.index = <<>> /\ Untouched.finished = FALSE
  BY DEF Untouched, Translators
<1>5. Indexed(<<>>, Untouched, <<>>)
  BY <1>3, <1>4 DEF Indexed
<1>6. Carries(<<>>, Untouched, <<>>)
  <2>1. BodyOf(<<>>, "text", NoCall) = <<>> /\ Carried(<<>>, "content", 0) = <<>>
    BY <1>3, BodyNothing, CarriedNothing
  <2> QED BY <1>3, <1>4, <2>1 DEF Carries
<1>7. Ended(<<>>, Untouched, <<>>)
  <2>1. \A kinds : ~Has(<<>>, kinds)
    BY <1>3 DEF Has
  <2> QED BY <1>3, <1>4, <2>1 DEF Ended
<1>8. ~Has(<<>>, Final)
  BY <1>3 DEF Has
<1> QED BY <1>1, <1>2, <1>3, <1>4, <1>5, <1>6, <1>7, <1>8 DEF Streamed

\* The chunks and the frames of a stream that is not over.
LEMMA HalvesRange ==
  ASSUME WireInv
  PROVE  Halves \in Nat /\ Halves \div 2 \in Nat /\ Halves \div 2 <= Len(wire) /\ Whole = SubSeq(wire, 1, Halves \div 2)
<1>1. PICK n, h : n = Len(wire) /\ h = Halves
  OBVIOUS
<1>2. n \in Nat /\ (wire # <<>> => n > 0)
  BY <1>1, EmptySeq DEF WireInv
<1>3. h = 2 * n - (IF cut THEN 1 ELSE 0)
  BY <1>1 DEF Halves
<1>4. h \in Nat /\ h <= 2 * n
  BY <1>2, <1>3 DEF WireInv
<1>5. h \div 2 \in Nat /\ h \div 2 <= n
  BY <1>2, <1>4
<1>6. 0 \div 2 + 1 = 1
  OBVIOUS
<1> QED BY <1>1, <1>4, <1>5, <1>6 DEF Whole, Frames

-----------------------------------------------------------------------------
ChatInv == WireInv /\ SplitInv /\ ReadInv

\* Nothing was replaced in what was not split.
LEMMA GotWhole == ASSUME NEW w \in Seq(Events) PROVE Got(w, {}) = w
<1>1. PICK n, g : n = Len(w) /\ g = Got(w, {})
  OBVIOUS
<1>2. n \in Nat /\ DOMAIN w = 1 .. n
  BY <1>1
<1>3. g = [i \in 1 .. n |-> w[i]]
  BY <1>1, <1>2 DEF Got
<1>4. w = [i \in 1 .. n |-> w[i]]
  BY <1>1, <1>2
<1> QED BY <1>1, <1>3, <1>4

\* What was read does not change when a later delta is split.
LEMMA GotPrefix ==
  ASSUME NEW w \in Seq(Events), NEW sp, NEW k \in 0 .. Len(w), NEW extra, extra \subseteq {i \in DOMAIN w : i > k}
  PROVE  SubSeq(Got(w, sp \cup extra), 1, k) = SubSeq(Got(w, sp), 1, k)
<1>1. PICK n, g, h : n = Len(w) /\ g = Got(w, sp) /\ h = Got(w, sp \cup extra)
  OBVIOUS
<1>2. n \in Nat /\ DOMAIN w = 1 .. n /\ k \in Nat /\ k <= n
  BY <1>1
<1>3. g \in Seq(Events) /\ Len(g) = n /\ h \in Seq(Events) /\ Len(h) = n
  BY <1>1, GotEvents
<1>4. \A i \in 1 .. k : i \in 1 .. n /\ g[i] = h[i]
  <2> TAKE i \in 1 .. k
  <2>1. i \in 1 .. n /\ i \notin extra
    BY <1>2
  <2>2. i \in sp \cup extra <=> i \in sp
    BY <2>1
  <2> QED BY <1>1, <1>2, <2>1, <2>2 DEF Got
<1>5. PICK a, b : a = SubSeq(g, 1, k) /\ b = SubSeq(h, 1, k)
  OBVIOUS
<1>6. a \in Seq(Events) /\ Len(a) = k /\ \A i \in 1 .. k : a[i] = g[i]
  BY <1>2, <1>3, <1>5
<1>7. b \in Seq(Events) /\ Len(b) = k /\ \A i \in 1 .. k : b[i] = h[i]
  BY <1>2, <1>3, <1>5
<1>8. a = b
  BY <1>4, <1>6, <1>7, SeqEqual
<1> QED BY <1>1, <1>5, <1>8

\* One more event of an itemised stream.
LEMMA UptoAppend ==
  ASSUME NEW w \in Seq(Events), ItemisedUpto(w), NEW e \in Events, Comes(w, e)
  PROVE  ItemisedUpto(Append(w, e))
<1>1. PICK v, n : v = Append(w, e) /\ n = Len(w)
  OBVIOUS
<1>2. n \in Nat /\ v \in Seq(Events) /\ Len(v) = n + 1 /\ \A i \in 1 .. n : v[i] = w[i]
  BY <1>1, AppendLonger DEF Longer
<1>3. ASSUME NEW k \in 0 .. n PROVE SubSeq(v, 1, k) = SubSeq(w, 1, k)
  <2>1. PICK a, b : a = SubSeq(v, 1, k) /\ b = SubSeq(w, 1, k)
    OBVIOUS
  <2>2. a \in Seq(Events) /\ Len(a) = k /\ \A i \in 1 .. k : a[i] = v[i]
    BY <1>2, <2>1
  <2>3. b \in Seq(Events) /\ Len(b) = k /\ \A i \in 1 .. k : b[i] = w[i]
    BY <1>1, <1>2, <2>1
  <2>4. \A i \in 1 .. k : a[i] = b[i]
    <3>1. \A i \in 1 .. k : i \in 1 .. n
      BY <1>2
    <3> QED BY <1>2, <2>2, <2>3, <3>1
  <2> QED BY <2>1, <2>2, <2>3, <2>4, SeqEqual
<1>4. SubSeq(w, 1, n) = w /\ SubSeq(v, 1, n + 1) = v
  BY <1>1, <1>2, SubSeqFull
<1>5. Itemised(w)
  <2>1. n \in 0 .. Len(w)
    BY <1>1, <1>2
  <2>2. Itemised(SubSeq(w, 1, n))
    BY <2>1 DEF ItemisedUpto
  <2> QED BY <1>4, <2>2
<1>6. Itemised(v)
  BY <1>1, <1>5, ItemisedAppend
<1>7. ASSUME NEW k \in 0 .. n + 1 PROVE Itemised(SubSeq(v, 1, k))
  <2>1. CASE k = n + 1
    BY <1>4, <1>6, <2>1
  <2>2. CASE k # n + 1
    <3>1. k \in 0 .. n
      BY <1>2, <2>2
    <3> QED BY <1>1, <1>3, <3>1 DEF ItemisedUpto
  <2> QED BY <2>1, <2>2
<1> QED BY <1>1, <1>2, <1>7 DEF ItemisedUpto

\* A stream that is not over has no end marker.
LEMMA NotOver ==
  ASSUME NEW w, NEW tr, NEW f, Streamed(w, tr, f)
  PROVE  ~\E i \in DOMAIN f : f[i].type = "[DONE]"
BY DEF Streamed, Ended

\* It holds at first.
LEMMA ChatInitially == ChatInit => ChatInv
<1> SUFFICES ASSUME ChatInit PROVE ChatInv
  OBVIOUS
<1>1. wire = <<>> /\ wire \in Seq(Events) /\ DOMAIN wire = {} /\ Len(wire) = 0
  BY DEF ChatInit
<1>2. upstream = "open" /\ cut = FALSE /\ read = 0 /\ sse = <<>> /\ translator = Untouched /\ DOMAIN sse = {}
  BY DEF ChatInit, Untouched
<1>3. Ordered(wire)
  BY <1>1 DEF Ordered
<1>4. ItemisedUpto(wire)
  <2>1. Itemised(<<>>)
    BY <1>1 DEF Itemised
  <2>2. SubSeq(wire, 1, 0) = <<>>
    BY <1>1
  <2>3. \A k \in 0 .. Len(wire) : k = 0
    BY <1>1
  <2> QED BY <2>1, <2>2, <2>3 DEF ItemisedUpto
<1>5. WireInv /\ SplitInv
  BY <1>1, <1>2, <1>3, <1>4 DEF WireInv, SplitInv, ChatInit
<1>6. ~Over
  BY <1>2 DEF Over
<1>7. Halves = 0
  BY <1>1, <1>2 DEF Halves
<1>8. Streamed(SubSeq(Got(wire, split), 1, read \div 2), translator, sse)
  <2>1. PICK w : w = Got(wire, split) /\ w \in Seq(Events)
    BY <1>1, GotEvents
  <2>2. SubSeq(w, 1, 0 \div 2) = <<>> /\ Streamed(<<>>, Untouched, <<>>)
    BY <2>1, Unread
  <2> QED BY <1>2, <2>1, <2>2, Zenon
<1>9. ReadInv
  BY <1>2, <1>6, <1>7, <1>8 DEF ReadInv
<1> QED BY <1>5, <1>9 DEF ChatInv

\* Upstream sends an event.
LEMMA SendKeeps ==
  ASSUME ChatInv, NEW e, Send(e), Fits(wire, e), Comes(wire, e)
  PROVE  ChatInv'
<1>1. PICK w, v : w = wire /\ v = Append(w, e)
  OBVIOUS
<1>2. /\ wire' = v /\ upstream = "open" /\ upstream' = upstream /\ cut' = cut /\ read' = read /\ sse' = sse
      /\ translator' = translator /\ split' = split /\ streaming' = streaming
  BY <1>1 DEF Send
<1>3. w \in Seq(Events) /\ Ordered(w) /\ ItemisedUpto(w) /\ Fits(w, e) /\ Comes(w, e)
  BY <1>1 DEF ChatInv, WireInv
<1>4. e \in Events
  BY <1>3 DEF Fits
<1>5. v \in Seq(Events) /\ Ordered(v) /\ ItemisedUpto(v) /\ Len(v) \in Nat
  BY <1>1, <1>3, <1>4, OrderedAppend, UptoAppend
<1>6. read = 0 /\ cut = FALSE /\ sse = <<>> /\ translator = Untouched /\ DOMAIN sse = {}
  BY <1>2 DEF ChatInv, ReadInv
<1>7. WireInv' /\ SplitInv' /\ split = {}
  BY <1>2, <1>5, <1>6 DEF ChatInv, WireInv, SplitInv
<1>8. ~Over'
  BY <1>2, <1>6 DEF Over
<1>9. Halves' \in Nat
  BY <1>2, <1>5, <1>6 DEF Halves
<1>10. Streamed(SubSeq(Got(v, {}), 1, 0 \div 2), Untouched, <<>>)
  <2>1. SubSeq(v, 1, 0 \div 2) = <<>> /\ Streamed(<<>>, Untouched, <<>>) /\ Got(v, {}) = v
    BY <1>5, Unread, GotWhole
  <2> QED BY <2>1, Zenon
<1>11. ReadInv'
  <2>1. read' = 0 /\ cut' = FALSE /\ sse' = <<>> /\ translator' = Untouched /\ wire' = v /\ split' = {}
    BY <1>2, <1>6, <1>7
  <2>2. 0 <= Halves'
    BY <1>9
  <2> QED BY <1>8, <1>10, <2>1, <2>2 DEF ReadInv
<1> QED BY <1>7, <1>11 DEF ChatInv

\* The connection ends.
LEMMA CloseKeeps == ASSUME ChatInv, Close PROVE ChatInv'
<1>1. /\ wire' = wire /\ upstream = "open" /\ upstream' \in {"eof", "broken"} /\ read' = read /\ sse' = sse
      /\ translator' = translator /\ split' = split /\ streaming' = streaming /\ cut' \in BOOLEAN /\ (cut' = TRUE => wire # <<>>)
  BY DEF Close
<1>2. read = 0 /\ cut = FALSE /\ sse = <<>> /\ translator = Untouched /\ DOMAIN sse = {}
  BY <1>1 DEF ChatInv, ReadInv
<1>3. WireInv' /\ SplitInv'
  BY <1>1 DEF ChatInv, WireInv, SplitInv
<1>4. ~Over /\ ~Over'
  BY <1>1, <1>2 DEF Over
<1>5. Halves' \in Nat
  <2>1. PICK n : n = Len(wire)
    OBVIOUS
  <2>2. n \in Nat /\ (wire # <<>> => n > 0)
    BY <2>1, EmptySeq DEF ChatInv, WireInv
  <2>3. Halves' = 2 * n - (IF cut' THEN 1 ELSE 0)
    BY <1>1, <2>1 DEF Halves
  <2> QED BY <1>1, <2>2, <2>3
<1>6. 0 <= Halves'
  BY <1>5
<1>7. ReadInv'
  <2>1. Streamed(SubSeq(Got(wire, split), 1, read \div 2), translator, sse)
    BY <1>4 DEF ChatInv, ReadInv
  <2> QED BY <1>1, <1>2, <1>4, <1>6, <2>1 DEF ReadInv
<1> QED BY <1>3, <1>7 DEF ChatInv

\* A chunk is read.
LEMMA ReadKeeps == ASSUME ChatInv, Read PROVE ChatInv'
<1>1. PICK to \in read + 1 .. read + MaxChunk :
        /\ to =< Halves /\ read' = to
        /\ translator' = Pushed(translator, Decoded(read, to)).tr
        /\ sse' = sse \o Pushed(translator, Decoded(read, to)).out
        /\ \/ split' = split
           \/ to % 2 = 1 /\ to < Halves /\ wire[to \div 2 + 1].kind \in Deltas /\ split' = split \cup {to \div 2 + 1}
  BY DEF Read
<1>2. wire' = wire /\ upstream # "open" /\ upstream' = upstream /\ cut' = cut /\ streaming = TRUE /\ streaming' = streaming
  BY DEF Read, sender, ChatInv, SplitInv
<1>3. WireInv /\ WireInv'
  BY <1>2 DEF ChatInv, WireInv
<1>4. Halves \in Nat /\ Halves' = Halves /\ Halves \div 2 \in Nat /\ Halves \div 2 <= Len(wire) /\ Halves <= 2 * Len(wire)
  BY <1>2, <1>3, HalvesRange DEF Halves
<1>5. read \in Nat /\ to \in Nat /\ read < to
  BY <1>4 DEF ChatInv, ReadInv, StreamBoundAssumption
<1>6. ~Over
  BY <1>1, <1>4, <1>5 DEF ChatInv, ReadInv
<1>7. PICK w, g, sp, m, n, events, tr, base, p :
        /\ w = wire /\ sp = split /\ g = Got(w, sp) /\ m = read \div 2 /\ n = to \div 2 /\ events = Decoded(read, to)
        /\ tr = translator /\ base = sse /\ p = Pushed(tr, events)
  OBVIOUS
<1>8. w \in Seq(Events) /\ Ordered(w)
  BY <1>3, <1>7 DEF WireInv
<1>9. m \in Nat /\ n \in Nat /\ m <= n /\ n <= Len(w)
  <2>1. m \in Nat /\ n \in Nat /\ m <= n
    BY <1>5, <1>7
  <2>2. n <= Halves \div 2
    BY <1>1, <1>4, <1>5, <1>7
  <2> QED BY <1>4, <1>7, <1>8, <2>1, <2>2
<1>10. Streamed(SubSeq(g, 1, m), tr, base)
  BY <1>6, <1>7 DEF ChatInv, ReadInv
<1>11. g \in Seq(Events) /\ Ordered(g) /\ Len(g) = Len(w)
  BY <1>7, <1>8, GotEvents, GotOrdered
<1>12. Len(events) = n - m /\ \A k \in 1 .. n - m : events[k] = g[m + k]
  <2>1. PICK d : d = n - m /\ d \in Nat
    BY <1>9
  <2>2. events = [i \in 1 .. d |-> IF m + i \in sp THEN Replaced(w[m + i]) ELSE w[m + i]]
    BY <1>7, <2>1, Zenon DEF Decoded, Replaced
  <2>3. ASSUME NEW k \in 1 .. d PROVE events[k] = g[m + k] /\ g[m + k] \in Events
    <3>1. m + k \in DOMAIN w /\ m + k \in 1 .. Len(g)
      BY <1>8, <1>9, <1>11, <2>1
    <3>2. g[m + k] = IF m + k \in sp THEN Replaced(w[m + k]) ELSE w[m + k]
      BY <1>7, <3>1 DEF Got
    <3> QED BY <1>11, <2>2, <3>1, <3>2
  <2>4. events = [i \in 1 .. d |-> events[i]]
    BY <2>2
  <2>5. events \in Seq(Events) /\ Len(events) = d
    BY <2>1, <2>3, <2>4
  <2> QED BY <2>1, <2>3, <2>5
<1>13. p.out \in Seq(FrameSet) /\ Streamed(SubSeq(g, 1, n), p.tr, base \o p.out)
  <2>1. p = Pushed(tr, events)
    BY <1>7
  <2>2. n <= Len(g)
    BY <1>9, <1>11
  <2> QED BY <1>9, <1>10, <1>11, <1>12, <2>1, <2>2, ChunkPushed
<1>14. PICK extra : split' = sp \cup extra /\ extra \subseteq {i \in DOMAIN w : i > n} /\ extra \subseteq {i \in DOMAIN w : w[i].kind \in Deltas}
  <2>1. CASE split' = split
    <3>1. PICK none : none = {}
      OBVIOUS
    <3>2. split' = sp \cup none
      BY <1>7, <2>1, <3>1
    <3>3. none \subseteq {i \in DOMAIN w : i > n} /\ none \subseteq {i \in DOMAIN w : w[i].kind \in Deltas}
      BY <3>1
    <3> QED BY <3>2, <3>3
  <2>2. CASE to % 2 = 1 /\ to < Halves /\ wire[to \div 2 + 1].kind \in Deltas /\ split' = split \cup {to \div 2 + 1}
    <3>1. to = 2 * n + 1
      BY <1>5, <1>7, <2>2
    <3>2. n + 1 \in DOMAIN w
      BY <1>4, <1>5, <1>7, <1>8, <1>9, <2>2, <3>1
    <3>3. {n + 1} \subseteq {i \in DOMAIN w : i > n} /\ {n + 1} \subseteq {i \in DOMAIN w : w[i].kind \in Deltas}
      BY <1>7, <1>9, <2>2, <3>2
    <3> QED BY <1>7, <2>2, <3>3
  <2> QED BY <1>1, <2>1, <2>2
<1>15. SubSeq(Got(w, sp \cup extra), 1, n) = SubSeq(g, 1, n)
  <2>1. n \in 0 .. Len(w) /\ extra \subseteq {i \in DOMAIN w : i > n}
    BY <1>9, <1>14
  <2>2. SubSeq(Got(w, sp \cup extra), 1, n) = SubSeq(Got(w, sp), 1, n)
    BY <1>8, <2>1, GotPrefix
  <2> QED BY <1>7, <2>2
<1>16. translator' = p.tr /\ sse' = base \o p.out /\ read' = to
  BY <1>1, <1>7
<1>17. Streamed(SubSeq(Got(wire', split'), 1, read' \div 2), translator', sse')
  BY <1>2, <1>7, <1>13, <1>14, <1>15, <1>16
<1>18. ~Over'
  BY <1>17, NotOver DEF Over
<1>19. ReadInv'
  BY <1>1, <1>2, <1>4, <1>5, <1>17, <1>18 DEF ReadInv
<1>20. SplitInv'
  BY <1>2, <1>7, <1>14 DEF ChatInv, SplitInv
<1> QED BY <1>3, <1>19, <1>20 DEF ChatInv

\* The stream is at its end.
LEMMA EndKeeps == ASSUME ChatInv, StreamEnd PROVE ChatInv'
<1>1. /\ read = Halves /\ ~Over /\ read' = read /\ wire' = wire /\ upstream # "open" /\ upstream' = upstream /\ cut' = cut
      /\ split' = split /\ streaming' = streaming
      /\ sse' = (sse \o Finish(translator).out) \o <<Plain("[DONE]")>>
  BY DEF StreamEnd, sender, Over
<1>2. WireInv /\ WireInv' /\ SplitInv'
  BY <1>1 DEF ChatInv, WireInv, SplitInv
<1>3. Halves \in Nat /\ Halves' = Halves
  BY <1>1, <1>2, HalvesRange DEF Halves
<1>4. PICK w, tr, f, y : /\ w = SubSeq(Got(wire, split), 1, Halves \div 2) /\ tr = translator /\ f = sse
                         /\ y = Plain(IF tr.index # <<>> THEN "tool_calls" ELSE "stop")
  OBVIOUS
<1>5. Streamed(w, tr, f)
  BY <1>1, <1>3, <1>4 DEF ChatInv, ReadInv
<1>6. f \in Seq(FrameSet) /\ tr.finished \in BOOLEAN
  BY <1>5 DEF Streamed, Translators
<1>7. y \in FrameSet /\ Plain("[DONE]") \in FrameSet
  BY <1>4, EmptySeq DEF Plain, Chunk, FrameSet, FrameTypes, Bodies, Ending
<1>8. f \o Finish(tr).out = Closing(tr, f) /\ Closing(tr, f) \in Seq(FrameSet)
  <2>1. CASE tr.finished
    <3>1. Finish(tr).out = <<>> /\ Closing(tr, f) = f
      BY <2>1 DEF Finish, Closing
    <3> QED BY <1>6, <3>1, ConcatEmptySeq
  <2>2. CASE ~tr.finished
    <3>1. Finish(tr).out = <<y>> /\ Closing(tr, f) = Append(f, y)
      BY <1>4, <2>2 DEF Finish, Closing
    <3> QED BY <1>6, <1>7, <3>1, AppendIsConcat, AppendProperties
  <2> QED BY <2>1, <2>2
<1>9. sse' = Append(Closing(tr, f), Plain("[DONE]"))
  <2>1. PICK g, d : g = Closing(tr, f) /\ d = Plain("[DONE]")
    OBVIOUS
  <2>2. sse' = g \o <<d>>
    BY <1>1, <1>4, <1>8, <2>1
  <2>3. g \o <<d>> = Append(g, d)
    BY <1>7, <1>8, <2>1, AppendIsConcat
  <2> QED BY <2>1, <2>2, <2>3
<1>10. Closed(SubSeq(Got(wire', split'), 1, Halves' \div 2), sse')
  BY <1>1, <1>3, <1>4, <1>5, <1>9 DEF Closed
<1>11. Over'
  <2>1. PICK g, d, n : g = Closing(tr, f) /\ d = Plain("[DONE]") /\ n = Len(g)
    OBVIOUS
  <2>2. n + 1 \in DOMAIN sse' /\ sse'[n + 1] = d
    BY <1>7, <1>8, <1>9, <2>1, AppendProperties
  <2>3. d.type = "[DONE]"
    BY <2>1 DEF Plain, Chunk
  <2> QED BY <2>2, <2>3 DEF Over
<1>12. ReadInv'
  BY <1>1, <1>3, <1>10, <1>11 DEF ReadInv
<1> QED BY <1>2, <1>12 DEF ChatInv

\* Every step keeps it.
LEMMA ChatKeeps == ChatInv /\ [ChatNext]_chatVars => ChatInv'
<1> SUFFICES ASSUME ChatInv, [ChatNext]_chatVars PROVE ChatInv'
  OBVIOUS
<1>1. ASSUME NEW e, Send(e),
         \/ SendText /\ e = Event("text", NoCall, <<Len(wire) + 1>>)
         \/ \E c \in Calls : SendAdded(c) /\ e = Event("added", c, <<>>)
         \/ \E c \in Calls : SendArgs(c) /\ e = Event("args", c, <<Len(wire) + 1>>)
         \/ \E c \in Calls \cup {NoCall} :
              SendItem(c) /\ e = Event("item", c, Body(IF c = NoCall THEN "text" ELSE "args", c))
         \/ Unfinished = {} /\ e = Event("completed", NoCall, <<>>)
         \/ \E kind \in {"truncated", "failed", "error"} : e = Event(kind, NoCall, <<>>)
      PROVE ChatInv'
  <2>1. Fits(wire, e) /\ Comes(wire, e)
    BY <1>1, UpstreamSends DEF ChatInv
  <2> QED BY <1>1, <2>1, SendKeeps
<1>2. CASE SendText
  <2>1. Send(Event("text", NoCall, <<Len(wire) + 1>>))
    BY <1>2 DEF SendText
  <2> QED BY <1>1, <1>2, <2>1
<1>3. ASSUME NEW c \in Calls, SendAdded(c) PROVE ChatInv'
  <2>1. Send(Event("added", c, <<>>))
    BY <1>3 DEF SendAdded
  <2> QED BY <1>1, <1>3, <2>1
<1>4. ASSUME NEW c \in Calls, SendArgs(c) PROVE ChatInv'
  <2>1. Send(Event("args", c, <<Len(wire) + 1>>))
    BY <1>4 DEF SendArgs
  <2> QED BY <1>1, <1>4, <2>1
<1>5. ASSUME NEW c \in Calls \cup {NoCall}, SendItem(c) PROVE ChatInv'
  <2>1. Send(Event("item", c, Body(IF c = NoCall THEN "text" ELSE "args", c)))
    BY <1>5 DEF SendItem
  <2> QED BY <1>1, <1>5, <2>1
<1>6. CASE SendTerminal
  <2>1. CASE Unfinished = {} /\ Send(Event("completed", NoCall, <<>>))
    BY <1>1, <2>1
  <2>2. CASE Send(Event("truncated", NoCall, <<>>))
    BY <1>1, <2>2
  <2>3. CASE Send(Event("failed", NoCall, <<>>))
    BY <1>1, <2>3
  <2>4. CASE Send(Event("error", NoCall, <<>>))
    BY <1>1, <2>4
  <2> QED BY <1>6, <2>1, <2>2, <2>3, <2>4 DEF SendTerminal
<1>7. CASE Close
  BY <1>7, CloseKeeps
<1>8. CASE Read
  BY <1>8, ReadKeeps
<1>9. CASE StreamEnd
  BY <1>9, EndKeeps
<1>10. ASSUME UNCHANGED <<wire, upstream, cut, read, sse, translator, split, streaming>> PROVE ChatInv'
  <2>1. Over' = Over /\ Halves' = Halves
    BY <1>10 DEF Over, Halves
  <2>2. WireInv' = WireInv /\ SplitInv' = SplitInv
    BY <1>10 DEF WireInv, SplitInv
  <2>3. ReadInv' = ReadInv
    BY <1>10, <2>1 DEF ReadInv
  <2> QED BY <2>2, <2>3 DEF ChatInv
<1>11. CASE Reply
  BY <1>10, <1>11 DEF Reply, sender
<1>12. CASE UNCHANGED chatVars
  BY <1>10, <1>12 DEF chatVars, sender
<1> QED BY <1>2, <1>3, <1>4, <1>5, <1>6, <1>7, <1>8, <1>9, <1>11, <1>12 DEF ChatNext, Upstream

\* The invariant of the translation.
THEOREM ChatInvariant == ChatSpec => []ChatInv
<1>1. ChatInit => ChatInv
  BY ChatInitially
<1>2. ChatInv /\ [ChatNext]_chatVars => ChatInv'
  BY ChatKeeps
<1> QED BY <1>1, <1>2, PTL DEF ChatSpec

-----------------------------------------------------------------------------
\* The frames s of the events w are over at k.
EndsAt(w, s, k) ==
  /\ DOMAIN s = 1 .. k + 1 /\ Len(s) = k + 1 /\ s[k + 1].type = "[DONE]"
  /\ \A i \in 1 .. k : s[i].type # "[DONE]"
  /\ \E i \in 1 .. k : s[i].type \in Ending
  /\ \A i, j \in 1 .. k : i < j /\ s[i].type \in Ending => s[j].type \notin Normal
  /\ Lasting(w) => \A i \in 1 .. k : s[i].type \in Ending => i = k

\* Those of a stream that is over are.
LEMMA ClosedEnds ==
  ASSUME NEW w, NEW s, Closed(w, s)
  PROVE  \E k \in Nat : EndsAt(w, s, k)
<1>1. PICK tr, f, g, d : Streamed(w, tr, f) /\ g = Closing(tr, f) /\ d = Plain("[DONE]") /\ s = Append(g, d)
  BY DEF Closed
<1>2. f \in Seq(FrameSet) /\ tr.finished \in BOOLEAN /\ Ended(w, tr, f)
  BY <1>1 DEF Streamed, Translators
<1>3. d \in FrameSet /\ d.type = "[DONE]"
  BY <1>1, EmptySeq DEF Plain, Chunk, FrameSet, FrameTypes, Bodies, Ending
<1> DEFINE Over1(k) == /\ g \in Seq(FrameSet) /\ Len(g) = k /\ DOMAIN g = 1 .. k
                       /\ \A i \in 1 .. k : g[i].type # "[DONE]"
                       /\ \E i \in 1 .. k : g[i].type \in Ending
                       /\ \A i, j \in 1 .. k : i < j /\ g[i].type \in Ending => g[j].type \notin Normal
                       /\ Lasting(w) => \A i \in 1 .. k : g[i].type \in Ending => i = k
<1>4. \E k \in Nat : Over1(k)
  <2>1. PICK n : n = Len(f)
    OBVIOUS
  <2>2. n \in Nat /\ DOMAIN f = 1 .. n
    BY <1>2, <2>1
  <2>3. CASE tr.finished = TRUE
    <3>1. g = f
      BY <1>1, <2>3 DEF Closing
    <3>2. \E i \in DOMAIN f : f[i].type \in Ending
      BY <1>2, <2>3 DEF Ended
    <3>3. Over1(n)
      BY <1>2, <2>1, <2>2, <3>1, <3>2 DEF Ended
    <3> QED BY <2>2, <3>3
  <2>4. CASE tr.finished = FALSE
    <3>1. PICK y : y = Plain(IF tr.index # <<>> THEN "tool_calls" ELSE "stop")
      OBVIOUS
    <3>2. g = Append(f, y)
      BY <1>1, <2>4, <3>1 DEF Closing
    <3>3. y \in FrameSet /\ y.type \in Ending /\ y.type # "[DONE]"
      BY <3>1, EmptySeq DEF Plain, Chunk, FrameSet, FrameTypes, Bodies, Ending
    <3>4. \A i \in 1 .. n : f[i].type \notin Ending /\ f[i].type # "[DONE]"
      BY <1>2, <2>2, <2>4 DEF Ended
    <3>5. /\ g \in Seq(FrameSet) /\ Len(g) = n + 1 /\ DOMAIN g = 1 .. n + 1 /\ g[n + 1] = y
          /\ \A i \in 1 .. n : g[i] = f[i]
          /\ \A i \in 1 .. n + 1 : i = n + 1 \/ i \in 1 .. n
      BY <1>2, <2>1, <3>2, <3>3, AppendLonger DEF Longer
    <3>6. n + 1 \in 1 .. n + 1 /\ n + 1 \in Nat
      BY <2>2
    <3>7. \A i \in 1 .. n + 1 : g[i].type # "[DONE]" /\ (g[i].type \in Ending => i = n + 1)
      BY <3>3, <3>4, <3>5
    <3>8. \A i, j \in 1 .. n + 1 : i < j /\ g[i].type \in Ending => g[j].type \notin Normal
      <4>1. \A j \in 1 .. n + 1 : ~(n + 1 < j)
        BY <2>2
      <4> QED BY <3>7, <4>1
    <3>9. Over1(n + 1)
      BY <3>3, <3>5, <3>6, <3>7, <3>8
    <3> HIDE DEF Over1
    <3> QED BY <3>6, <3>9
  <2> QED BY <1>2, <2>3, <2>4
<1>5. PICK k \in Nat : Over1(k)
  BY <1>4
<1>6. /\ Len(s) = k + 1 /\ DOMAIN s = 1 .. k + 1 /\ s[k + 1] = d /\ \A i \in 1 .. k : s[i] = g[i]
  BY <1>1, <1>3, <1>5, AppendLonger DEF Longer
<1>7. EndsAt(w, s, k)
  BY <1>3, <1>5, <1>6 DEF EndsAt
<1> QED BY <1>7

\* What was read of a stream that ends with its final event.
LEMMA ReadLasts ==
  ASSUME WireInv, EndsWithFinal, NEW k \in Nat, k <= Halves \div 2
  PROVE  Lasting(SubSeq(Got(wire, split), 1, k))
<1>1. PICK w, g, h, u : w = wire /\ g = Got(wire, split) /\ h = Halves \div 2 /\ u = SubSeq(g, 1, k)
  OBVIOUS
<1>2. w \in Seq(Events) /\ h \in Nat /\ h <= Len(w) /\ Whole = SubSeq(w, 1, h) /\ k <= h
  BY <1>1, HalvesRange DEF WireInv
<1>3. g \in Seq(Events) /\ Len(g) = Len(w) /\ \A i \in DOMAIN w : g[i].kind = w[i].kind
  BY <1>1, <1>2, GotEvents
<1>4. Len(Whole) = h /\ DOMAIN Whole = 1 .. h /\ \A i \in 1 .. h : Whole[i] = w[i]
  BY <1>2
<1>5. Len(u) = k /\ DOMAIN u = 1 .. k /\ \A i \in 1 .. k : u[i] = g[i]
  BY <1>1, <1>2, <1>3
<1>6. ASSUME NEW i \in 1 .. k, u[i].kind \in Final PROVE i = k
  <2>1. i \in 1 .. h /\ i \in DOMAIN w
    BY <1>2
  <2>2. Whole[i].kind \in Final
    BY <1>3, <1>4, <1>5, <1>6, <2>1
  <2>3. i = h
    BY <1>4, <2>1, <2>2 DEF EndsWithFinal
  <2> QED BY <1>2, <2>3
<1>7. Lasting(u)
  BY <1>5, <1>6 DEF Lasting
<1> QED BY <1>1, <1>7

\* However the stream is cut and ends, and whatever upstream says after its final
\* event, [DONE] is last, behind a terminal chunk; a normal end is told once and
\* never after a failure; and when nothing follows the final event nothing but
\* [DONE] follows the one terminal chunk (SseTranslator::push and finish, and the
\* streaming arm of `forward`).
THEOREM OneTerminalChunk == ChatSpec => []EndsOnce
<1>1. ASSUME ChatInv PROVE EndsOnce
  <2>0. Ends = {i \in DOMAIN sse : sse[i].type \in Ending}
    BY DEF Ends, Ending
  <2>1. CASE Over
    <3>1. PICK w : w = SubSeq(Got(wire, split), 1, Halves \div 2)
      OBVIOUS
    <3>2. Closed(w, sse)
      BY <1>1, <2>1, <3>1 DEF ChatInv, ReadInv
    <3>3. PICK k \in Nat : EndsAt(w, sse, k)
      BY <3>2, ClosedEnds, Zenon
    <3>4. EndsWithFinal => Lasting(w)
      <4>1. Halves \div 2 \in Nat /\ Halves \div 2 <= Halves \div 2
        BY <1>1, HalvesRange DEF ChatInv
      <4> QED BY <1>1, <3>1, <4>1, ReadLasts DEF ChatInv
    <3>5. /\ DOMAIN sse = 1 .. k + 1 /\ Len(sse) = k + 1 /\ sse[k + 1].type = "[DONE]"
          /\ \A i \in 1 .. k : sse[i].type # "[DONE]"
          /\ \A i \in 1 .. k + 1 : i = k + 1 \/ i \in 1 .. k
          /\ k + 1 \in 1 .. k + 1 /\ \A i \in 1 .. k : i \in 1 .. k + 1
      BY <3>3 DEF EndsAt
    <3>6. "[DONE]" \notin Ending /\ "[DONE]" \notin Normal
      BY DEF Ending, Normal
    <3>7. Ends # {}
      BY <2>0, <3>3, <3>5 DEF EndsAt
    <3>8. ASSUME NEW i \in Ends, NEW j \in Ends, i < j PROVE sse[j].type \notin Normal
      <4>1. i \in 1 .. k /\ j \in 1 .. k
        BY <2>0, <3>5, <3>6
      <4> QED BY <2>0, <3>3, <3>8, <4>1 DEF EndsAt
    <3>9. ASSUME EndsWithFinal, NEW i \in Ends, NEW j \in DOMAIN sse, j > i PROVE sse[j].type = "[DONE]"
      <4>1. i \in 1 .. k
        BY <2>0, <3>5, <3>6
      <4>2. i = k
        BY <2>0, <3>3, <3>4, <3>9, <4>1 DEF EndsAt
      <4>3. j = k + 1
        BY <3>5, <3>9, <4>2
      <4> QED BY <3>5, <4>3
    <3> QED BY <3>5, <3>7, <3>8, <3>9 DEF EndsOnce
  <2>2. CASE ~Over
    <3>1. PICK w, tr, f : w = SubSeq(Got(wire, split), 1, read \div 2) /\ f = sse /\ tr = translator /\ Streamed(w, tr, f)
      BY <1>1, <2>2 DEF ChatInv, ReadInv
    <3>2. DOMAIN f = 1 .. Len(f) /\ Len(f) \in Nat /\ Ended(w, tr, f)
      BY <3>1 DEF Streamed
    <3>3. EndsWithFinal => Lasting(w)
      <4>1. PICK h, q : h = Halves /\ q = read
        OBVIOUS
      <4>2. h \in Nat /\ q \in Nat /\ q <= h
        BY <1>1, <4>1, HalvesRange DEF ChatInv, ReadInv
      <4>3. q \div 2 \in Nat /\ q \div 2 <= h \div 2
        BY <4>2
      <4> QED BY <1>1, <3>1, <4>1, <4>3, ReadLasts DEF ChatInv
    <3>4. \A i \in DOMAIN sse : sse[i].type # "[DONE]"
      BY <3>1, <3>2 DEF Ended
    <3>5. \A i, j \in Ends : i < j => sse[j].type \notin Normal
      BY <2>0, <3>1, <3>2 DEF Ended
    <3>6. ASSUME EndsWithFinal, NEW i \in Ends, NEW j \in DOMAIN sse, j > i PROVE sse[j].type = "[DONE]"
      <4>1. i = Len(f)
        BY <2>0, <3>1, <3>2, <3>3, <3>6 DEF Ended
      <4> QED BY <3>1, <3>2, <3>6, <4>1
    <3> QED BY <2>2, <3>4, <3>5, <3>6 DEF EndsOnce
  <2> QED BY <2>1, <2>2
<1> QED BY <1>1, ChatInvariant, PTL

-----------------------------------------------------------------------------
(* What flattening leaves. *)

\* The elements of two sequences, one behind the other.
LEMMA ConcatElements ==
  ASSUME NEW S, NEW a \in Seq(S), NEW b \in Seq(S), NEW c, c = a \o b, NEW x
  PROVE  x \in ToSet(c) <=> x \in ToSet(a) \/ x \in ToSet(b)
<1>1. PICK p, q : p = Len(a) /\ q = Len(b)
  OBVIOUS
<1>2. p \in Nat /\ q \in Nat /\ DOMAIN a = 1 .. p /\ DOMAIN b = 1 .. q
  BY <1>1
<1>3. c \in Seq(S) /\ Len(c) = p + q /\ \A i \in 1 .. p + q : c[i] = IF i <= p THEN a[i] ELSE b[i - p]
  BY <1>1, ConcatProperties
<1>4. DOMAIN c = 1 .. p + q
  BY <1>2, <1>3, LenProperties
<1>5. ASSUME NEW i \in 1 .. p PROVE i \in 1 .. p + q /\ c[i] = a[i]
  BY <1>2, <1>3
<1>6. ASSUME NEW i \in 1 .. q PROVE p + i \in 1 .. p + q /\ c[p + i] = b[i]
  <2>1. p + i \in 1 .. p + q /\ ~(p + i <= p) /\ (p + i) - p = i
    BY <1>2
  <2> QED BY <1>3, <2>1
<1>7. ASSUME NEW i \in 1 .. p + q PROVE (\E j \in 1 .. p : c[i] = a[j]) \/ (\E j \in 1 .. q : c[i] = b[j])
  <2>1. CASE i <= p
    <3>1. i \in 1 .. p
      BY <1>2, <2>1
    <3> QED BY <1>5, <3>1
  <2>2. CASE ~(i <= p)
    <3>1. i - p \in 1 .. q
      BY <1>2, <2>2
    <3> QED BY <1>3, <2>2, <3>1
  <2> QED BY <2>1, <2>2
<1>8. ASSUME x \in ToSet(c) PROVE x \in ToSet(a) \/ x \in ToSet(b)
  <2>1. PICK i \in 1 .. p + q : x = c[i]
    BY <1>4, <1>8 DEF ToSet
  <2> QED BY <1>2, <1>7, <2>1 DEF ToSet
<1>9. ASSUME x \in ToSet(a) PROVE x \in ToSet(c)
  <2>1. PICK i \in 1 .. p : x = a[i]
    BY <1>2, <1>9 DEF ToSet
  <2> QED BY <1>4, <1>5, <2>1 DEF ToSet
<1>10. ASSUME x \in ToSet(b) PROVE x \in ToSet(c)
  <2>1. PICK i \in 1 .. q : x = b[i]
    BY <1>2, <1>10 DEF ToSet
  <2> QED BY <1>4, <1>6, <2>1 DEF ToSet
<1> QED BY <1>8, <1>9, <1>10

\* Its elements are those of the pieces.
LEMMA FlattenElements ==
  ASSUME NEW S, NEW ss \in Seq(Seq(S)), NEW x
  PROVE  x \in ToSet(FlattenSeq(ss)) <=> \E i \in 1 .. Len(ss) : x \in ToSet(ss[i])
<1>1. PICK n : n = Len(ss)
  OBVIOUS
<1>2. n \in Nat /\ \A k \in 1 .. n : ss[k] \in Seq(S)
  BY <1>1
<1>3. PICK sums : Sums(S, ss, sums)
  BY SumsExist
<1>4. sums \in [0 .. n -> Seq(S)] /\ sums[0] = <<>> /\ \A k \in 1 .. n : sums[k] = sums[k - 1] \o ss[k]
  BY <1>1, <1>3 DEF Sums
<1> DEFINE Holds(k) == x \in ToSet(sums[k]) <=> \E i \in 1 .. k : x \in ToSet(ss[i])
           D == {k \in 0 .. n : ~Holds(k)}
<1>5. Holds(0)
  BY <1>4 DEF ToSet
<1>6. ASSUME NEW k \in 1 .. n, Holds(k - 1) PROVE Holds(k)
  <2>1. PICK a, b, c : a = sums[k - 1] /\ b = ss[k] /\ c = a \o b
    OBVIOUS
  <2>2. k - 1 \in 0 .. n
    BY <1>2
  <2>3. a \in Seq(S) /\ b \in Seq(S) /\ c = sums[k]
    BY <1>2, <1>4, <2>1, <2>2
  <2>4. x \in ToSet(c) <=> x \in ToSet(a) \/ x \in ToSet(b)
    <3>1. c = a \o b /\ a \in Seq(S) /\ b \in Seq(S)
      BY <2>1, <2>3
    <3> QED BY <3>1, ConcatElements
  <2>5. (\E i \in 1 .. k : x \in ToSet(ss[i])) <=> (\E i \in 1 .. k - 1 : x \in ToSet(ss[i])) \/ x \in ToSet(ss[k])
    <3>1. \A i \in 1 .. k : i \in 1 .. k - 1 \/ i = k
      BY <1>2
    <3>2. k \in 1 .. k /\ \A i \in 1 .. k - 1 : i \in 1 .. k
      BY <1>2
    <3> QED BY <3>1, <3>2
  <2> QED BY <1>6, <2>1, <2>3, <2>4, <2>5
<1> HIDE DEF Holds
<1>7. D = {}
  <2> SUFFICES ASSUME D # {} PROVE FALSE
    OBVIOUS
  <2>1. D \in SUBSET Nat
    BY <1>2
  <2>2. PICK k \in D : \A j \in D : k <= j
    <3> HIDE DEF D
    <3> QED BY <2>1, Least
  <2>3. k # 0
    BY <1>5
  <2>4. k - 1 \in 0 .. n /\ ~(k <= k - 1) /\ k \in 1 .. n
    BY <1>2, <2>3
  <2>5. Holds(k - 1)
    BY <2>2, <2>4
  <2> QED BY <1>6, <2>4, <2>5
<1>8. Holds(n)
  <2>1. n \in 0 .. n
    BY <1>2
  <2> QED BY <1>7, <2>1
<1>9. FlattenSeq(ss) = sums[n]
  BY <1>1, <1>3, SumsFlatten
<1> QED BY <1>1, <1>8, <1>9 DEF Holds

\* When one piece has all of it, it is that piece.
LEMMA FlattenSingle ==
  ASSUME NEW S, NEW ss \in Seq(Seq(S)), NEW l \in 1 .. Len(ss), \A i \in 1 .. Len(ss) : i # l => ss[i] = <<>>
  PROVE  FlattenSeq(ss) = ss[l]
<1>1. PICK n, b : n = Len(ss) /\ b = ss[l]
  OBVIOUS
<1>2. n \in Nat /\ (\A k \in 1 .. n : ss[k] \in Seq(S)) /\ l \in 1 .. n /\ b \in Seq(S)
  BY <1>1
<1>3. PICK sums : sums = [k \in 0 .. n |-> IF k < l THEN <<>> ELSE b]
  OBVIOUS
<1>4. Sums(S, ss, sums)
  <2>1. sums \in [0 .. n -> Seq(S)]
    BY <1>2, <1>3
  <2>2. sums[0] = <<>>
    BY <1>2, <1>3
  <2>3. ASSUME NEW k \in 1 .. n PROVE sums[k] = sums[k - 1] \o ss[k]
    <3>1. k \in 0 .. n /\ k - 1 \in 0 .. n
      BY <1>2
    <3>2. <<>> \o <<>> = <<>> /\ <<>> \o b = b /\ b \o <<>> = b
      BY <1>2, ConcatEmptySeq, EmptySeq
    <3>3. CASE k < l
      <4>1. sums[k] = <<>> /\ sums[k - 1] = <<>> /\ ss[k] = <<>>
        BY <1>1, <1>2, <1>3, <3>1, <3>3
      <4> QED BY <3>2, <4>1
    <3>4. CASE k = l
      <4>1. sums[k] = b /\ sums[k - 1] = <<>> /\ ss[k] = b
        BY <1>1, <1>2, <1>3, <3>1, <3>4
      <4> QED BY <3>2, <4>1
    <3>5. CASE k > l
      <4>1. ~(k < l) /\ ~(k - 1 < l) /\ k # l
        BY <1>2, <3>5
      <4>2. sums[k] = b /\ sums[k - 1] = b
        BY <1>3, <3>1, <4>1
      <4>3. ss[k] = <<>>
        BY <1>1, <4>1
      <4> QED BY <3>2, <4>2, <4>3
    <3>6. k < l \/ k = l \/ k > l
      BY <1>2
    <3> QED BY <3>3, <3>4, <3>5, <3>6
  <2> QED BY <1>1, <2>1, <2>2, <2>3 DEF Sums
<1>5. FlattenSeq(ss) = sums[n]
  BY <1>1, <1>4, SumsFlatten
<1>6. sums[n] = b
  BY <1>2, <1>3
<1> QED BY <1>1, <1>5, <1>6

\* The one event of a kind about a call says all that those events say.
LEMMA BodySingle ==
  ASSUME NEW w \in Seq(Events), NEW kind, NEW c, NEW l \in DOMAIN w, w[l].kind = kind, w[l].call = c,
         \A i \in DOMAIN w : w[i].kind = kind /\ w[i].call = c => i = l
  PROVE  BodyOf(w, kind, c) = w[l].body
<1>1. PICK n : n = Len(w)
  OBVIOUS
<1>2. n \in Nat /\ DOMAIN w = 1 .. n /\ \A i \in 1 .. n : w[i] \in Events
  BY <1>1
<1> DEFINE part(d) == IF d.kind = kind /\ d.call = c THEN d.body ELSE <<>>
           ss == [i \in 1 .. n |-> part(w[i])]
<1>3. \A d \in Events : part(d) \in Seq(Int)
  BY DEF Events, Bodies
<1>4. part(w[l]) = w[l].body /\ \A i \in 1 .. n : i # l => part(w[i]) = <<>>
  BY <1>2
<1>5. BodyOf(w, kind, c) = FlattenSeq(ss)
  BY <1>2, Zenon DEF BodyOf
<1> HIDE DEF part
<1>6. ss \in Seq(Seq(Int)) /\ Len(ss) = n
  BY <1>2, <1>3
<1>7. ss[l] = w[l].body /\ l \in 1 .. n /\ \A i \in 1 .. n : i # l => ss[i] = <<>>
  BY <1>2, <1>4
<1> HIDE DEF ss
<1>8. FlattenSeq(ss) = ss[l]
  BY <1>6, <1>7, FlattenSingle
<1> QED BY <1>5, <1>7, <1>8

-----------------------------------------------------------------------------
\* ss has the values at the places Q, one in a piece.
Picks(S, n, val, Q, ss) ==
  /\ n \in Nat /\ val \in [1 .. n -> S] /\ Q \in SUBSET (1 .. n)
  /\ ss = [i \in 1 .. n |-> IF i \in Q THEN <<val[i]>> ELSE <<>>]

\* s has those values.
Picked(S, val, Q, s) == s \in Seq(S) /\ \A x : x \in ToSet(s) <=> \E i \in Q : x = val[i]

\* Those are what flattening leaves.
LEMMA FlattenPicked ==
  ASSUME NEW S, NEW n, NEW val, NEW Q, NEW ss, Picks(S, n, val, Q, ss)
  PROVE  Picked(S, val, Q, FlattenSeq(ss))
<1>0. /\ n \in Nat /\ val \in [1 .. n -> S] /\ Q \in SUBSET (1 .. n)
      /\ ss = [i \in 1 .. n |-> IF i \in Q THEN <<val[i]>> ELSE <<>>]
  BY DEF Picks
<1>1. ss \in Seq(Seq(S)) /\ Len(ss) = n
  <2>1. \A i \in 1 .. n : (IF i \in Q THEN <<val[i]>> ELSE <<>>) \in Seq(S)
    BY <1>0
  <2>2. ss \in [1 .. n -> Seq(S)]
    BY <1>0, <2>1, Zenon
  <2> QED BY <1>0, <2>2
<1>2. FlattenSeq(ss) \in Seq(S)
  <2>1. PICK sums : Sums(S, ss, sums)
    BY <1>1, SumsExist
  <2> QED BY <1>1, <2>1, SumsFlatten
<1>3. ASSUME NEW x PROVE x \in ToSet(FlattenSeq(ss)) <=> \E i \in Q : x = val[i]
  <2>1. x \in ToSet(FlattenSeq(ss)) <=> \E i \in 1 .. n : x \in ToSet(ss[i])
    BY <1>1, FlattenElements
  <2>2. \A y : ToSet(<<y>>) = {y}
    BY DEF ToSet
  <2>3. ToSet(<<>>) = {}
    BY DEF ToSet
  <2>4. ASSUME NEW i \in 1 .. n PROVE x \in ToSet(ss[i]) <=> i \in Q /\ x = val[i]
    <3>1. ss[i] = IF i \in Q THEN <<val[i]>> ELSE <<>>
      BY <1>0
    <3>2. CASE i \in Q
      <4>1. ss[i] = <<val[i]>>
        BY <3>1, <3>2
      <4> QED BY <2>2, <3>2, <4>1
    <3>3. CASE i \notin Q
      <4>1. ss[i] = <<>>
        BY <3>1, <3>3
      <4> QED BY <2>3, <3>3, <4>1
    <3> QED BY <3>2, <3>3
  <2> QED BY <1>0, <2>1, <2>4
<1> QED BY <1>2, <1>3 DEF Picked

CallSet == [id : Calls \cup {NoCall}, arguments : Bodies]

\* The calls of an aggregate are the items of calls.
LEMMA AggregatedCalls ==
  ASSUME NEW w \in Seq(Events)
  PROVE  /\ Aggregated(w).calls \in Seq(CallSet)
         /\ \A x : x \in ToSet(Aggregated(w).calls) <=>
              \E i \in DOMAIN w : DoneCall(w[i]) /\ x = [id |-> w[i].call, arguments |-> w[i].body]
<1>1. PICK n : n = Len(w)
  OBVIOUS
<1>2. n \in Nat /\ DOMAIN w = 1 .. n /\ \A i \in 1 .. n : w[i] \in Events
  BY <1>1
<1>3. PICK Q : Q = {i \in 1 .. n : DoneCall(w[i])}
  OBVIOUS
<1>4. PICK val : val = [i \in 1 .. n |-> [id |-> w[i].call, arguments |-> w[i].body]]
  OBVIOUS
<1>5. PICK ss : ss = [i \in 1 .. n |-> IF i \in Q THEN <<val[i]>> ELSE <<>>]
  OBVIOUS
<1>6. val \in [1 .. n -> CallSet]
  <2>1. \A i \in 1 .. n : [id |-> w[i].call, arguments |-> w[i].body] \in CallSet
    BY <1>2 DEF Events, CallSet, Bodies
  <2> QED BY <1>4, <2>1, Zenon
<1>7. /\ FlattenSeq(ss) \in Seq(CallSet)
      /\ \A x : x \in ToSet(FlattenSeq(ss)) <=> \E i \in Q : x = val[i]
  <2>1. Q \in SUBSET (1 .. n)
    BY <1>3
  <2>2. Picks(CallSet, n, val, Q, ss)
    BY <1>2, <1>5, <1>6, <2>1 DEF Picks
  <2> QED BY <2>2, FlattenPicked DEF Picked
<1>8. Aggregated(w).calls = FlattenSeq(ss)
  <2>1. [i \in DOMAIN w |-> IF DoneCall(w[i]) THEN <<[id |-> w[i].call, arguments |-> w[i].body]>> ELSE <<>>] = ss
    <3>1. \A i \in 1 .. n : (IF i \in Q THEN <<val[i]>> ELSE <<>>)
                            = IF DoneCall(w[i]) THEN <<[id |-> w[i].call, arguments |-> w[i].body]>> ELSE <<>>
      BY <1>3, <1>4
    <3> QED BY <1>2, <1>5, <3>1
  <2> QED BY <2>1 DEF Aggregated, Message
<1>9. \A x : (\E i \in Q : x = val[i]) <=>
        \E i \in DOMAIN w : DoneCall(w[i]) /\ x = [id |-> w[i].call, arguments |-> w[i].body]
  BY <1>2, <1>3, <1>4
<1>10. ASSUME NEW x PROVE x \in ToSet(Aggregated(w).calls) <=>
         \E i \in DOMAIN w : DoneCall(w[i]) /\ x = [id |-> w[i].call, arguments |-> w[i].body]
  <2>1. x \in ToSet(Aggregated(w).calls) <=> x \in ToSet(FlattenSeq(ss))
    BY <1>8
  <2>2. x \in ToSet(FlattenSeq(ss)) <=> \E i \in Q : x = val[i]
    BY <1>7
  <2> QED BY <1>9, <2>1, <2>2, Zenon
<1>11. Aggregated(w).calls \in Seq(CallSet)
  BY <1>7, <1>8
<1> QED BY <1>10, <1>11

\* The calls a client assembles are those of the frames that open one.
LEMMA AssembledCalls ==
  ASSUME NEW f \in Seq(FrameSet)
  PROVE  /\ Assembled(f).calls \in Seq(CallSet)
         /\ \A x : x \in ToSet(Assembled(f).calls) <=>
              \E i \in DOMAIN f :
                f[i].type = "call" /\ x = [id |-> f[i].call, arguments |-> Carried(f, "arguments", f[i].index)]
<1>1. PICK n : n = Len(f)
  OBVIOUS
<1>2. n \in Nat /\ DOMAIN f = 1 .. n /\ \A i \in 1 .. n : f[i] \in FrameSet
  BY <1>1
<1>3. PICK Q : Q = {i \in 1 .. n : f[i].type = "call"}
  OBVIOUS
<1>4. PICK val : val = [i \in 1 .. n |-> [id |-> f[i].call, arguments |-> Carried(f, "arguments", f[i].index)]]
  OBVIOUS
<1>5. PICK ss : ss = [i \in 1 .. n |-> IF i \in Q THEN <<val[i]>> ELSE <<>>]
  OBVIOUS
<1>6. val \in [1 .. n -> CallSet]
  <2>1. ASSUME NEW i \in 1 .. n
        PROVE  [id |-> f[i].call, arguments |-> Carried(f, "arguments", f[i].index)] \in CallSet
    <3>1. Plain("role") \in FrameSet
      BY EmptySeq DEF Plain, Chunk, FrameSet, FrameTypes, Bodies
    <3>2. Carried(f, "arguments", f[i].index) \in Bodies
      BY <3>1, CarriedAppend
    <3> QED BY <1>2, <3>2 DEF FrameSet, CallSet
  <2> QED BY <1>4, <2>1, Zenon
<1>7. /\ FlattenSeq(ss) \in Seq(CallSet)
      /\ \A x : x \in ToSet(FlattenSeq(ss)) <=> \E i \in Q : x = val[i]
  <2>1. Q \in SUBSET (1 .. n)
    BY <1>3
  <2>2. Picks(CallSet, n, val, Q, ss)
    BY <1>2, <1>5, <1>6, <2>1 DEF Picks
  <2> QED BY <2>2, FlattenPicked DEF Picked
<1>8. Assembled(f).calls = FlattenSeq(ss)
  <2>1. [i \in DOMAIN f |-> IF f[i].type = "call"
                            THEN <<[id |-> f[i].call, arguments |-> Carried(f, "arguments", f[i].index)]>> ELSE <<>>] = ss
    <3>1. \A i \in 1 .. n : (IF i \in Q THEN <<val[i]>> ELSE <<>>)
            = IF f[i].type = "call"
              THEN <<[id |-> f[i].call, arguments |-> Carried(f, "arguments", f[i].index)]>> ELSE <<>>
      BY <1>3, <1>4
    <3> QED BY <1>2, <1>5, <3>1
  <2> QED BY <2>1 DEF Assembled, Message, Carried
<1>9. \A x : (\E i \in Q : x = val[i]) <=>
        \E i \in DOMAIN f :
          f[i].type = "call" /\ x = [id |-> f[i].call, arguments |-> Carried(f, "arguments", f[i].index)]
  BY <1>2, <1>3, <1>4
<1> QED BY <1>7, <1>8, <1>9

\* The events of a completed stream, in order and itemised, the last of them its
\* end.
Complete(w) ==
  /\ w \in Seq(Events) /\ Ordered(w) /\ Itemised(w) /\ Lasting(w)
  /\ Len(w) > 0 /\ w[Len(w)].kind = "completed"

\* What was read of a completed stream is that, and the translator got it.
LEMMA CompletedWhole ==
  ASSUME WireInv, Completed
  PROVE  /\ Complete(Whole)
         /\ SubSeq(Got(wire, split), 1, Halves \div 2) = Got(Whole, split)
         /\ \A i \in DOMAIN Whole : i \in DOMAIN wire /\ Whole[i] = wire[i]
<1>1. PICK w, n, h, v, g : w = wire /\ n = Len(w) /\ h = Halves \div 2 /\ v = Whole /\ g = Got(w, split)
  OBVIOUS
<1>2. w \in Seq(Events) /\ Ordered(w) /\ n \in Nat /\ DOMAIN w = 1 .. n
  BY <1>1 DEF WireInv
<1>3. h \in Nat /\ h <= n /\ v = SubSeq(w, 1, h)
  BY <1>1, HalvesRange
<1>4. v \in Seq(Events) /\ Len(v) = h /\ DOMAIN v = 1 .. h /\ \A i \in 1 .. h : v[i] = w[i] /\ i \in 1 .. n
  BY <1>1, <1>2, <1>3
<1>5. Itemised(v)
  <2>1. h \in 0 .. Len(w)
    BY <1>1, <1>2, <1>3
  <2> QED BY <1>1, <1>3, <2>1 DEF WireInv, ItemisedUpto
<1>6. Ordered(v)
  <2>1. ASSUME NEW i \in 1 .. h
        PROVE  /\ v[i].kind = "added" =>
                    v[i].call \in Calls /\ \A j \in 1 .. h : j < i => ~(v[j].kind = "added" /\ v[j].call = v[i].call)
               /\ v[i].kind = "args" => \E j \in 1 .. h : j < i /\ v[j].kind = "added" /\ v[j].call = v[i].call
               /\ v[i].kind = "text" => v[i].call = NoCall
    <3>1. v[i] = w[i] /\ i \in DOMAIN w
      BY <1>2, <1>4
    <3>2. v[i].kind = "added" =>
            v[i].call \in Calls /\ \A j \in 1 .. h : j < i => ~(v[j].kind = "added" /\ v[j].call = v[i].call)
      BY <1>2, <1>4, <3>1 DEF Ordered
    <3>3. v[i].kind = "args" => \E j \in 1 .. h : j < i /\ v[j].kind = "added" /\ v[j].call = v[i].call
      <4> SUFFICES ASSUME v[i].kind = "args" PROVE \E j \in 1 .. h : j < i /\ v[j].kind = "added" /\ v[j].call = v[i].call
        OBVIOUS
      <4>1. PICK j \in DOMAIN w : j < i /\ w[j].kind = "added" /\ w[j].call = v[i].call
        <5>1. w[i].kind = "args" /\ w[i].call = v[i].call
          BY <3>1
        <5> QED BY <1>2, <3>1, <5>1 DEF Ordered
      <4>2. j \in 1 .. h
        BY <1>2, <1>3, <4>1
      <4> QED BY <1>4, <4>1, <4>2
    <3>4. v[i].kind = "text" => v[i].call = NoCall
      BY <1>2, <3>1 DEF Ordered
    <3> QED BY <3>2, <3>3, <3>4
  <2> QED BY <1>4, <2>1 DEF Ordered
<1>7. Lasting(v)
  BY <1>1 DEF Completed, EndsWithFinal, Lasting
<1>8. Len(v) > 0 /\ v[Len(v)].kind = "completed"
  <2>1. v # <<>> /\ v[Len(v)].kind = "completed"
    BY <1>1 DEF Completed, Last
  <2> QED BY <1>4, <2>1, EmptySeq
<1>9. SubSeq(g, 1, h) = Got(v, split)
  <2>1. g \in Seq(Events) /\ Len(g) = n
    BY <1>1, <1>2, GotEvents
  <2>2. PICK a, b : a = SubSeq(g, 1, h) /\ b = Got(v, split)
    OBVIOUS
  <2>3. a \in Seq(Events) /\ Len(a) = h /\ \A i \in 1 .. h : a[i] = g[i]
    BY <1>3, <2>1, <2>2
  <2>4. b \in Seq(Events) /\ Len(b) = h
    BY <1>4, <2>2, GotEvents
  <2>5. \A i \in 1 .. h : g[i] = b[i]
    BY <1>1, <1>2, <1>4, <2>2 DEF Got
  <2>6. a = b
    BY <1>3, <2>3, <2>4, <2>5, SeqEqual
  <2> QED BY <2>2, <2>6
<1>10. \A i \in DOMAIN v : i \in DOMAIN w /\ v[i] = w[i]
  BY <1>2, <1>4
<1> QED BY <1>1, <1>4, <1>5, <1>6, <1>7, <1>8, <1>9, <1>10 DEF Complete

-----------------------------------------------------------------------------
\* The message item of a completed stream says what the text deltas said.
LEMMA ItemText ==
  ASSUME NEW w, Complete(w)
  PROVE  BodyOf(w, "item", NoCall) = BodyOf(w, "text", NoCall)
<1>0. w \in Seq(Events) /\ Itemised(w) /\ w # <<>> /\ w[Len(w)].kind = "completed"
  BY EmptySeq DEF Complete
<1>1. CASE \E i \in DOMAIN w : w[i].kind = "item" /\ w[i].call = NoCall
  <2>1. PICK l \in DOMAIN w : w[l].kind = "item" /\ w[l].call = NoCall
    BY <1>1
  <2>2. \A i \in DOMAIN w : w[i].kind = "item" /\ w[i].call = NoCall => i = l
    BY <1>0, <2>1 DEF Itemised
  <2>3. BodyOf(w, "item", NoCall) = w[l].body
    BY <1>0, <2>1, <2>2, BodySingle
  <2>4. w[l].body = BodyOf(w, "text", NoCall)
    <3>1. DeltaOf(NoCall) = "text"
      BY DEF DeltaOf
    <3> QED BY <1>0, <2>1, <3>1 DEF Itemised
  <2> QED BY <2>3, <2>4
<1>2. CASE ~\E i \in DOMAIN w : w[i].kind = "item" /\ w[i].call = NoCall
  <2>1. \A i \in DOMAIN w : ~(w[i].kind = "text" /\ w[i].call = NoCall)
    BY <1>0, <1>2 DEF Itemised
  <2>2. BodyOf(w, "text", NoCall) = <<>>
    BY <1>0, <2>1, BodyNothing
  <2>3. BodyOf(w, "item", NoCall) = <<>>
    BY <1>0, <1>2, BodyNothing
  <2> QED BY <2>2, <2>3
<1> QED BY <1>1, <1>2

\* A call is announced and finished in a completed stream, or neither.
LEMMA ItemCalls ==
  ASSUME NEW w, Complete(w), NEW c
  PROVE  /\ c \in Calls /\ (\E i \in DOMAIN w : w[i].kind = "added" /\ w[i].call = c)
              <=> \E i \in DOMAIN w : DoneCall(w[i]) /\ w[i].call = c
         /\ \A i \in DOMAIN w : DoneCall(w[i]) => w[i].body = BodyOf(w, "args", w[i].call)
<1>0. w \in Seq(Events) /\ Itemised(w) /\ Ordered(w) /\ w # <<>> /\ w[Len(w)].kind = "completed"
  BY EmptySeq DEF Complete
<1>1. NoCall \notin Calls
  BY CallAssumption
<1>2. ASSUME NEW i \in DOMAIN w, w[i].kind = "added"
      PROVE  \E j \in DOMAIN w : DoneCall(w[j]) /\ w[j].call = w[i].call
  <2>1. w[i].call # NoCall
    BY <1>0, <1>1, <1>2 DEF Ordered
  <2>2. \E j \in DOMAIN w : w[j].kind = "item" /\ w[j].call = w[i].call
    BY <1>0, <1>2 DEF Itemised
  <2> QED BY <2>1, <2>2 DEF DoneCall
<1>3. ASSUME NEW i \in DOMAIN w, DoneCall(w[i])
      PROVE  /\ w[i].call \in Calls /\ w[i].body = BodyOf(w, "args", w[i].call)
             /\ \E j \in DOMAIN w : w[j].kind = "added" /\ w[j].call = w[i].call
  <2>1. w[i].call \in Calls \cup {NoCall}
    <3>1. w[i] \in Events
      BY <1>0
    <3> QED BY <3>1 DEF Events
  <2>2. DeltaOf(w[i].call) = "args" /\ FirstOf(w[i].call) = "added"
    BY <1>3 DEF DoneCall, DeltaOf, FirstOf
  <2> QED BY <1>0, <1>3, <2>1, <2>2 DEF DoneCall, Itemised
<1>4. ASSUME NEW i \in DOMAIN w, w[i].kind = "added" PROVE w[i].call \in Calls
  BY <1>0, <1>4 DEF Ordered
<1>5. c \in Calls /\ (\E i \in DOMAIN w : w[i].kind = "added" /\ w[i].call = c)
        => \E i \in DOMAIN w : DoneCall(w[i]) /\ w[i].call = c
  BY <1>2
<1>6. (\E i \in DOMAIN w : DoneCall(w[i]) /\ w[i].call = c)
        => c \in Calls /\ \E i \in DOMAIN w : w[i].kind = "added" /\ w[i].call = c
  BY <1>3
<1> QED BY <1>3, <1>5, <1>6

\* What the translator gets says what upstream said, but for the replaced deltas.
LEMMA BodyGot ==
  ASSUME NEW w \in Seq(Events), Itemised(w), NEW sp, NEW kind \in Deltas, NEW c
  PROVE  BodyOf(Got(w, sp), kind, c) = Put(sp, BodyOf(w, kind, c)) /\ BodyOf(w, kind, c) \in Bodies
<1>1. PICK n, v : n = Len(w) /\ v = Got(w, sp)
  OBVIOUS
<1>2. n \in Nat /\ DOMAIN w = 1 .. n /\ \A i \in 1 .. n : w[i] \in Events
  BY <1>1
<1>3. DOMAIN v = 1 .. n /\ \A i \in 1 .. n : v[i].kind = w[i].kind /\ v[i].call = w[i].call
  BY <1>1, <1>2, GotEvents
<1>4. PICK Q : Q = {i \in 1 .. n : w[i].kind = kind /\ w[i].call = c}
  OBVIOUS
<1>5. \A i \in Q : w[i].body = <<i>>
  BY <1>2, <1>4 DEF Itemised
<1>6. \A i \in Q : v[i].body = <<IF i \in sp THEN 0 - i ELSE i>>
  <2> TAKE i \in Q
  <2>1. i \in 1 .. n /\ i \in Int /\ w[i] \in Events /\ w[i].body = <<i>>
    BY <1>2, <1>4, <1>5
  <2>2. CASE i \in sp
    <3>1. v[i] = Replaced(w[i])
      BY <1>1, <1>2, <2>1, <2>2 DEF Got
    <3>2. v[i].body = [j \in DOMAIN w[i].body |-> 0 - w[i].body[j]]
      BY <2>1, <3>1 DEF Replaced, Events
    <3>3. [j \in DOMAIN <<i>> |-> 0 - <<i>>[j]] = <<0 - i>>
      BY <2>1
    <3> QED BY <2>1, <2>2, <3>2, <3>3
  <2>3. CASE i \notin sp
    <3>1. v[i] = w[i]
      BY <1>1, <1>2, <2>1, <2>3 DEF Got
    <3> QED BY <2>1, <2>3, <3>1
  <2> QED BY <2>2, <2>3
<1>7. PICK ss, tt : /\ ss = [i \in 1 .. n |-> IF i \in Q THEN <<i>> ELSE <<>>]
                    /\ tt = [i \in 1 .. n |-> IF i \in Q THEN <<IF i \in sp THEN 0 - i ELSE i>> ELSE <<>>]
  OBVIOUS
<1>8. BodyOf(w, kind, c) = FlattenSeq(ss)
  <2>1. [i \in DOMAIN w |-> IF w[i].kind = kind /\ w[i].call = c THEN w[i].body ELSE <<>>] = ss
    BY <1>2, <1>4, <1>5, <1>7
  <2> QED BY <2>1 DEF BodyOf
<1>9. BodyOf(v, kind, c) = FlattenSeq(tt)
  <2>1. [i \in DOMAIN v |-> IF v[i].kind = kind /\ v[i].call = c THEN v[i].body ELSE <<>>] = tt
    BY <1>3, <1>4, <1>6, <1>7
  <2> QED BY <2>1 DEF BodyOf
<1>10. ss \in Seq(Bodies) /\ Len(ss) = n /\ tt \in Seq(Bodies) /\ Len(tt) = n
  <2>1. \A i \in 1 .. n : <<i>> \in Bodies /\ <<IF i \in sp THEN 0 - i ELSE i>> \in Bodies /\ <<>> \in Bodies
    BY <1>2 DEF Bodies
  <2>2. ss \in [1 .. n -> Bodies] /\ tt \in [1 .. n -> Bodies]
    BY <1>7, <2>1
  <2> QED BY <1>2, <2>2
<1>11. \A i \in 1 .. n : tt[i] = Put(sp, ss[i])
  <2> TAKE i \in 1 .. n
  <2>1. Put(sp, <<i>>) = <<IF i \in sp THEN 0 - i ELSE i>>
    BY <1>2 DEF Put
  <2>2. Put(sp, <<>>) = <<>>
    BY DEF Put
  <2>3. CASE i \in Q
    BY <1>7, <2>1, <2>3
  <2>4. CASE i \notin Q
    BY <1>7, <2>2, <2>4
  <2> QED BY <2>3, <2>4
<1>12. PICK sums : Sums(Int, ss, sums)
  BY <1>10, SumsExist DEF Bodies
<1>13. sums \in [0 .. n -> Bodies] /\ sums[0] = <<>> /\ \A k \in 1 .. n : sums[k] = sums[k - 1] \o ss[k]
  BY <1>10, <1>12 DEF Sums, Bodies
<1>14. Sums(Int, tt, [k \in 0 .. n |-> Put(sp, sums[k])])
  <2>1. \A k \in 0 .. n : Put(sp, sums[k]) \in Bodies
    <3> TAKE k \in 0 .. n
    <3>1. sums[k] \in Bodies
      BY <1>13
    <3> QED BY <3>1, PutConcat
  <2>2. [k \in 0 .. n |-> Put(sp, sums[k])] \in [0 .. n -> Bodies]
    BY <2>1
  <2>3. Put(sp, sums[0]) = <<>> /\ 0 \in 0 .. n
    BY <1>2, <1>13 DEF Put
  <2>4. ASSUME NEW k \in 1 .. n PROVE Put(sp, sums[k]) = Put(sp, sums[k - 1]) \o tt[k] /\ k \in 0 .. n /\ k - 1 \in 0 .. n
    <3>1. k \in 0 .. n /\ k - 1 \in 0 .. n
      BY <1>2
    <3>2. PICK a, b : a = sums[k - 1] /\ b = ss[k]
      OBVIOUS
    <3>3. a \in Bodies /\ b \in Bodies /\ sums[k] = a \o b
      <4>1. a \in Bodies /\ sums[k] = a \o b
        BY <1>13, <3>1, <3>2
      <4>2. b \in Bodies
        BY <1>10, <3>2
      <4> QED BY <4>1, <4>2
    <3>4. Put(sp, a \o b) = Put(sp, a) \o Put(sp, b)
      BY <3>3, PutConcat
    <3> QED BY <1>11, <3>1, <3>2, <3>3, <3>4
  <2> QED BY <1>10, <2>2, <2>3, <2>4 DEF Sums, Bodies
<1>15. FlattenSeq(ss) = sums[n] /\ FlattenSeq(ss) \in Bodies
  BY <1>10, <1>12, SumsFlatten DEF Bodies
<1>16. FlattenSeq(tt) = [k \in 0 .. n |-> Put(sp, sums[k])][n]
  BY <1>10, <1>14, SumsFlatten DEF Bodies
<1>17. FlattenSeq(tt) = Put(sp, sums[n])
  BY <1>2, <1>16
<1> QED BY <1>1, <1>8, <1>9, <1>15, <1>17

\* The frames of a completed stream: those the translator made, one terminal chunk
\* at their end, and the marker.
LEMMA CompletedFrames ==
  ASSUME ChatInv, Over, Completed
  PROVE  /\ Complete(Whole) /\ Plain("[DONE]") \in FrameSet
         /\ \E tr, f : /\ Streamed(Got(Whole, split), tr, f) /\ sse = Append(f, Plain("[DONE]"))
                       /\ Len(f) > 0 /\ \A i \in 1 .. Len(f) : f[i].type \in Ending <=> i = Len(f)
                       /\ f[Len(f)].type = IF tr.index # <<>> THEN "tool_calls" ELSE "stop"
<1>1. PICK w, v, h : w = Whole /\ v = Got(w, split) /\ h = Halves \div 2
  OBVIOUS
<1>2. Complete(w) /\ SubSeq(Got(wire, split), 1, h) = v
  BY <1>1, CompletedWhole DEF ChatInv
<1>3. w \in Seq(Events) /\ Lasting(w) /\ Len(w) > 0 /\ w[Len(w)].kind = "completed" /\ Len(w) \in DOMAIN w
  BY <1>2 DEF Complete
<1>4. v \in Seq(Events) /\ Len(v) = Len(w) /\ DOMAIN v = DOMAIN w /\ \A i \in DOMAIN w : v[i].kind = w[i].kind
  BY <1>1, <1>3, GotEvents
<1>5. Lasting(v) /\ Has(v, {"completed"}) /\ Has(v, Final)
  BY <1>3, <1>4 DEF Lasting, Has, Final
<1>6. Closed(v, sse)
  BY <1>1, <1>2 DEF ChatInv, ReadInv
<1>7. PICK tr, f : Streamed(v, tr, f) /\ sse = Append(Closing(tr, f), Plain("[DONE]"))
  BY <1>6 DEF Closed
<1>8. Ended(v, tr, f) /\ f \in Seq(FrameSet)
  BY <1>7 DEF Streamed
<1>9. tr.finished = TRUE
  BY <1>5, <1>8 DEF Ended
<1>10. Closing(tr, f) = f
  BY <1>9 DEF Closing
<1>11. Plain("[DONE]") \in FrameSet
  BY EmptySeq DEF Plain, Chunk, FrameSet, FrameTypes, Bodies, Ending
<1>12. Len(f) \in Nat /\ DOMAIN f = 1 .. Len(f)
  BY <1>8
<1>13. PICK l \in DOMAIN f : f[l].type \in Ending
  BY <1>5, <1>8 DEF Ended
<1>14. \A i \in DOMAIN f : f[i].type \in Ending => i = Len(f)
  BY <1>5, <1>8 DEF Ended
<1>15. l = Len(f)
  BY <1>13, <1>14
<1>16. Len(f) > 0 /\ \A i \in 1 .. Len(f) : f[i].type \in Ending <=> i = Len(f)
  <2>1. PICK q : q = Len(f)
    OBVIOUS
  <2>2. q \in Nat /\ DOMAIN f = 1 .. q /\ q \in 1 .. q
    BY <1>12, <1>13, <1>15, <2>1
  <2> QED BY <1>13, <1>14, <1>15, <2>1, <2>2
<1>17. f[Len(f)].type = IF tr.index # <<>> THEN "tool_calls" ELSE "stop"
  BY <1>5, <1>8 DEF Ended
<1>18. sse = Append(f, Plain("[DONE]"))
  BY <1>7, <1>10
<1> QED BY <1>1, <1>2, <1>7, <1>11, <1>16, <1>17, <1>18

\* What was replaced of a body.
LEMMA GarbledPut == \A body : Garbled(body) = Put(split, body)
BY DEF Garbled, Put

\* A completed stream gives a streaming client and any other the same calls, reason
\* and text, wherever the network cuts it, but for the deltas in which a chunk
\* boundary cut a character (SseTranslator, fed chunk by chunk, against
\* ResponseAggregator and responses_to_chat).
THEOREM SameMessage == ChatSpec => []StreamingAgrees
<1>1. ASSUME ChatInv PROVE StreamingAgrees
  <2> SUFFICES ASSUME Over, Completed
               PROVE  LET s == Assembled(sse)
                          a == Aggregated(Whole)
                      IN  /\ s.text = Garbled(a.text)
                          /\ ToSet(s.calls) = {[c EXCEPT !.arguments = Garbled(@)] : c \in ToSet(a.calls)}
                          /\ s.reason = a.reason
    BY DEF StreamingAgrees
  <2>1. PICK w, v, sp, g, d : w = Whole /\ sp = split /\ v = Got(w, sp) /\ g = sse /\ d = Plain("[DONE]")
    OBVIOUS
  <2>2. Complete(w) /\ d \in FrameSet
    BY <1>1, <2>1, CompletedFrames
  <2>3. PICK tr, f : /\ Streamed(v, tr, f) /\ g = Append(f, d)
                     /\ Len(f) > 0 /\ (\A i \in 1 .. Len(f) : f[i].type \in Ending <=> i = Len(f))
                     /\ f[Len(f)].type = IF tr.index # <<>> THEN "tool_calls" ELSE "stop"
    BY <1>1, <2>1, CompletedFrames
  <2>4. PICK n, m : n = Len(f) /\ m = Assembled(g)
    OBVIOUS
  <2>5. /\ w \in Seq(Events) /\ Itemised(w) /\ f \in Seq(FrameSet) /\ tr \in Translators
        /\ Indexed(v, tr, f) /\ Carries(v, tr, f)
    BY <2>2, <2>3 DEF Complete, Streamed
  <2>6. v \in Seq(Events) /\ DOMAIN v = DOMAIN w /\ \A i \in DOMAIN w : v[i].kind = w[i].kind /\ v[i].call = w[i].call
    BY <2>1, <2>5, GotEvents
  <2>7. /\ n \in Nat /\ DOMAIN f = 1 .. n /\ DOMAIN g = 1 .. n + 1 /\ g[n + 1] = d /\ g \in Seq(FrameSet)
        /\ \A i \in 1 .. n : g[i] = f[i] /\ i \in 1 .. n + 1
        /\ \A i \in 1 .. n + 1 : i = n + 1 \/ i \in 1 .. n
    BY <2>2, <2>3, <2>4, <2>5, AppendLonger DEF Longer
  <2>8. d.type = "[DONE]" /\ d.type \notin Ending
    BY <2>1 DEF Plain, Chunk, Ending
  <2>9. \A index : Carried(g, "content", index) = Carried(f, "content", index)
                   /\ Carried(g, "arguments", index) = Carried(f, "arguments", index)
    BY <2>2, <2>3, <2>5, <2>8, CarriedAppend
  <2>10. m.text = Put(sp, Aggregated(w).text)
    <3>1. m.text = Carried(g, "content", 0)
      BY <2>4, Zenon DEF Assembled, Message, Carried
    <3>2. Carried(f, "content", 0) = BodyOf(v, "text", NoCall)
      BY <2>5 DEF Carries
    <3>3. BodyOf(v, "text", NoCall) = Put(sp, BodyOf(w, "text", NoCall))
      BY <2>1, <2>5, BodyGot DEF Deltas
    <3>4. Aggregated(w).text = BodyOf(w, "item", NoCall)
      BY Zenon DEF Aggregated, Message, BodyOf, DoneText
    <3>5. BodyOf(w, "item", NoCall) = BodyOf(w, "text", NoCall)
      BY <2>2, ItemText
    <3> QED BY <2>9, <3>1, <3>2, <3>3, <3>4, <3>5
  <2>11. ASSUME NEW x
         PROVE  x \in ToSet(m.calls) <=> \E c \in ToSet(Aggregated(w).calls) : x = [c EXCEPT !.arguments = Put(sp, @)]
    <3> DEFINE said(c) == [id |-> c, arguments |-> Put(sp, BodyOf(w, "args", c))]
    <3>1. (\E c \in ToSet(Aggregated(w).calls) : x = [c EXCEPT !.arguments = Put(sp, @)])
            <=> \E k \in DOMAIN tr.index : x = said(tr.index[k])
      <4>1. ASSUME NEW i \in DOMAIN w, DoneCall(w[i]), NEW c, c = [id |-> w[i].call, arguments |-> w[i].body]
            PROVE  [c EXCEPT !.arguments = Put(sp, @)] = said(w[i].call)
        <5>1. w[i].body = BodyOf(w, "args", w[i].call)
          BY <2>2, <4>1, ItemCalls
        <5> QED BY <4>1, <5>1
      <4>2. \A c : c \in ToSet(Aggregated(w).calls) <=>
              \E i \in DOMAIN w : DoneCall(w[i]) /\ c = [id |-> w[i].call, arguments |-> w[i].body]
        BY <2>5, AggregatedCalls
      <4>3. (\E c \in ToSet(Aggregated(w).calls) : x = [c EXCEPT !.arguments = Put(sp, @)])
              <=> \E i \in DOMAIN w : DoneCall(w[i]) /\ x = said(w[i].call)
        <5> DEFINE put(c) == [c EXCEPT !.arguments = Put(sp, @)]
                   call(i) == [id |-> w[i].call, arguments |-> w[i].body]
        <5>1. \A i \in DOMAIN w : DoneCall(w[i]) => put(call(i)) = said(w[i].call)
          BY <4>1
        <5>2. \A c : c \in ToSet(Aggregated(w).calls) <=> \E i \in DOMAIN w : DoneCall(w[i]) /\ c = call(i)
          BY <4>2
        <5> HIDE DEF put, call, said
        <5>3. (\E c \in ToSet(Aggregated(w).calls) : x = put(c)) <=> \E i \in DOMAIN w : DoneCall(w[i]) /\ x = said(w[i].call)
          BY <5>1, <5>2
        <5> QED BY <5>3 DEF put
      <4>4. \A c : (\E i \in DOMAIN w : DoneCall(w[i]) /\ w[i].call = c) <=> \E k \in DOMAIN tr.index : tr.index[k] = c
        <5> TAKE c
        <5>1. (\E i \in DOMAIN w : DoneCall(w[i]) /\ w[i].call = c)
                <=> c \in Calls /\ \E i \in DOMAIN w : w[i].kind = "added" /\ w[i].call = c
          BY <2>2, ItemCalls
        <5>2. (\E i \in DOMAIN w : w[i].kind = "added" /\ w[i].call = c) => \E k \in DOMAIN tr.index : tr.index[k] = c
          BY <2>5, <2>6 DEF Indexed
        <5>3. ASSUME NEW k \in DOMAIN tr.index, tr.index[k] = c
              PROVE  c \in Calls /\ \E i \in DOMAIN w : w[i].kind = "added" /\ w[i].call = c
          <6>1. c \in Calls
            BY <2>5, <5>3 DEF Translators
          <6>2. \E i \in DOMAIN w : w[i].kind = "added" /\ w[i].call = tr.index[k]
            BY <2>5, <2>6 DEF Indexed
          <6> QED BY <5>3, <6>1, <6>2
        <5> QED BY <5>1, <5>2, <5>3
      <4> HIDE DEF said
      <4>5. (\E i \in DOMAIN w : DoneCall(w[i]) /\ x = said(w[i].call)) <=> \E k \in DOMAIN tr.index : x = said(tr.index[k])
        BY <4>4, Zenon
      <4> QED BY <4>3, <4>5
    <3>2. x \in ToSet(m.calls) <=>
            \E k \in DOMAIN tr.index : x = [id |-> tr.index[k], arguments |-> Carried(f, "arguments", k)]
      <4>1. x \in ToSet(m.calls) <=>
              \E i \in DOMAIN g : g[i].type = "call" /\ x = [id |-> g[i].call, arguments |-> Carried(g, "arguments", g[i].index)]
        BY <2>4, <2>7, AssembledCalls
      <4>2. \A i \in DOMAIN g : g[i].type = "call" => i \in 1 .. n
        BY <2>7, <2>8
      <4>3. \A i \in 1 .. n : f[i].type = "call" => f[i].index \in DOMAIN tr.index /\ tr.index[f[i].index] = f[i].call
        BY <2>5, <2>7 DEF Indexed
      <4>4. \A k \in DOMAIN tr.index : \E i \in 1 .. n : f[i].type = "call" /\ f[i].index = k
        BY <2>5, <2>7 DEF Indexed
      <4>5. ASSUME x \in ToSet(m.calls)
            PROVE  \E k \in DOMAIN tr.index : x = [id |-> tr.index[k], arguments |-> Carried(f, "arguments", k)]
        <5>1. PICK i \in DOMAIN g : g[i].type = "call" /\ x = [id |-> g[i].call, arguments |-> Carried(g, "arguments", g[i].index)]
          BY <4>1, <4>5
        <5>2. i \in 1 .. n /\ g[i] = f[i]
          BY <2>7, <4>2, <5>1
        <5> QED BY <2>9, <4>3, <5>1, <5>2
      <4>6. ASSUME NEW k \in DOMAIN tr.index, x = [id |-> tr.index[k], arguments |-> Carried(f, "arguments", k)]
            PROVE  x \in ToSet(m.calls)
        <5>1. PICK i \in 1 .. n : f[i].type = "call" /\ f[i].index = k
          BY <4>4
        <5>2. i \in DOMAIN g /\ g[i] = f[i] /\ tr.index[k] = f[i].call
          BY <2>7, <4>3, <5>1
        <5>3. x = [id |-> g[i].call, arguments |-> Carried(g, "arguments", g[i].index)]
          BY <2>9, <4>6, <5>1, <5>2
        <5> QED BY <4>1, <5>1, <5>2, <5>3
      <4> QED BY <4>5, <4>6
    <3>3. \A k \in DOMAIN tr.index : [id |-> tr.index[k], arguments |-> Carried(f, "arguments", k)] = said(tr.index[k])
      <4> TAKE k \in DOMAIN tr.index
      <4>1. Carried(f, "arguments", k) = BodyOf(v, "args", tr.index[k])
        BY <2>5 DEF Carries
      <4>2. BodyOf(v, "args", tr.index[k]) = Put(sp, BodyOf(w, "args", tr.index[k]))
        BY <2>1, <2>5, BodyGot DEF Deltas
      <4> QED BY <4>1, <4>2
    <3> HIDE DEF said
    <3> QED BY <3>1, <3>2, <3>3
  <2>12. m.reason = Aggregated(w).reason
    <3>1. PICK y : y = (IF tr.index # <<>> THEN "tool_calls" ELSE "stop")
      OBVIOUS
    <3>2. n > 0 /\ (\A i \in 1 .. n : f[i].type \in Ending <=> i = n) /\ f[n].type = y
      BY <2>3, <2>4, <3>1
    <3>3. {i \in DOMAIN g : g[i].type \in {"stop", "tool_calls", "error"}} = {n}
      <4>1. \A i \in 1 .. n + 1 : g[i].type \in Ending <=> i = n
        <5> TAKE i \in 1 .. n + 1
        <5>1. CASE i = n + 1
          BY <2>7, <2>8, <5>1
        <5>2. CASE i \in 1 .. n
          BY <2>7, <3>2, <5>2
        <5> QED BY <2>7, <5>1, <5>2
      <4>2. n \in 1 .. n + 1
        BY <2>7, <3>2
      <4> QED BY <2>7, <4>1, <4>2 DEF Ending
    <3>4. Min({n}) = n
      BY <2>7 DEF Min
    <3>5. m.reason = y
      <4>1. m.reason = IF {n} = {} THEN "none" ELSE g[Min({n})].type
        BY <2>4, <3>3, Zenon DEF Assembled, Message
      <4>2. g[n] = f[n]
        BY <2>7, <3>2
      <4> QED BY <3>2, <3>4, <4>1, <4>2
    <3>6. Aggregated(w).reason = y
      <4>1. ~Truncated(w)
        <5>1. PICK l : l = Len(w)
          OBVIOUS
        <5>2. l \in DOMAIN w /\ DOMAIN w = 1 .. l /\ l \in Nat /\ w[l].kind = "completed"
          BY <2>2, <5>1 DEF Complete
        <5>3. \A i \in DOMAIN w : i = l \/ l > i
          BY <5>2
        <5> QED BY <5>2, <5>3 DEF Truncated
      <4>2. (\E i \in DOMAIN w : DoneCall(w[i])) <=> tr.index # <<>>
        <5>1. tr.index \in Seq(Calls)
          BY <2>5 DEF Translators
        <5>2. tr.index # <<>> <=> \E k \in DOMAIN tr.index : TRUE
          <6>1. PICK s, q : s = tr.index /\ q = Len(s)
            OBVIOUS
          <6>2. s # <<>> => q > 0 /\ 1 \in DOMAIN s
            BY <5>1, <6>1, EmptySeq
          <6>3. DOMAIN <<>> = {}
            OBVIOUS
          <6> QED BY <6>1, <6>2, <6>3
        <5>3. ASSUME NEW i \in DOMAIN w, DoneCall(w[i]) PROVE \E k \in DOMAIN tr.index : TRUE
          <6>1. \E j \in DOMAIN w : w[j].kind = "added" /\ w[j].call = w[i].call
            BY <2>2, <5>3, ItemCalls
          <6> QED BY <2>5, <2>6, <6>1 DEF Indexed
        <5>4. ASSUME NEW k \in DOMAIN tr.index PROVE \E i \in DOMAIN w : DoneCall(w[i])
          <6>1. tr.index[k] \in Calls
            BY <5>1
          <6>2. \E j \in DOMAIN w : w[j].kind = "added" /\ w[j].call = tr.index[k]
            BY <2>5, <2>6 DEF Indexed
          <6> QED BY <2>2, <6>1, <6>2, ItemCalls
        <5> QED BY <5>2, <5>3, <5>4
      <4>3. Aggregated(w).reason = Reason(w)
        BY DEF Aggregated, Message
      <4> QED BY <3>1, <4>1, <4>2, <4>3 DEF Reason
    <3> QED BY <3>5, <3>6
  <2>13. ToSet(m.calls) = {[c EXCEPT !.arguments = Put(sp, @)] : c \in ToSet(Aggregated(w).calls)}
    BY <2>11
  <2>14. \A body : Garbled(body) = Put(sp, body)
    BY <2>1, GarbledPut
  <2>15. {[c EXCEPT !.arguments = Garbled(@)] : c \in ToSet(Aggregated(w).calls)}
            = {[c EXCEPT !.arguments = Put(sp, @)] : c \in ToSet(Aggregated(w).calls)}
    BY <2>14, Zenon
  <2> QED BY <2>1, <2>4, <2>10, <2>12, <2>13, <2>14, <2>15, Zenon
<1> QED BY <1>1, ChatInvariant, PTL

-----------------------------------------------------------------------------
(* The places of what flattening leaves. *)

\* Counting up from 0 in a set.
LEMMA CountUp ==
  ASSUME NEW n \in Nat, NEW D, 0 \in D, \A k \in 1 .. n : k - 1 \in D => k \in D
  PROVE  \A k \in 0 .. n : k \in D
<1> DEFINE Out == {k \in 0 .. n : k \notin D}
<1> SUFFICES ASSUME Out # {} PROVE FALSE
  OBVIOUS
<1>1. Out \in SUBSET Nat
  OBVIOUS
<1>2. PICK k \in Out : \A j \in Out : k <= j
  <2> HIDE DEF Out
  <2> QED BY <1>1, Least
<1>3. k # 0
  OBVIOUS
<1>4. k - 1 \in 0 .. n /\ ~(k <= k - 1) /\ k \in 1 .. n
  BY <1>3
<1>5. k - 1 \in D
  BY <1>2, <1>4
<1> QED BY <1>4, <1>5

\* The places of a sequence c of p things and then q others.
Joined(a, p, b, q, c) ==
  /\ p \in Nat /\ q \in Nat /\ DOMAIN a = 1 .. p /\ DOMAIN b = 1 .. q /\ DOMAIN c = 1 .. p + q
  /\ \A i \in 1 .. p : i \in 1 .. p + q /\ c[i] = a[i]
  /\ \A i \in 1 .. q : p + i \in 1 .. p + q /\ c[p + i] = b[i]
  /\ \A i \in 1 .. p + q : i \in 1 .. p \/ \E j \in 1 .. q : i = p + j

\* Those of a concatenation.
LEMMA ConcatPlaces ==
  ASSUME NEW S, NEW a \in Seq(S), NEW b \in Seq(S)
  PROVE  Joined(a, Len(a), b, Len(b), a \o b) /\ a \o b \in Seq(S) /\ Len(a \o b) = Len(a) + Len(b)
<1>1. PICK p, q, c : p = Len(a) /\ q = Len(b) /\ c = a \o b
  OBVIOUS
<1>2. p \in Nat /\ q \in Nat /\ DOMAIN a = 1 .. p /\ DOMAIN b = 1 .. q
  BY <1>1
<1>3. c \in Seq(S) /\ Len(c) = p + q /\ \A i \in 1 .. p + q : c[i] = IF i <= p THEN a[i] ELSE b[i - p]
  BY <1>1, ConcatProperties
<1>4. DOMAIN c = 1 .. p + q
  BY <1>2, <1>3, LenProperties
<1>5. ASSUME NEW i \in 1 .. p PROVE i \in 1 .. p + q /\ c[i] = a[i]
  BY <1>2, <1>3
<1>6. ASSUME NEW i \in 1 .. q PROVE p + i \in 1 .. p + q /\ c[p + i] = b[i]
  <2>1. p + i \in 1 .. p + q /\ ~(p + i <= p) /\ (p + i) - p = i
    BY <1>2
  <2> QED BY <1>3, <2>1
<1>7. ASSUME NEW i \in 1 .. p + q PROVE i \in 1 .. p \/ \E j \in 1 .. q : i = p + j
  <2>1. CASE i <= p
    BY <1>2, <2>1
  <2>2. CASE ~(i <= p)
    <3>1. i - p \in 1 .. q /\ i = p + (i - p)
      BY <1>2, <2>2
    <3> QED BY <3>1
  <2> QED BY <2>1, <2>2
<1>8. Joined(a, p, b, q, c)
  BY <1>2, <1>4, <1>5, <1>6, <1>7 DEF Joined
<1> QED BY <1>1, <1>3, <1>8

-----------------------------------------------------------------------------
\* Sequences of sequences one behind the other make what each of them makes.
LEMMA FlattenConcat ==
  ASSUME NEW S, NEW ss \in Seq(Seq(S)), NEW tt \in Seq(Seq(S))
  PROVE  /\ FlattenSeq(ss \o tt) = FlattenSeq(ss) \o FlattenSeq(tt)
         /\ FlattenSeq(ss) \in Seq(S) /\ FlattenSeq(tt) \in Seq(S)
<1>1. PICK p, q, uu : p = Len(ss) /\ q = Len(tt) /\ uu = ss \o tt
  OBVIOUS
<1>2. uu \in Seq(Seq(S)) /\ Len(uu) = p + q /\ Joined(ss, p, tt, q, uu)
  BY <1>1, ConcatPlaces
<1>3. /\ p \in Nat /\ q \in Nat
      /\ \A i \in 1 .. p : i \in 1 .. p + q /\ uu[i] = ss[i]
      /\ \A i \in 1 .. q : p + i \in 1 .. p + q /\ uu[p + i] = tt[i]
  BY <1>2 DEF Joined
<1>4. PICK sums : Sums(S, uu, sums)
  BY <1>2, SumsExist
<1>5. PICK tsums : Sums(S, tt, tsums)
  BY SumsExist
<1>6. sums \in [0 .. p + q -> Seq(S)] /\ sums[0] = <<>> /\ \A k \in 1 .. p + q : sums[k] = sums[k - 1] \o uu[k]
  BY <1>2, <1>4 DEF Sums
<1>7. tsums \in [0 .. q -> Seq(S)] /\ tsums[0] = <<>> /\ \A k \in 1 .. q : tsums[k] = tsums[k - 1] \o tt[k]
  BY <1>1, <1>5 DEF Sums
<1>8. FlattenSeq(ss) = sums[p] /\ FlattenSeq(ss) \in Seq(S)
  <2>1. PICK less : less = [k \in 0 .. p |-> sums[k]]
    OBVIOUS
  <2>2. \A k \in 0 .. p : k \in 0 .. p + q
    BY <1>3
  <2>3. less \in [0 .. p -> Seq(S)] /\ less[0] = <<>>
    BY <1>3, <1>6, <2>1, <2>2
  <2>4. ASSUME NEW k \in 1 .. p PROVE less[k] = less[k - 1] \o ss[k]
    <3>1. k \in 0 .. p /\ k - 1 \in 0 .. p
      BY <1>3
    <3>2. less[k] = sums[k] /\ less[k - 1] = sums[k - 1]
      BY <2>1, <3>1
    <3>3. k \in 1 .. p + q /\ uu[k] = ss[k]
      BY <1>3
    <3>4. sums[k] = sums[k - 1] \o uu[k]
      BY <1>6, <3>3
    <3> QED BY <3>2, <3>3, <3>4, Zenon
  <2>5. Sums(S, ss, less)
    BY <1>1, <2>3, <2>4 DEF Sums
  <2>6. FlattenSeq(ss) = less[p] /\ FlattenSeq(ss) \in Seq(S)
    BY <1>1, <2>5, SumsFlatten
  <2>7. p \in 0 .. p
    BY <1>3
  <2> QED BY <2>1, <2>6, <2>7
<1>9. FlattenSeq(tt) = tsums[q] /\ FlattenSeq(tt) \in Seq(S)
  BY <1>1, <1>5, SumsFlatten
<1>10. FlattenSeq(uu) = sums[p + q]
  BY <1>2, <1>4, SumsFlatten
<1> DEFINE D == {k \in 0 .. q : sums[p + k] = sums[p] \o tsums[k]}
<1>11. 0 \in D
  <2>1. sums[p] \in Seq(S) /\ p + 0 = p
    BY <1>3, <1>8
  <2>2. sums[p] \o <<>> = sums[p]
    BY <2>1, ConcatEmptySeq
  <2> QED BY <1>3, <1>7, <2>1, <2>2
<1>12. ASSUME NEW k \in 1 .. q, k - 1 \in D PROVE k \in D
  <2>1. p + k \in 1 .. p + q /\ uu[p + k] = tt[k] /\ (p + k) - 1 = p + (k - 1) /\ k \in 0 .. q /\ k - 1 \in 0 .. q
    BY <1>3
  <2>2. sums[p + k] = sums[p + (k - 1)] \o tt[k]
    BY <1>6, <2>1
  <2>3. sums[p + (k - 1)] = sums[p] \o tsums[k - 1]
    BY <1>12
  <2>4. tsums[k] = tsums[k - 1] \o tt[k]
    BY <1>7
  <2>5. sums[p] \in Seq(S) /\ tsums[k - 1] \in Seq(S) /\ tt[k] \in Seq(S)
    <3>1. sums[p] \in Seq(S)
      BY <1>8
    <3>2. tsums[k - 1] \in Seq(S)
      BY <1>7, <2>1
    <3>3. tt[k] \in Seq(S)
      <4>1. k \in 1 .. Len(tt)
        BY <1>1
      <4> QED BY <4>1
    <3> QED BY <3>1, <3>2, <3>3
  <2>6. (sums[p] \o tsums[k - 1]) \o tt[k] = sums[p] \o (tsums[k - 1] \o tt[k])
    <3>1. PICK a, b, c : a = sums[p] /\ b = tsums[k - 1] /\ c = tt[k]
      OBVIOUS
    <3>2. a \in Seq(S) /\ b \in Seq(S) /\ c \in Seq(S)
      BY <2>5, <3>1
    <3>3. Associative(a, b, c)
      BY <3>2, FramesBehind
    <3>4. (a \o b) \o c = a \o (b \o c)
      BY <3>3 DEF Associative
    <3> QED BY <3>1, <3>4
  <2>7. sums[p + k] = sums[p] \o tsums[k]
    BY <2>2, <2>3, <2>4, <2>6, Zenon
  <2> QED BY <2>1, <2>7
<1> HIDE DEF D
<1>13. q \in D
  <2>1. q \in 0 .. q
    BY <1>3
  <2> QED BY <1>3, <1>11, <1>12, <2>1, CountUp
<1>14. sums[p + q] = sums[p] \o tsums[q]
  BY <1>13 DEF D
<1> QED BY <1>1, <1>8, <1>9, <1>10, <1>14

\* When each piece with an element of Q has one related to it in an earlier piece,
\* each element of Q has one before it in the whole.
LEMMA FlattenBehind ==
  ASSUME NEW S, NEW ss \in Seq(Seq(S)), NEW Q, NEW R,
         \A i \in 1 .. Len(ss) : \A x \in ToSet(ss[i]) : x \in Q =>
           \E j \in 1 .. Len(ss) : j < i /\ \E y \in ToSet(ss[j]) : <<x, y>> \in R
  PROVE  \A i \in DOMAIN FlattenSeq(ss) : FlattenSeq(ss)[i] \in Q =>
           \E j \in DOMAIN FlattenSeq(ss) : j < i /\ <<FlattenSeq(ss)[i], FlattenSeq(ss)[j]>> \in R
<1>1. PICK n : n = Len(ss)
  OBVIOUS
<1>2. n \in Nat /\ \A k \in 1 .. n : ss[k] \in Seq(S)
  BY <1>1
<1>3. PICK sums : Sums(S, ss, sums)
  BY SumsExist
<1>4. sums \in [0 .. n -> Seq(S)] /\ sums[0] = <<>> /\ \A k \in 1 .. n : sums[k] = sums[k - 1] \o ss[k]
  BY <1>1, <1>3 DEF Sums
<1> DEFINE Behind(s) == \A i \in DOMAIN s : s[i] \in Q => \E j \in DOMAIN s : j < i /\ <<s[i], s[j]>> \in R
           Holds(k) == Behind(sums[k]) /\ \A i \in 1 .. k : ToSet(ss[i]) \subseteq ToSet(sums[k])
           D == {k \in 0 .. n : Holds(k)}
<1>5. Holds(0)
  BY <1>4
<1>6. ASSUME NEW k \in 1 .. n, Holds(k - 1) PROVE Holds(k)
  <2>1. PICK a, b, c, p, q : a = sums[k - 1] /\ b = ss[k] /\ c = a \o b /\ p = Len(a) /\ q = Len(b)
    OBVIOUS
  <2>2. k - 1 \in 0 .. n
    BY <1>2
  <2>3. a \in Seq(S) /\ b \in Seq(S) /\ c = sums[k]
    BY <1>2, <1>4, <2>1, <2>2
  <2>4. Joined(a, p, b, q, c)
    BY <2>1, <2>3, ConcatPlaces
  <2>5. /\ p \in Nat /\ q \in Nat /\ DOMAIN a = 1 .. p /\ DOMAIN b = 1 .. q /\ DOMAIN c = 1 .. p + q
        /\ \A i \in 1 .. p : i \in 1 .. p + q /\ c[i] = a[i]
        /\ \A i \in 1 .. q : p + i \in 1 .. p + q /\ c[p + i] = b[i]
        /\ \A i \in 1 .. p + q : i \in 1 .. p \/ \E j \in 1 .. q : i = p + j
    BY <2>4 DEF Joined
  <2>6. ToSet(a) \subseteq ToSet(c) /\ ToSet(b) \subseteq ToSet(c)
    BY <2>5 DEF ToSet
  <2>7. \A i \in 1 .. k : ToSet(ss[i]) \subseteq ToSet(c)
    <3> TAKE i \in 1 .. k
    <3>1. CASE i = k
      BY <2>1, <2>6, <3>1
    <3>2. CASE i # k
      <4>1. i \in 1 .. k - 1
        BY <1>2, <3>2
      <4>2. ToSet(ss[i]) \subseteq ToSet(a)
        BY <1>6, <2>1, <4>1
      <4> QED BY <2>6, <4>2
    <3> QED BY <3>1, <3>2
  <2>8. ASSUME NEW i \in 1 .. p + q, c[i] \in Q PROVE \E j \in 1 .. p + q : j < i /\ <<c[i], c[j]>> \in R
    <3>1. CASE i \in 1 .. p
      <4>1. a[i] \in Q
        BY <2>5, <2>8, <3>1
      <4>2. PICK j \in 1 .. p : j < i /\ <<a[i], a[j]>> \in R
        BY <1>6, <2>1, <2>5, <3>1, <4>1
      <4>3. j \in 1 .. p + q /\ c[j] = a[j] /\ c[i] = a[i]
        BY <2>5, <3>1
      <4> QED BY <4>2, <4>3
    <3>2. CASE ~(i \in 1 .. p)
      <4>1. PICK l \in 1 .. q : i = p + l
        BY <2>5, <3>2
      <4>2. c[i] = b[l] /\ b[l] \in ToSet(b)
        BY <2>5, <4>1 DEF ToSet
      <4>3. PICK r \in 1 .. n : r < k /\ \E y \in ToSet(ss[r]) : <<b[l], y>> \in R
        BY <1>1, <2>1, <2>8, <4>2
      <4>4. r \in 1 .. k - 1
        BY <1>2, <4>3
      <4>5. PICK y \in ToSet(a) : <<b[l], y>> \in R
        BY <1>6, <2>1, <4>3, <4>4
      <4>6. PICK j \in 1 .. p : y = a[j]
        BY <2>5, <4>5 DEF ToSet
      <4>7. j \in 1 .. p + q /\ c[j] = a[j] /\ j < i
        BY <2>5, <4>1
      <4> QED BY <4>2, <4>5, <4>6, <4>7
    <3> QED BY <3>1, <3>2
  <2>9. Behind(c)
    BY <2>5, <2>8
  <2> QED BY <2>3, <2>7, <2>9
<1> HIDE DEF Holds
<1>7. Holds(n)
  <2>1. 0 \in D /\ \A k \in 1 .. n : k - 1 \in D => k \in D
    BY <1>2, <1>5, <1>6
  <2>2. n \in 0 .. n
    BY <1>2
  <2> HIDE DEF D
  <2>3. n \in D
    BY <1>2, <2>1, <2>2, CountUp
  <2> QED BY <2>3 DEF D
<1>8. FlattenSeq(ss) = sums[n]
  BY <1>1, <1>3, SumsFlatten
<1> QED BY <1>1, <1>7, <1>8 DEF Holds

\* Pieces without anything make nothing.
LEMMA FlattenNothing ==
  ASSUME NEW S, NEW ss \in Seq(Seq(S)), \A i \in 1 .. Len(ss) : ss[i] = <<>>
  PROVE  FlattenSeq(ss) = <<>>
<1>1. PICK n, sums : n = Len(ss) /\ sums = [k \in 0 .. n |-> <<>>]
  OBVIOUS
<1>2. n \in Nat /\ <<>> \in Seq(S) /\ <<>> \o <<>> = <<>>
  BY <1>1, EmptySeq, ConcatEmptySeq
<1>3. sums \in [0 .. n -> Seq(S)] /\ sums[0] = <<>> /\ n \in 0 .. n
  BY <1>1, <1>2
<1>4. ASSUME NEW k \in 1 .. n PROVE sums[k] = sums[k - 1] \o ss[k]
  <2>1. k \in 0 .. n /\ k - 1 \in 0 .. n
    BY <1>2
  <2>2. sums[k] = <<>> /\ sums[k - 1] = <<>> /\ ss[k] = <<>>
    BY <1>1, <2>1
  <2> QED BY <1>2, <2>2
<1>5. Sums(S, ss, sums)
  BY <1>1, <1>3, <1>4 DEF Sums
<1>6. FlattenSeq(ss) = sums[n]
  BY <1>1, <1>5, SumsFlatten
<1> QED BY <1>1, <1>3, <1>6

-----------------------------------------------------------------------------
(* What a turn becomes. *)

Roles == {"system", "developer", "user", "assistant", "tool"}
Ids == STRING \cup Calls \cup {NoCall}
PartSet == [type : {"text", "image", "audio"}, body : Bodies]
CalledSet == [id : Ids, arguments : Bodies]
TurnSet == [role : Roles, parts : Seq(PartSet), calls : Seq(CalledSet), of : Ids]
InputSet == [kind : {"item", "output", "message", "user"}, call : Ids, body : Bodies]

\* The parts of these types are what a content says.
LEMMA ContentElements ==
  ASSUME NEW parts \in Seq(PartSet), NEW types
  PROVE  /\ Content(parts, types) \in Bodies
         /\ \A x : x \in ToSet(Content(parts, types)) <=>
              \E j \in DOMAIN parts : parts[j].type \in types /\ x \in ToSet(parts[j].body)
<1>1. PICK n : n = Len(parts)
  OBVIOUS
<1>2. n \in Nat /\ DOMAIN parts = 1 .. n /\ \A j \in 1 .. n : parts[j].body \in Bodies
  <2>1. n \in Nat /\ DOMAIN parts = 1 .. n /\ \A j \in 1 .. n : parts[j] \in PartSet
    BY <1>1
  <2>2. \A p \in PartSet : p.body \in Bodies
    BY DEF PartSet
  <2> QED BY <2>1, <2>2
<1>3. PICK ss : ss = [j \in 1 .. n |-> IF parts[j].type \in types THEN parts[j].body ELSE <<>>]
  OBVIOUS
<1>4. ss \in Seq(Bodies) /\ Len(ss) = n
  <2>1. \A j \in 1 .. n : (IF parts[j].type \in types THEN parts[j].body ELSE <<>>) \in Bodies
    BY <1>2, EmptySeq DEF Bodies
  <2>2. ss \in [1 .. n -> Bodies]
    BY <1>3, <2>1, Zenon
  <2> QED BY <1>2, <2>2
<1>5. Content(parts, types) = FlattenSeq(ss)
  BY <1>2, <1>3, Zenon DEF Content
<1>6. ss \in Seq(Seq(Int))
  BY <1>4 DEF Bodies
<1>7. FlattenSeq(ss) \in Seq(Int)
  <2>1. PICK sums : Sums(Int, ss, sums)
    BY <1>6, SumsExist
  <2> QED BY <1>6, <2>1, SumsFlatten
<1>8. ASSUME NEW x
      PROVE  x \in ToSet(FlattenSeq(ss)) <=> \E j \in DOMAIN parts : parts[j].type \in types /\ x \in ToSet(parts[j].body)
  <2>1. x \in ToSet(FlattenSeq(ss)) <=> \E j \in 1 .. n : x \in ToSet(ss[j])
    BY <1>4, <1>6, FlattenElements
  <2>2. ASSUME NEW j \in 1 .. n PROVE x \in ToSet(ss[j]) <=> parts[j].type \in types /\ x \in ToSet(parts[j].body)
    <3>1. x \notin ToSet(<<>>)
      BY DEF ToSet
    <3>2. ss[j] = IF parts[j].type \in types THEN parts[j].body ELSE <<>>
      BY <1>3
    <3>3. CASE parts[j].type \in types
      BY <3>2, <3>3
    <3>4. CASE parts[j].type \notin types
      BY <3>1, <3>2, <3>4
    <3> QED BY <3>3, <3>4
  <2> QED BY <1>2, <2>1, <2>2
<1> QED BY <1>5, <1>7, <1>8 DEF Bodies

\* x is an item of turn t.
ItemOf(t, x) ==
  \/ t.role = "tool" /\ x = Event("output", t.of, TextOf(t))
  \/ t.role = "assistant" /\ TextOf(t) # <<>> /\ x = Event("message", NoCall, TextOf(t))
  \/ t.role = "assistant" /\ \E k \in DOMAIN t.calls : x = Event("item", t.calls[k].id, t.calls[k].arguments)
  \/ t.role = "user" /\ x = Event("user", NoCall, Content(t.parts, {"text", "image"}))

\* The calls of an assistant turn, one item each.
LEMMA CallItemsOf ==
  ASSUME NEW t \in TurnSet
  PROVE  /\ CallItems(t.calls) \in Seq(InputSet)
         /\ \A x : x \in ToSet(CallItems(t.calls)) <=>
              \E k \in DOMAIN t.calls : x = Event("item", t.calls[k].id, t.calls[k].arguments)
<1>1. PICK s, n : s = t.calls /\ n = Len(s)
  OBVIOUS
<1>2. s \in Seq(CalledSet) /\ n \in Nat /\ DOMAIN s = 1 .. n
  BY <1>1 DEF TurnSet
<1>3. PICK c : c = [i \in 1 .. n |-> Event("item", s[i].id, s[i].arguments)]
  OBVIOUS
<1>4. c = CallItems(s)
  BY <1>2, <1>3 DEF CallItems
<1>5. c \in [1 .. n -> InputSet]
  <2>1. ASSUME NEW i \in 1 .. n PROVE Event("item", s[i].id, s[i].arguments) \in InputSet
    <3>1. s[i] \in CalledSet
      BY <1>2
    <3>2. s[i].id \in Ids /\ s[i].arguments \in Bodies
      BY <3>1 DEF CalledSet
    <3> QED BY <3>2 DEF Event, InputSet
  <2> QED BY <1>3, <2>1, Zenon
<1>6. c \in Seq(InputSet) /\ DOMAIN c = 1 .. n
  BY <1>2, <1>5
<1>7. \A x : x \in ToSet(c) <=> \E k \in 1 .. n : x = Event("item", s[k].id, s[k].arguments)
  BY <1>3, <1>6 DEF ToSet
<1> QED BY <1>1, <1>2, <1>4, <1>6, <1>7

\* The items of a turn.
LEMMA TurnItems ==
  ASSUME NEW t \in TurnSet
  PROVE  InputItems(t) \in Seq(InputSet) /\ \A x : x \in ToSet(InputItems(t)) <=> ItemOf(t, x)
<1>1. TextOf(t) \in Bodies /\ Content(t.parts, {"text", "image"}) \in Bodies
  BY ContentElements DEF TextOf, TurnSet
<1>2. NoCall \in Ids /\ t.of \in Ids /\ t.role \in Roles
  BY DEF Ids, TurnSet
<1>3. \A x : ToSet(<<x>>) = {x}
  BY DEF ToSet
<1>4. ToSet(<<>>) = {} /\ <<>> \in Seq(InputSet)
  BY EmptySeq DEF ToSet
<1>5. CASE t.role \in Instructing
  <2>1. InputItems(t) = <<>>
    BY <1>5 DEF InputItems, Instructing
  <2>2. \A x : ~ItemOf(t, x)
    BY <1>5 DEF ItemOf, Instructing
  <2> QED BY <1>4, <2>1, <2>2
<1>6. CASE t.role = "tool"
  <2>1. PICK e : e = Event("output", t.of, TextOf(t))
    OBVIOUS
  <2>2. e \in InputSet
    BY <1>1, <1>2, <2>1 DEF Event, InputSet
  <2>3. InputItems(t) = <<e>>
    BY <1>6, <2>1 DEF InputItems, Instructing
  <2>4. \A x : ItemOf(t, x) <=> x = e
    BY <1>6, <2>1 DEF ItemOf
  <2> QED BY <1>3, <2>2, <2>3, <2>4
<1>7. CASE t.role = "user"
  <2>1. PICK e : e = Event("user", NoCall, Content(t.parts, {"text", "image"}))
    OBVIOUS
  <2>2. e \in InputSet
    BY <1>1, <1>2, <2>1 DEF Event, InputSet
  <2>3. InputItems(t) = <<e>>
    BY <1>7, <2>1 DEF InputItems, Instructing
  <2>4. \A x : ItemOf(t, x) <=> x = e
    BY <1>7, <2>1 DEF ItemOf
  <2> QED BY <1>3, <2>2, <2>3, <2>4
<1>8. CASE t.role = "assistant"
  <2>1. PICK e, a, b : /\ e = Event("message", NoCall, TextOf(t))
                       /\ a = (IF TextOf(t) # <<>> THEN <<e>> ELSE <<>>) /\ b = CallItems(t.calls)
    OBVIOUS
  <2>2. e \in InputSet
    BY <1>1, <1>2, <2>1 DEF Event, InputSet
  <2>3. a \in Seq(InputSet) /\ \A x : x \in ToSet(a) <=> TextOf(t) # <<>> /\ x = e
    <3>1. CASE TextOf(t) # <<>>
      BY <1>3, <2>1, <2>2, <3>1
    <3>2. CASE TextOf(t) = <<>>
      BY <1>4, <2>1, <3>2
    <3> QED BY <3>1, <3>2
  <2>4. /\ b \in Seq(InputSet)
        /\ \A x : x \in ToSet(b) <=> \E k \in DOMAIN t.calls : x = Event("item", t.calls[k].id, t.calls[k].arguments)
    BY <2>1, CallItemsOf
  <2>5. InputItems(t) = a \o b
    BY <1>8, <2>1 DEF InputItems, Instructing
  <2>6. a \o b \in Seq(InputSet)
    BY <2>3, <2>4
  <2>7. \A x : x \in ToSet(a \o b) <=> x \in ToSet(a) \/ x \in ToSet(b)
    BY <2>3, <2>4, ConcatElements
  <2>8. \A x : ItemOf(t, x) <=> (TextOf(t) # <<>> /\ x = e)
                                 \/ \E k \in DOMAIN t.calls : x = Event("item", t.calls[k].id, t.calls[k].arguments)
    BY <1>8, <2>1 DEF ItemOf
  <2> QED BY <2>3, <2>4, <2>5, <2>6, <2>7, <2>8
<1> QED BY <1>2, <1>5, <1>6, <1>7, <1>8 DEF Roles, Instructing

-----------------------------------------------------------------------------
(* What a conversation becomes. *)

Pieces(turns) == [i \in DOMAIN turns |-> InputItems(turns[i])]
Instructed(turns) == [i \in DOMAIN turns |-> IF turns[i].role \in Instructing THEN TextOf(turns[i]) ELSE <<>>]

\* The input is made of the turns' items.
LEMMA InputOf ==
  ASSUME NEW turns \in Seq(TurnSet)
  PROVE  /\ Pieces(turns) \in Seq(Seq(InputSet)) /\ Len(Pieces(turns)) = Len(turns)
         /\ DOMAIN turns = 1 .. Len(turns) /\ Len(turns) \in Nat
         /\ \A i \in 1 .. Len(turns) : turns[i] \in TurnSet /\ Pieces(turns)[i] = InputItems(turns[i])
         /\ chat_to_responses(turns).input = FlattenSeq(Pieces(turns))
         /\ chat_to_responses(turns).input \in Seq(InputSet)
<1>1. PICK n, ss : n = Len(turns) /\ ss = Pieces(turns)
  OBVIOUS
<1>2. n \in Nat /\ DOMAIN turns = 1 .. n /\ \A i \in 1 .. n : turns[i] \in TurnSet
  BY <1>1
<1>3. ss = [i \in 1 .. n |-> InputItems(turns[i])]
  BY <1>1, <1>2 DEF Pieces
<1>4. \A i \in 1 .. n : InputItems(turns[i]) \in Seq(InputSet)
  BY <1>2, TurnItems
<1>5. ss \in [1 .. n -> Seq(InputSet)]
  BY <1>3, <1>4, Zenon
<1>6. ss \in Seq(Seq(InputSet)) /\ Len(ss) = n /\ \A i \in 1 .. n : ss[i] = InputItems(turns[i])
  BY <1>2, <1>3, <1>5
<1>7. FlattenSeq(ss) \in Seq(InputSet)
  <2>1. PICK sums : Sums(InputSet, ss, sums)
    BY <1>6, SumsExist
  <2> QED BY <1>6, <2>1, SumsFlatten
<1>8. chat_to_responses(turns).input = FlattenSeq(ss)
  BY <1>1 DEF chat_to_responses, Pieces
<1> QED BY <1>1, <1>2, <1>6, <1>7, <1>8

\* The instructions are made of the turns' texts.
LEMMA InstructionsOf ==
  ASSUME NEW turns \in Seq(TurnSet)
  PROVE  /\ Instructed(turns) \in Seq(Seq(Int)) /\ Len(Instructed(turns)) = Len(turns)
         /\ \A i \in 1 .. Len(turns) :
              Instructed(turns)[i] = IF turns[i].role \in Instructing THEN TextOf(turns[i]) ELSE <<>>
         /\ chat_to_responses(turns).instructions = FlattenSeq(Instructed(turns))
         /\ chat_to_responses(turns).instructions \in Seq(Int)
<1>1. PICK n, ss : n = Len(turns) /\ ss = Instructed(turns)
  OBVIOUS
<1>2. n \in Nat /\ DOMAIN turns = 1 .. n /\ \A i \in 1 .. n : turns[i] \in TurnSet
  BY <1>1
<1>3. ss = [i \in 1 .. n |-> IF turns[i].role \in Instructing THEN TextOf(turns[i]) ELSE <<>>]
  BY <1>1, <1>2 DEF Instructed
<1>4. ASSUME NEW i \in 1 .. n
      PROVE  (IF turns[i].role \in Instructing THEN TextOf(turns[i]) ELSE <<>>) \in Seq(Int)
  <2>1. turns[i].parts \in Seq(PartSet)
    BY <1>2 DEF TurnSet
  <2>2. TextOf(turns[i]) \in Seq(Int)
    BY <2>1, ContentElements DEF TextOf, Bodies
  <2> QED BY <2>2, EmptySeq
<1>5. ss \in [1 .. n -> Seq(Int)]
  BY <1>3, <1>4, Zenon
<1>6. /\ ss \in Seq(Seq(Int)) /\ Len(ss) = n
      /\ \A i \in 1 .. n : ss[i] = IF turns[i].role \in Instructing THEN TextOf(turns[i]) ELSE <<>>
  BY <1>2, <1>3, <1>5
<1>7. FlattenSeq(ss) \in Seq(Int)
  <2>1. PICK sums : Sums(Int, ss, sums)
    BY <1>6, SumsExist
  <2> QED BY <1>6, <2>1, SumsFlatten
<1>8. chat_to_responses(turns).instructions = FlattenSeq(ss)
  BY <1>1 DEF chat_to_responses, Instructed
<1> QED BY <1>1, <1>6, <1>7, <1>8

\* What further turns add comes behind.
LEMMA TurnsAppended ==
  ASSUME NEW g \in Seq(TurnSet), NEW c \in Seq(TurnSet)
  PROVE  /\ chat_to_responses(g \o c).input = chat_to_responses(g).input \o chat_to_responses(c).input
         /\ chat_to_responses(g \o c).instructions
              = chat_to_responses(g).instructions \o chat_to_responses(c).instructions
<1>1. PICK p, q, d : p = Len(g) /\ q = Len(c) /\ d = g \o c
  OBVIOUS
<1>2. d \in Seq(TurnSet) /\ Len(d) = p + q /\ Joined(g, p, c, q, d)
  BY <1>1, ConcatPlaces
<1>3. /\ p \in Nat /\ q \in Nat
      /\ \A i \in 1 .. p : i \in 1 .. p + q /\ d[i] = g[i]
      /\ \A i \in 1 .. q : p + i \in 1 .. p + q /\ d[p + i] = c[i]
      /\ \A i \in 1 .. p + q : i \in 1 .. p \/ \E j \in 1 .. q : i = p + j
  BY <1>2 DEF Joined
<1>4. Pieces(d) = Pieces(g) \o Pieces(c)
  <2>1. PICK a, b, e, r : a = Pieces(g) /\ b = Pieces(c) /\ e = Pieces(d) /\ r = a \o b
    OBVIOUS
  <2>2. /\ a \in Seq(Seq(InputSet)) /\ Len(a) = p /\ \A i \in 1 .. p : a[i] = InputItems(g[i])
        /\ b \in Seq(Seq(InputSet)) /\ Len(b) = q /\ \A i \in 1 .. q : b[i] = InputItems(c[i])
        /\ e \in Seq(Seq(InputSet)) /\ Len(e) = p + q /\ \A i \in 1 .. p + q : e[i] = InputItems(d[i])
    BY <1>1, <1>2, <2>1, InputOf
  <2>3. r \in Seq(Seq(InputSet)) /\ Len(r) = p + q /\ Joined(a, p, b, q, r)
    BY <2>1, <2>2, ConcatPlaces
  <2>4. ASSUME NEW i \in 1 .. p + q PROVE e[i] = r[i]
    <3>1. CASE i \in 1 .. p
      <4>1. r[i] = a[i]
        BY <2>3, <3>1 DEF Joined
      <4>2. i \in 1 .. p + q /\ d[i] = g[i]
        BY <1>3, <3>1
      <4>3. e[i] = InputItems(d[i])
        BY <2>2
      <4>4. a[i] = InputItems(g[i])
        BY <2>2, <3>1
      <4> QED BY <4>1, <4>2, <4>3, <4>4, Zenon
    <3>2. CASE ~(i \in 1 .. p)
      <4>1. PICK j \in 1 .. q : i = p + j
        BY <1>3, <3>2
      <4>2. r[i] = b[j]
        BY <2>3, <4>1 DEF Joined
      <4>3. d[i] = c[j]
        BY <1>3, <4>1
      <4>4. e[i] = InputItems(d[i])
        BY <2>2
      <4>5. b[j] = InputItems(c[j])
        BY <2>2
      <4> QED BY <4>2, <4>3, <4>4, <4>5, Zenon
    <3> QED BY <3>1, <3>2
  <2>5. e = r
    BY <2>2, <2>3, <2>4, SeqEqual
  <2> QED BY <2>1, <2>5
<1>5. Instructed(d) = Instructed(g) \o Instructed(c)
  <2> DEFINE say(t) == IF t.role \in Instructing THEN TextOf(t) ELSE <<>>
  <2>1. PICK a, b, e, r : a = Instructed(g) /\ b = Instructed(c) /\ e = Instructed(d) /\ r = a \o b
    OBVIOUS
  <2>2. /\ a \in Seq(Seq(Int)) /\ Len(a) = p /\ \A i \in 1 .. p : a[i] = say(g[i])
        /\ b \in Seq(Seq(Int)) /\ Len(b) = q /\ \A i \in 1 .. q : b[i] = say(c[i])
        /\ e \in Seq(Seq(Int)) /\ Len(e) = p + q /\ \A i \in 1 .. p + q : e[i] = say(d[i])
    BY <1>1, <1>2, <2>1, InstructionsOf
  <2> HIDE DEF say
  <2>3. r \in Seq(Seq(Int)) /\ Len(r) = p + q /\ Joined(a, p, b, q, r)
    BY <2>1, <2>2, ConcatPlaces
  <2>4. ASSUME NEW i \in 1 .. p + q PROVE e[i] = r[i]
    <3>1. CASE i \in 1 .. p
      <4>1. r[i] = a[i]
        BY <2>3, <3>1 DEF Joined
      <4>2. i \in 1 .. p + q /\ d[i] = g[i]
        BY <1>3, <3>1
      <4>3. e[i] = say(d[i])
        BY <2>2
      <4>4. a[i] = say(g[i])
        BY <2>2, <3>1
      <4> QED BY <4>1, <4>2, <4>3, <4>4, Zenon
    <3>2. CASE ~(i \in 1 .. p)
      <4>1. PICK j \in 1 .. q : i = p + j
        BY <1>3, <3>2
      <4>2. r[i] = b[j]
        BY <2>3, <4>1 DEF Joined
      <4>3. d[i] = c[j]
        BY <1>3, <4>1
      <4>4. e[i] = say(d[i])
        BY <2>2
      <4>5. b[j] = say(c[j])
        BY <2>2
      <4> QED BY <4>2, <4>3, <4>4, <4>5, Zenon
    <3> QED BY <3>1, <3>2
  <2>5. e = r
    BY <2>2, <2>3, <2>4, SeqEqual
  <2> QED BY <2>1, <2>5
<1>6. FlattenSeq(Pieces(g) \o Pieces(c)) = FlattenSeq(Pieces(g)) \o FlattenSeq(Pieces(c))
  <2>1. Pieces(g) \in Seq(Seq(InputSet)) /\ Pieces(c) \in Seq(Seq(InputSet))
    BY InputOf
  <2> QED BY <2>1, FlattenConcat
<1>7. FlattenSeq(Instructed(g) \o Instructed(c)) = FlattenSeq(Instructed(g)) \o FlattenSeq(Instructed(c))
  <2>1. Instructed(g) \in Seq(Seq(Int)) /\ Instructed(c) \in Seq(Seq(Int))
    BY InstructionsOf
  <2> QED BY <2>1, FlattenConcat
<1>8. \A turns : /\ chat_to_responses(turns).input = FlattenSeq(Pieces(turns))
                 /\ chat_to_responses(turns).instructions = FlattenSeq(Instructed(turns))
  BY DEF chat_to_responses, Pieces, Instructed
<1> QED BY <1>1, <1>4, <1>5, <1>6, <1>7, <1>8

-----------------------------------------------------------------------------
(* What the client's continuation becomes. *)

\* A text is one part, which says it.
LEMMA TextParts ==
  ASSUME NEW b \in Bodies
  PROVE  Text(b) \in Seq(PartSet) /\ Content(Text(b), {"text"}) = b
<1>1. CASE b = <<>>
  <2>1. Text(b) = <<>>
    BY <1>1 DEF Text
  <2>2. Text(b) \in Seq(PartSet)
    BY <2>1, EmptySeq
  <2>3. \A x : x \notin ToSet(Content(Text(b), {"text"})) /\ Content(Text(b), {"text"}) \in Seq(Int)
    <3>1. PICK q : q = Text(b)
      OBVIOUS
    <3>2. DOMAIN q = {} /\ q \in Seq(PartSet)
      BY <2>1, <2>2, <3>1
    <3>3. /\ Content(q, {"text"}) \in Bodies
          /\ \A x : x \in ToSet(Content(q, {"text"})) <=>
               \E j \in DOMAIN q : q[j].type \in {"text"} /\ x \in ToSet(q[j].body)
      BY <3>2, ContentElements
    <3> QED BY <3>1, <3>2, <3>3 DEF Bodies
  <2>4. PICK s : s = Content(Text(b), {"text"})
    OBVIOUS
  <2>5. s \in Seq(Int) /\ \A i \in DOMAIN s : FALSE
    BY <2>3, <2>4 DEF ToSet
  <2>6. s = <<>>
    <3>1. s # <<>> => Len(s) \in Nat \ {0} /\ 1 \in DOMAIN s
      BY <2>5, EmptySeq
    <3> QED BY <2>5, <3>1
  <2> QED BY <1>1, <2>2, <2>4, <2>6
<1>2. CASE b # <<>>
  <2>1. PICK p, s : p = [type |-> "text", body |-> b] /\ s = <<p>>
    OBVIOUS
  <2>2. Text(b) = s /\ p \in PartSet /\ s \in Seq(PartSet)
    <3>1. Text(b) = s
      BY <1>2, <2>1 DEF Text
    <3>2. p \in PartSet
      BY <2>1 DEF PartSet
    <3>3. s \in Seq(PartSet)
      BY <2>1, <3>2
    <3> QED BY <3>1, <3>2, <3>3
  <2>3. PICK ss : ss = [i \in 1 .. 1 |-> b]
    OBVIOUS
  <2>4. ss \in Seq(Seq(Int)) /\ Len(ss) = 1 /\ ss[1] = b
    <3>1. ss \in [1 .. 1 -> Seq(Int)]
      BY <2>3, Zenon DEF Bodies
    <3> QED BY <2>3, <3>1
  <2>5. FlattenSeq(ss) = ss[1]
    <3>1. 1 \in 1 .. Len(ss) /\ \A i \in 1 .. Len(ss) : i # 1 => ss[i] = <<>>
      BY <2>4
    <3> QED BY <2>4, <3>1, FlattenSingle
  <2>6. Content(s, {"text"}) = FlattenSeq(ss)
    <3>1. DOMAIN s = 1 .. 1 /\ \A i \in 1 .. 1 : s[i] = p
      BY <2>1
    <3>2. p.type = "text" /\ p.body = b
      BY <2>1
    <3>3. [i \in DOMAIN s |-> IF s[i].type \in {"text"} THEN s[i].body ELSE <<>>] = ss
      BY <2>3, <3>1, <3>2
    <3> QED BY <3>3 DEF Content
  <2> QED BY <2>2, <2>4, <2>5, <2>6
<1> QED BY <1>1, <1>2

\* The turns of a continuation c: the message m, then the answers to its calls.
Continues(m, n, c) ==
  /\ n = Len(m.calls) /\ n \in Nat /\ DOMAIN m.calls = 1 .. n
  /\ c \in Seq(TurnSet) /\ Len(c) = 1 + n /\ DOMAIN c = 1 .. 1 + n
  /\ c[1] = Turn("assistant", Text(m.text), m.calls, NoCall)
  /\ \A k \in 1 .. n : 1 + k \in 1 .. 1 + n /\ c[1 + k] = Turn("tool", <<>>, <<>>, m.calls[k].id)
  /\ \A i \in 1 .. 1 + n : i = 1 \/ \E k \in 1 .. n : i = 1 + k

Replies(m) == m.text \in Bodies /\ m.calls \in Seq(CallSet)

\* Those are its turns.
LEMMA ContinuationTurns ==
  ASSUME NEW m, Replies(m)
  PROVE  Continues(m, Len(m.calls), Continuation(m))
<1>1. PICK s, n, a, tools, c :
        /\ s = m.calls /\ n = Len(s) /\ a = <<Turn("assistant", Text(m.text), m.calls, NoCall)>>
        /\ tools = [i \in DOMAIN s |-> Turn("tool", <<>>, <<>>, s[i].id)] /\ c = a \o tools
  OBVIOUS
<1>2. s \in Seq(CallSet) /\ n \in Nat /\ DOMAIN s = 1 .. n /\ \A i \in 1 .. n : s[i] \in CallSet
  BY <1>1 DEF Replies
<1>3. CallSet \subseteq CalledSet
  BY DEF CallSet, CalledSet, Ids
<1>4. s \in Seq(CalledSet)
  BY <1>2, <1>3
<1>5. a \in Seq(TurnSet) /\ Len(a) = 1 /\ a[1] = Turn("assistant", Text(m.text), m.calls, NoCall)
  <2>1. Text(m.text) \in Seq(PartSet)
    BY TextParts DEF Replies
  <2>2. Turn("assistant", Text(m.text), m.calls, NoCall) \in TurnSet
    BY <1>1, <1>4, <2>1 DEF Turn, TurnSet, Roles, Ids
  <2> QED BY <1>1, <2>2
<1>6. tools \in Seq(TurnSet) /\ Len(tools) = n /\ \A i \in 1 .. n : tools[i] = Turn("tool", <<>>, <<>>, s[i].id)
  <2>1. ASSUME NEW i \in 1 .. n PROVE Turn("tool", <<>>, <<>>, s[i].id) \in TurnSet
    <3>1. s[i].id \in Ids
      BY <1>2 DEF CallSet, Ids
    <3>2. <<>> \in Seq(PartSet) /\ <<>> \in Seq(CalledSet)
      BY EmptySeq
    <3> QED BY <3>1, <3>2 DEF Turn, TurnSet, Roles
  <2>2. tools = [i \in 1 .. n |-> Turn("tool", <<>>, <<>>, s[i].id)]
    BY <1>1, <1>2
  <2>3. tools \in [1 .. n -> TurnSet]
    BY <2>1, <2>2, Zenon
  <2> QED BY <1>2, <2>2, <2>3
<1>7. Joined(a, 1, tools, n, c) /\ c \in Seq(TurnSet) /\ Len(c) = 1 + n
  <2>1. a \in Seq(TurnSet) /\ tools \in Seq(TurnSet)
    BY <1>5, <1>6
  <2>2. /\ Joined(a, Len(a), tools, Len(tools), a \o tools) /\ a \o tools \in Seq(TurnSet)
        /\ Len(a \o tools) = Len(a) + Len(tools)
    BY <2>1, ConcatPlaces
  <2> QED BY <1>1, <1>5, <1>6, <2>2, Zenon
<1>8. /\ DOMAIN c = 1 .. 1 + n /\ c[1] = a[1]
      /\ \A i \in 1 .. n : 1 + i \in 1 .. 1 + n /\ c[1 + i] = tools[i]
      /\ \A i \in 1 .. 1 + n : i = 1 \/ \E k \in 1 .. n : i = 1 + k
  <2>1. 1 \in 1 .. 1 /\ \A i \in 1 .. 1 : i = 1
    OBVIOUS
  <2> QED BY <1>7, <2>1 DEF Joined
<1>9. c = Continuation(m)
  BY <1>1 DEF Continuation
<1>10. Continues(m, n, c)
  BY <1>1, <1>2, <1>5, <1>6, <1>7, <1>8 DEF Continues
<1> QED BY <1>1, <1>9, <1>10

\* x is an item of the continuation of m.
ItemBack(m, x) ==
  \/ m.text # <<>> /\ x = Event("message", NoCall, m.text)
  \/ \E k \in DOMAIN m.calls : x = Event("item", m.calls[k].id, m.calls[k].arguments)
  \/ \E k \in DOMAIN m.calls : x = Event("output", m.calls[k].id, <<>>)

\* A continuation becomes the message, its calls and the answers, and no instructions.
LEMMA ContinuationItems ==
  ASSUME NEW m, Replies(m)
  PROVE  /\ \A x : x \in ToSet(chat_to_responses(Continuation(m)).input) <=> ItemBack(m, x)
         /\ chat_to_responses(Continuation(m)).instructions = <<>>
<1>1. PICK n, c, a : n = Len(m.calls) /\ c = Continuation(m) /\ a = c[1]
  OBVIOUS
<1>2. Continues(m, n, c)
  BY <1>1, ContinuationTurns
<1>3. /\ n \in Nat /\ DOMAIN m.calls = 1 .. n /\ c \in Seq(TurnSet) /\ Len(c) = 1 + n
      /\ a = Turn("assistant", Text(m.text), m.calls, NoCall)
      /\ \A k \in 1 .. n : 1 + k \in 1 .. 1 + n /\ c[1 + k] = Turn("tool", <<>>, <<>>, m.calls[k].id)
      /\ \A i \in 1 .. 1 + n : i = 1 \/ \E k \in 1 .. n : i = 1 + k
  BY <1>1, <1>2 DEF Continues
<1>4. TextOf(a) = m.text
  BY <1>3, TextParts DEF TextOf, Turn, Replies
<1>5. a.role = "assistant" /\ a.calls = m.calls
  BY <1>3 DEF Turn
<1>6. ASSUME NEW k \in 1 .. n
      PROVE  /\ c[1 + k].role = "tool" /\ c[1 + k].of = m.calls[k].id /\ TextOf(c[1 + k]) = <<>>
  <2>1. c[1 + k].role = "tool" /\ c[1 + k].of = m.calls[k].id /\ c[1 + k].parts = <<>>
    <3>1. PICK d : d = c[1 + k]
      OBVIOUS
    <3>2. d = Turn("tool", <<>>, <<>>, m.calls[k].id)
      BY <1>3, <3>1
    <3>3. d.role = "tool" /\ d.of = m.calls[k].id /\ d.parts = <<>>
      BY <3>2 DEF Turn
    <3> QED BY <3>1, <3>3
  <2>2. Content(<<>>, {"text"}) = <<>>
    <3>1. <<>> \in Bodies /\ Text(<<>>) = <<>>
      BY EmptySeq DEF Bodies, Text
    <3> QED BY <3>1, TextParts
  <2> QED BY <2>1, <2>2 DEF TextOf
<1>7. ASSUME NEW x PROVE x \in ToSet(chat_to_responses(c).input) <=> \E i \in 1 .. 1 + n : ItemOf(c[i], x)
  <2>1. /\ Pieces(c) \in Seq(Seq(InputSet)) /\ Len(Pieces(c)) = 1 + n
        /\ \A i \in 1 .. 1 + n : c[i] \in TurnSet /\ Pieces(c)[i] = InputItems(c[i])
        /\ chat_to_responses(c).input = FlattenSeq(Pieces(c))
    BY <1>3, InputOf
  <2>2. x \in ToSet(FlattenSeq(Pieces(c))) <=> \E i \in 1 .. 1 + n : x \in ToSet(Pieces(c)[i])
    BY <2>1, FlattenElements
  <2>3. \A i \in 1 .. 1 + n : x \in ToSet(Pieces(c)[i]) <=> ItemOf(c[i], x)
    BY <2>1, TurnItems
  <2> QED BY <2>1, <2>2, <2>3
<1>8. ASSUME NEW x PROVE (\E i \in 1 .. 1 + n : ItemOf(c[i], x)) <=> ItemBack(m, x)
  <2>1. ItemOf(a, x) <=> \/ m.text # <<>> /\ x = Event("message", NoCall, m.text)
                         \/ \E k \in DOMAIN m.calls : x = Event("item", m.calls[k].id, m.calls[k].arguments)
    BY <1>4, <1>5 DEF ItemOf
  <2>2. \A k \in 1 .. n : ItemOf(c[1 + k], x) <=> x = Event("output", m.calls[k].id, <<>>)
    BY <1>6 DEF ItemOf
  <2>3. (\E i \in 1 .. 1 + n : ItemOf(c[i], x)) <=> ItemOf(a, x) \/ \E k \in 1 .. n : ItemOf(c[1 + k], x)
    <3>1. 1 \in 1 .. 1 + n
      BY <1>3
    <3>2. (\E i \in 1 .. 1 + n : ItemOf(c[i], x)) => ItemOf(a, x) \/ \E k \in 1 .. n : ItemOf(c[1 + k], x)
      BY <1>1, <1>3, Zenon
    <3>3. ItemOf(a, x) \/ (\E k \in 1 .. n : ItemOf(c[1 + k], x)) => \E i \in 1 .. 1 + n : ItemOf(c[i], x)
      BY <1>1, <1>3, <3>1, Zenon
    <3> QED BY <3>2, <3>3
  <2> QED BY <1>3, <2>1, <2>2, <2>3 DEF ItemBack
<1>9. chat_to_responses(c).instructions = <<>>
  <2>1. /\ Instructed(c) \in Seq(Seq(Int)) /\ Len(Instructed(c)) = 1 + n
        /\ \A i \in 1 .. 1 + n : Instructed(c)[i] = IF c[i].role \in Instructing THEN TextOf(c[i]) ELSE <<>>
        /\ chat_to_responses(c).instructions = FlattenSeq(Instructed(c))
    BY <1>3, InstructionsOf
  <2>2. \A i \in 1 .. 1 + n : c[i].role \notin Instructing
    <3>1. "assistant" \notin Instructing /\ "tool" \notin Instructing
      BY DEF Instructing
    <3>2. \A i \in 1 .. 1 + n : c[i].role = "assistant" \/ c[i].role = "tool"
      <4> TAKE i \in 1 .. 1 + n
      <4>1. CASE i = 1
        BY <1>1, <1>5, <4>1
      <4>2. CASE i # 1
        <5>1. PICK k \in 1 .. n : i = 1 + k
          BY <1>3, <4>2
        <5> QED BY <1>6, <5>1
      <4> QED BY <4>1, <4>2
    <3> QED BY <3>1, <3>2
  <2>3. \A i \in 1 .. 1 + n : Instructed(c)[i] = <<>>
    BY <2>1, <2>2
  <2>4. FlattenSeq(Instructed(c)) = <<>>
    BY <2>1, <2>3, FlattenNothing
  <2> QED BY <2>1, <2>4
<1> QED BY <1>1, <1>7, <1>8, <1>9

-----------------------------------------------------------------------------
(* What is known of a conversation so far. *)

CalledBefore(turns, i) ==
  \E j \in DOMAIN turns : /\ j < i /\ turns[j].role = "assistant"
                          /\ \E k \in DOMAIN turns[j].calls : turns[j].calls[k].id = turns[i].of
Answered(turns) == \A i \in DOMAIN turns : turns[i].role = "tool" => CalledBefore(turns, i)

\* The conversations are turns, and answered.
LEMMA HistoryKnown ==
  ASSUME NEW h \in Histories
  PROVE  h \in Seq(TurnSet) /\ Answered(h)
<1> DEFINE P == [type : {"text", "image", "audio"}, body : Seq(Nat)]
           C == [id : STRING, arguments : Seq(Nat)]
           T == [role : {"system", "developer", "user", "assistant", "tool"}, parts : Seq(P), calls : Seq(C),
                 of : {NoCall} \cup STRING]
<1>1. h \in Seq(T)
  BY HistoryAssumption, Zenon
<1>2. Seq(Nat) \subseteq Bodies
  BY DEF Bodies
<1>3. P \subseteq PartSet
  BY <1>2 DEF PartSet
<1>4. C \subseteq CalledSet
  BY <1>2 DEF CalledSet, Ids
<1> HIDE DEF P, C
<1>5. Seq(P) \subseteq Seq(PartSet) /\ Seq(C) \subseteq Seq(CalledSet)
  BY <1>3, <1>4
<1>6. T \subseteq TurnSet
  BY <1>5 DEF TurnSet, Roles, Ids
<1> HIDE DEF T
<1>7. h \in Seq(TurnSet)
  BY <1>1, <1>6
<1>8. Answered(h)
  BY HistoryAssumption, Zenon DEF Answered, CalledBefore
<1> QED BY <1>7, <1>8

\* A continuation answers its own calls.
LEMMA AnsweredOn ==
  ASSUME NEW g \in Seq(TurnSet), Answered(g), NEW m, NEW n, NEW c, Continues(m, n, c)
  PROVE  Answered(g \o c)
<1>1. PICK p, q, d : p = Len(g) /\ q = Len(c) /\ d = g \o c
  OBVIOUS
<1>2. /\ n \in Nat /\ DOMAIN m.calls = 1 .. n /\ c \in Seq(TurnSet) /\ q = 1 + n
      /\ c[1] = Turn("assistant", Text(m.text), m.calls, NoCall)
      /\ \A k \in 1 .. n : 1 + k \in 1 .. 1 + n /\ c[1 + k] = Turn("tool", <<>>, <<>>, m.calls[k].id)
      /\ \A i \in 1 .. 1 + n : i = 1 \/ \E k \in 1 .. n : i = 1 + k
  BY <1>1 DEF Continues
<1>3. Joined(g, p, c, q, d)
  BY <1>1, <1>2, ConcatPlaces
<1>4. /\ p \in Nat /\ q \in Nat /\ DOMAIN g = 1 .. p /\ DOMAIN d = 1 .. p + q
      /\ \A i \in 1 .. p : i \in 1 .. p + q /\ d[i] = g[i]
      /\ \A i \in 1 .. q : p + i \in 1 .. p + q /\ d[p + i] = c[i]
      /\ \A i \in 1 .. p + q : i \in 1 .. p \/ \E j \in 1 .. q : i = p + j
  BY <1>3 DEF Joined
<1>5. ASSUME NEW i \in 1 .. p + q, d[i].role = "tool"
      PROVE  CalledBefore(d, i)
  <2>1. CASE i \in 1 .. p
    <3>1. g[i].role = "tool" /\ d[i] = g[i]
      BY <1>4, <1>5, <2>1
    <3>2. PICK j \in 1 .. p : /\ j < i /\ g[j].role = "assistant"
                              /\ \E k \in DOMAIN g[j].calls : g[j].calls[k].id = g[i].of
      <4>1. CalledBefore(g, i)
        BY <1>4, <2>1, <3>1 DEF Answered
      <4> QED BY <1>4, <4>1 DEF CalledBefore
    <3>3. j \in DOMAIN d /\ d[j] = g[j]
      BY <1>4
    <3> QED BY <3>1, <3>2, <3>3 DEF CalledBefore
  <2>2. CASE ~(i \in 1 .. p)
    <3>1. PICK l \in 1 .. q : i = p + l
      BY <1>4, <2>2
    <3>2. d[i] = c[l] /\ c[l].role = "tool"
      BY <1>4, <1>5, <3>1
    <3>3. c[1].role = "assistant" /\ c[1].calls = m.calls
      BY <1>2 DEF Turn
    <3>4. l # 1
      BY <3>2, <3>3
    <3>5. PICK k \in 1 .. n : l = 1 + k
      BY <1>2, <3>4
    <3>6. c[l].of = m.calls[k].id
      <4>1. c[1 + k] = Turn("tool", <<>>, <<>>, m.calls[k].id)
        BY <1>2
      <4> QED BY <3>5, <4>1 DEF Turn
    <3>7. p + 1 \in 1 .. p + q /\ d[p + 1] = c[1] /\ p + 1 < i
      <4>1. 1 \in 1 .. q /\ 1 < l
        BY <1>2, <3>4
      <4> QED BY <1>4, <3>1, <4>1
    <3>8. d[p + 1].role = "assistant" /\ d[p + 1].calls = m.calls
      BY <3>3, <3>7
    <3>9. k \in DOMAIN d[p + 1].calls /\ d[p + 1].calls[k].id = d[i].of
      BY <1>2, <3>2, <3>6, <3>8
    <3>10. p + 1 \in DOMAIN d
      BY <1>4, <3>7
    <3> QED BY <3>7, <3>8, <3>9, <3>10 DEF CalledBefore
  <2> QED BY <2>1, <2>2
<1>6. Answered(d)
  <2>1. DOMAIN d = 1 .. p + q
    BY <1>4
  <2> QED BY <1>5, <2>1 DEF Answered
<1> QED BY <1>1, <1>6

\* Every answer in the input has its call before it.
LEMMA AnswersBehind ==
  ASSUME NEW turns \in Seq(TurnSet), Answered(turns), NEW input, input = chat_to_responses(turns).input
  PROVE  \A i \in DOMAIN input : input[i].kind = "output" =>
           \E j \in DOMAIN input : j < i /\ input[j].kind = "item" /\ input[j].call = input[i].call
<1>1. PICK n, ss : n = Len(turns) /\ ss = Pieces(turns)
  OBVIOUS
<1>2. /\ ss \in Seq(Seq(InputSet)) /\ Len(ss) = n /\ DOMAIN turns = 1 .. n
      /\ \A i \in 1 .. n : turns[i] \in TurnSet /\ ss[i] = InputItems(turns[i])
      /\ input = FlattenSeq(ss)
  BY <1>1, InputOf
<1>3. PICK Q, R : /\ Q = {x \in InputSet : x.kind = "output"}
                  /\ R = {xy \in InputSet \X InputSet : xy[2].kind = "item" /\ xy[2].call = xy[1].call}
  OBVIOUS
<1>4. \A x, y \in InputSet : <<x, y>> \in R <=> y.kind = "item" /\ y.call = x.call
  BY <1>3
<1>5. \A i \in 1 .. n : \A x : x \in ToSet(ss[i]) <=> ItemOf(turns[i], x)
  BY <1>2, TurnItems
<1>6. \A i \in 1 .. n : ToSet(ss[i]) \subseteq InputSet
  <2> TAKE i \in 1 .. n
  <2>1. ss[i] \in Seq(InputSet)
    BY <1>2
  <2> QED BY <2>1 DEF ToSet
<1>7. ASSUME NEW i \in 1 .. n, NEW x \in ToSet(ss[i]), x \in Q
      PROVE  \E j \in 1 .. n : j < i /\ \E y \in ToSet(ss[j]) : <<x, y>> \in R
  <2>1. ItemOf(turns[i], x) /\ x.kind = "output" /\ x \in InputSet
    BY <1>3, <1>5, <1>7
  <2>2. turns[i].role = "tool" /\ x.call = turns[i].of
    BY <2>1 DEF ItemOf, Event
  <2>3. PICK j \in 1 .. n : /\ j < i /\ turns[j].role = "assistant"
                            /\ \E k \in DOMAIN turns[j].calls : turns[j].calls[k].id = turns[i].of
    <3>1. CalledBefore(turns, i)
      BY <1>2, <2>2 DEF Answered
    <3> QED BY <1>2, <3>1 DEF CalledBefore
  <2>4. PICK k \in DOMAIN turns[j].calls : turns[j].calls[k].id = turns[i].of
    BY <2>3
  <2>5. PICK y : y = Event("item", turns[j].calls[k].id, turns[j].calls[k].arguments)
    OBVIOUS
  <2>6. y.kind = "item" /\ y.call = x.call
    BY <2>2, <2>4, <2>5 DEF Event
  <2>7. y \in ToSet(ss[j])
    <3>1. ItemOf(turns[j], y)
      BY <2>3, <2>5 DEF ItemOf
    <3> QED BY <1>5, <3>1
  <2>8. <<x, y>> \in R
    BY <1>4, <1>6, <2>1, <2>6, <2>7
  <2> QED BY <2>3, <2>7, <2>8
<1>8. \A i \in DOMAIN input : input[i] \in Q =>
        \E j \in DOMAIN input : j < i /\ <<input[i], input[j]>> \in R
  <2>1. \A i \in 1 .. Len(ss) : \A x \in ToSet(ss[i]) : x \in Q =>
          \E j \in 1 .. Len(ss) : j < i /\ \E y \in ToSet(ss[j]) : <<x, y>> \in R
    BY <1>2, <1>7
  <2>2. \A i \in DOMAIN FlattenSeq(ss) : FlattenSeq(ss)[i] \in Q =>
          \E j \in DOMAIN FlattenSeq(ss) : j < i /\ <<FlattenSeq(ss)[i], FlattenSeq(ss)[j]>> \in R
    BY <1>2, <2>1, FlattenBehind
  <2> QED BY <1>2, <2>2
<1>9. input \in Seq(InputSet)
  BY InputOf
<1>10. \A i \in DOMAIN input : input[i] \in InputSet
  BY <1>9
<1>11. ASSUME NEW i \in DOMAIN input, input[i].kind = "output"
       PROVE  \E j \in DOMAIN input : j < i /\ input[j].kind = "item" /\ input[j].call = input[i].call
  <2>1. input[i] \in Q
    BY <1>3, <1>10, <1>11
  <2>2. PICK j \in DOMAIN input : j < i /\ <<input[i], input[j]>> \in R
    BY <1>8, <2>1
  <2> QED BY <1>4, <1>10, <2>2
<1> QED BY <1>11

-----------------------------------------------------------------------------
(* What a conversation says. *)

\* What a turn says, if it is of these roles.
Says(turn, roles) ==
  IF turn.role \notin roles THEN <<>>
  ELSE Content(turn.parts, IF turn.role = "user" THEN {"text", "image"} ELSE {"text"})
         \o (IF turn.role # "assistant" THEN <<>>
             ELSE FlattenSeq([k \in DOMAIN turn.calls |-> turn.calls[k].arguments]))

\* What the items say.
Told(items) == FlattenSeq([i \in DOMAIN items |-> items[i].body])

\* Items one behind the other say what each of them says.
LEMMA ToldConcat ==
  ASSUME NEW a \in Seq(InputSet), NEW b \in Seq(InputSet)
  PROVE  Told(a) \in Bodies /\ Told(b) \in Bodies /\ Told(a \o b) = Told(a) \o Told(b)
<1> DEFINE bodies(s) == [i \in DOMAIN s |-> s[i].body]
<1>1. \A s \in Seq(InputSet) : bodies(s) \in Seq(Seq(Int)) /\ Len(bodies(s)) = Len(s) /\ \A i \in 1 .. Len(s) : bodies(s)[i] = s[i].body
  <2> TAKE s \in Seq(InputSet)
  <2>1. PICK n, bs : n = Len(s) /\ bs = bodies(s)
    OBVIOUS
  <2>2. n \in Nat /\ DOMAIN s = 1 .. n /\ \A i \in 1 .. n : s[i] \in InputSet
    BY <2>1
  <2>3. \A e \in InputSet : e.body \in Seq(Int)
    BY DEF InputSet, Bodies
  <2>4. bs = [i \in 1 .. n |-> s[i].body]
    BY <2>1, <2>2
  <2>5. bs \in [1 .. n -> Seq(Int)]
    BY <2>2, <2>3, <2>4, Zenon
  <2>6. bs \in Seq(Seq(Int)) /\ Len(bs) = n
    BY <2>2, <2>5
  <2>7. \A i \in 1 .. n : bs[i] = s[i].body
    BY <2>4, Zenon
  <2> QED BY <2>1, <2>6, <2>7
<1>2. \A s : Told(s) = FlattenSeq(bodies(s))
  BY DEF Told
<1> HIDE DEF bodies
<1>3. PICK p, q, c : p = Len(a) /\ q = Len(b) /\ c = a \o b
  OBVIOUS
<1>4. Joined(a, p, b, q, c) /\ c \in Seq(InputSet) /\ Len(c) = p + q
  BY <1>3, ConcatPlaces
<1>5. PICK x, y, z, u : x = bodies(a) /\ y = bodies(b) /\ z = bodies(c) /\ u = x \o y
  OBVIOUS
<1>6. /\ x \in Seq(Seq(Int)) /\ Len(x) = p /\ \A i \in 1 .. p : x[i] = a[i].body
      /\ y \in Seq(Seq(Int)) /\ Len(y) = q /\ \A i \in 1 .. q : y[i] = b[i].body
      /\ z \in Seq(Seq(Int)) /\ Len(z) = p + q /\ \A i \in 1 .. p + q : z[i] = c[i].body
  BY <1>1, <1>3, <1>4, <1>5
<1>7. Joined(x, p, y, q, u) /\ u \in Seq(Seq(Int)) /\ Len(u) = p + q
  BY <1>5, <1>6, ConcatPlaces
<1>8. /\ p \in Nat /\ q \in Nat
      /\ \A i \in 1 .. p : i \in 1 .. p + q /\ c[i] = a[i] /\ u[i] = x[i]
      /\ \A i \in 1 .. q : p + i \in 1 .. p + q /\ c[p + i] = b[i] /\ u[p + i] = y[i]
      /\ \A i \in 1 .. p + q : i \in 1 .. p \/ \E j \in 1 .. q : i = p + j
  BY <1>4, <1>7 DEF Joined
<1>9. ASSUME NEW i \in 1 .. p + q PROVE z[i] = u[i]
  <2>0. z[i] = c[i].body
    BY <1>6
  <2>1. CASE i \in 1 .. p
    <3>1. c[i] = a[i] /\ u[i] = x[i]
      BY <1>8, <2>1
    <3>2. x[i] = a[i].body
      BY <1>6, <2>1
    <3> QED BY <2>0, <3>1, <3>2, Zenon
  <2>2. CASE ~(i \in 1 .. p)
    <3>1. PICK j \in 1 .. q : i = p + j
      BY <1>8, <2>2
    <3>2. c[i] = b[j] /\ u[i] = y[j]
      BY <1>8, <3>1
    <3>3. y[j] = b[j].body
      BY <1>6
    <3> QED BY <2>0, <3>2, <3>3, Zenon
  <2> QED BY <2>1, <2>2
<1>10. z = u
  BY <1>6, <1>7, <1>9, SeqEqual
<1>11. FlattenSeq(x \o y) = FlattenSeq(x) \o FlattenSeq(y) /\ FlattenSeq(x) \in Seq(Int) /\ FlattenSeq(y) \in Seq(Int)
  BY <1>6, FlattenConcat
<1>12. Told(a) = FlattenSeq(x) /\ Told(b) = FlattenSeq(y) /\ Told(c) = FlattenSeq(z)
  BY <1>2, <1>5
<1> QED BY <1>3, <1>5, <1>10, <1>11, <1>12 DEF Bodies

\* Nothing says nothing.
LEMMA ToldNothing == Told(<<>>) = <<>>
<1>1. PICK s : s = <<>>
  OBVIOUS
<1>2. DOMAIN s = {} /\ s \in Seq(Seq(Int)) /\ Len(s) = 0
  BY <1>1, EmptySeq
<1>3. [i \in DOMAIN s |-> s[i].body] = s
  BY <1>1, <1>2
<1>4. FlattenSeq(s) = <<>>
  <2>1. \A i \in 1 .. Len(s) : s[i] = <<>>
    BY <1>2
  <2> QED BY <1>2, <2>1, FlattenNothing
<1> QED BY <1>1, <1>3, <1>4 DEF Told

\* Items that come in pieces say what the pieces say.
LEMMA ToldPieces ==
  ASSUME NEW ss \in Seq(Seq(InputSet)), NEW tt \in Seq(Seq(Int)), Len(tt) = Len(ss),
         \A i \in 1 .. Len(ss) : tt[i] = Told(ss[i])
  PROVE  Told(FlattenSeq(ss)) = FlattenSeq(tt)
<1>1. PICK n : n = Len(ss)
  OBVIOUS
<1>2. n \in Nat /\ \A k \in 1 .. n : ss[k] \in Seq(InputSet)
  BY <1>1
<1>3. PICK sums : Sums(InputSet, ss, sums)
  BY SumsExist
<1>4. sums \in [0 .. n -> Seq(InputSet)] /\ sums[0] = <<>> /\ \A k \in 1 .. n : sums[k] = sums[k - 1] \o ss[k]
  BY <1>1, <1>3 DEF Sums
<1>5. PICK told : told = [k \in 0 .. n |-> Told(sums[k])]
  OBVIOUS
<1>6. told \in [0 .. n -> Seq(Int)]
  <2>1. \A k \in 0 .. n : Told(sums[k]) \in Seq(Int)
    <3> TAKE k \in 0 .. n
    <3>1. sums[k] \in Seq(InputSet)
      BY <1>4
    <3> QED BY <3>1, ToldConcat DEF Bodies
  <2> QED BY <1>5, <2>1, Zenon
<1>7. told[0] = <<>> /\ n \in 0 .. n
  <2>1. 0 \in 0 .. n
    BY <1>2
  <2> QED BY <1>2, <1>4, <1>5, <2>1, ToldNothing
<1>8. ASSUME NEW k \in 1 .. n PROVE told[k] = told[k - 1] \o tt[k]
  <2>1. k \in 0 .. n /\ k - 1 \in 0 .. n
    BY <1>2
  <2>2. sums[k - 1] \in Seq(InputSet) /\ ss[k] \in Seq(InputSet) /\ sums[k] = sums[k - 1] \o ss[k]
    BY <1>2, <1>4, <2>1
  <2>3. PICK a, b : a = sums[k - 1] /\ b = ss[k]
    OBVIOUS
  <2>4. Told(a \o b) = Told(a) \o Told(b)
    BY <2>2, <2>3, ToldConcat
  <2>5. told[k] = Told(sums[k]) /\ told[k - 1] = Told(sums[k - 1])
    BY <1>5, <2>1
  <2>6. tt[k] = Told(ss[k])
    BY <1>1
  <2> QED BY <2>2, <2>3, <2>4, <2>5, <2>6, Zenon
<1>9. Sums(Int, tt, told)
  BY <1>1, <1>6, <1>7, <1>8 DEF Sums
<1>10. FlattenSeq(tt) = told[n]
  BY <1>1, <1>9, SumsFlatten
<1>11. FlattenSeq(ss) = sums[n]
  BY <1>1, <1>3, SumsFlatten
<1> QED BY <1>5, <1>7, <1>10, <1>11

\* One item says its body.
LEMMA ToldOne == ASSUME NEW e \in InputSet PROVE Told(<<e>>) = e.body /\ <<e>> \in Seq(InputSet)
<1>1. PICK s, ss : s = <<e>> /\ ss = [i \in 1 .. 1 |-> e.body]
  OBVIOUS
<1>2. e.body \in Seq(Int)
  BY DEF InputSet, Bodies
<1>3. ss \in Seq(Seq(Int)) /\ Len(ss) = 1 /\ ss[1] = e.body
  <2>1. ss \in [1 .. 1 -> Seq(Int)]
    BY <1>1, <1>2, Zenon
  <2> QED BY <1>1, <2>1
<1>4. [i \in DOMAIN s |-> s[i].body] = ss
  <2>1. DOMAIN s = 1 .. 1 /\ \A i \in 1 .. 1 : s[i] = e
    BY <1>1
  <2> QED BY <1>1, <2>1
<1>5. FlattenSeq(ss) = ss[1]
  <2>1. 1 \in 1 .. Len(ss) /\ \A i \in 1 .. Len(ss) : i # 1 => ss[i] = <<>>
    BY <1>3
  <2> QED BY <1>3, <2>1, FlattenSingle
<1> QED BY <1>1, <1>3, <1>4, <1>5 DEF Told

Speaking == {"user", "assistant", "tool"}

\* The items of a turn say what it says, unless it instructs.
LEMMA TurnTold ==
  ASSUME NEW t \in TurnSet
  PROVE  Says(t, Speaking) = Told(InputItems(t)) /\ Told(InputItems(t)) \in Bodies
<1>1. TextOf(t) \in Bodies /\ Content(t.parts, {"text", "image"}) \in Bodies
  BY ContentElements DEF TextOf, TurnSet
<1>2. NoCall \in Ids /\ t.of \in Ids /\ t.role \in Roles
  BY DEF Ids, TurnSet
<1>3. \A s \in Bodies : s \o <<>> = s
  BY ConcatEmptySeq DEF Bodies
<1>4. Told(InputItems(t)) \in Bodies
  <2>1. InputItems(t) \in Seq(InputSet)
    BY TurnItems
  <2> QED BY <2>1, ToldConcat
<1>5. CASE t.role \in Instructing
  <2>1. InputItems(t) = <<>> /\ Says(t, Speaking) = <<>>
    BY <1>5 DEF InputItems, Instructing, Says, Speaking
  <2> QED BY <1>4, <2>1, ToldNothing
<1>6. CASE t.role = "tool"
  <2>1. PICK e : e = Event("output", t.of, TextOf(t))
    OBVIOUS
  <2>2. e \in InputSet /\ e.body = TextOf(t)
    BY <1>1, <1>2, <2>1 DEF Event, InputSet
  <2>3. InputItems(t) = <<e>>
    BY <1>6, <2>1 DEF InputItems, Instructing
  <2>4. Says(t, Speaking) = TextOf(t) \o <<>>
    BY <1>6 DEF Says, Speaking, TextOf
  <2> QED BY <1>1, <1>3, <1>4, <2>2, <2>3, <2>4, ToldOne
<1>7. CASE t.role = "user"
  <2>1. PICK e : e = Event("user", NoCall, Content(t.parts, {"text", "image"}))
    OBVIOUS
  <2>2. e \in InputSet /\ e.body = Content(t.parts, {"text", "image"})
    BY <1>1, <1>2, <2>1 DEF Event, InputSet
  <2>3. InputItems(t) = <<e>>
    BY <1>7, <2>1 DEF InputItems, Instructing
  <2>4. Says(t, Speaking) = Content(t.parts, {"text", "image"}) \o <<>>
    BY <1>7 DEF Says, Speaking
  <2> QED BY <1>1, <1>3, <1>4, <2>2, <2>3, <2>4, ToldOne
<1>8. CASE t.role = "assistant"
  <2>1. PICK e, a, b : /\ e = Event("message", NoCall, TextOf(t))
                       /\ a = (IF TextOf(t) # <<>> THEN <<e>> ELSE <<>>) /\ b = CallItems(t.calls)
    OBVIOUS
  <2>2. e \in InputSet /\ e.body = TextOf(t)
    BY <1>1, <1>2, <2>1 DEF Event, InputSet
  <2>3. a \in Seq(InputSet) /\ Told(a) = TextOf(t)
    <3>1. CASE TextOf(t) # <<>>
      BY <2>1, <2>2, <3>1, ToldOne
    <3>2. CASE TextOf(t) = <<>>
      BY <2>1, <3>2, ToldNothing, EmptySeq
    <3> QED BY <3>1, <3>2
  <2>4. b \in Seq(InputSet)
    BY <2>1, CallItemsOf
  <2>5. Told(b) = FlattenSeq([k \in DOMAIN t.calls |-> t.calls[k].arguments])
    <3>1. PICK s : s = t.calls
      OBVIOUS
    <3>2. DOMAIN b = DOMAIN s /\ \A k \in DOMAIN s : b[k].body = s[k].arguments
      BY <2>1, <3>1 DEF CallItems, Event
    <3>3. [k \in DOMAIN b |-> b[k].body] = [k \in DOMAIN s |-> s[k].arguments]
      BY <3>2
    <3> QED BY <3>1, <3>3 DEF Told
  <2>6. InputItems(t) = a \o b
    BY <1>8, <2>1 DEF InputItems, Instructing
  <2>7. Told(a \o b) = Told(a) \o Told(b)
    BY <2>3, <2>4, ToldConcat
  <2>8. Says(t, Speaking) = TextOf(t) \o FlattenSeq([k \in DOMAIN t.calls |-> t.calls[k].arguments])
    BY <1>8 DEF Says, Speaking, TextOf
  <2> QED BY <1>4, <2>3, <2>5, <2>6, <2>7, <2>8
<1> QED BY <1>2, <1>5, <1>6, <1>7, <1>8 DEF Roles, Instructing

\* The input says in order what was said, and so do the instructions.
LEMMA SaidInOrder ==
  ASSUME NEW turns \in Seq(TurnSet)
  PROVE  /\ Told(chat_to_responses(turns).input) = Said(turns, Speaking)
         /\ chat_to_responses(turns).instructions = Said(turns, Instructing)
<1>1. PICK n, ss : n = Len(turns) /\ ss = Pieces(turns)
  OBVIOUS
<1>2. /\ ss \in Seq(Seq(InputSet)) /\ Len(ss) = n /\ DOMAIN turns = 1 .. n /\ n \in Nat
      /\ \A i \in 1 .. n : turns[i] \in TurnSet /\ ss[i] = InputItems(turns[i])
      /\ chat_to_responses(turns).input = FlattenSeq(ss)
  BY <1>1, InputOf
<1>3. \A roles : Said(turns, roles) = FlattenSeq([i \in 1 .. n |-> Says(turns[i], roles)])
  BY <1>2 DEF Said, Says
<1>4. Told(FlattenSeq(ss)) = Said(turns, Speaking)
  <2>1. PICK tt : tt = [i \in 1 .. n |-> Says(turns[i], Speaking)]
    OBVIOUS
  <2>2. \A i \in 1 .. n : Says(turns[i], Speaking) = Told(ss[i]) /\ Says(turns[i], Speaking) \in Seq(Int)
    BY <1>2, TurnTold DEF Bodies
  <2>3. tt \in [1 .. n -> Seq(Int)]
    BY <2>1, <2>2, Zenon
  <2>4. tt \in Seq(Seq(Int)) /\ Len(tt) = n /\ \A i \in 1 .. n : tt[i] = Told(ss[i])
    BY <1>2, <2>1, <2>2, <2>3
  <2>5. Told(FlattenSeq(ss)) = FlattenSeq(tt)
    BY <1>2, <2>4, ToldPieces
  <2> QED BY <1>3, <2>1, <2>5
<1>5. chat_to_responses(turns).instructions = Said(turns, Instructing)
  <2>1. ASSUME NEW t \in TurnSet
        PROVE  (IF t.role \in Instructing THEN TextOf(t) ELSE <<>>) = Says(t, Instructing)
    <3>1. TextOf(t) \in Seq(Int)
      BY ContentElements DEF TextOf, TurnSet, Bodies
    <3>2. TextOf(t) \o <<>> = TextOf(t)
      BY <3>1, ConcatEmptySeq
    <3>3. CASE t.role \in Instructing
      <4>1. t.role # "user" /\ t.role # "assistant"
        BY <3>3 DEF Instructing
      <4>2. Says(t, Instructing) = TextOf(t) \o <<>>
        BY <3>3, <4>1 DEF Says, TextOf
      <4> QED BY <3>2, <3>3, <4>2
    <3>4. CASE t.role \notin Instructing
      BY <3>4 DEF Says
    <3> QED BY <3>3, <3>4
  <2>2. \A i \in 1 .. n : (IF turns[i].role \in Instructing THEN TextOf(turns[i]) ELSE <<>>) = Says(turns[i], Instructing)
    BY <1>2, <2>1
  <2>3. Instructed(turns) = [i \in 1 .. n |-> Says(turns[i], Instructing)]
    BY <1>2, <2>2 DEF Instructed
  <2>4. chat_to_responses(turns).instructions = FlattenSeq(Instructed(turns))
    BY InstructionsOf
  <2> QED BY <1>3, <2>3, <2>4
<1> QED BY <1>2, <1>4, <1>5

-----------------------------------------------------------------------------
(* The reply. *)

Failed(m) == m = Failure("none") \/ m = Failure("502") \/ m = Failure("error")

ReplyInv ==
  /\ streaming \in BOOLEAN
  /\ streaming = TRUE => reply = Failure("none")
  /\ streaming = FALSE => /\ sse = <<>>
                          /\ Failed(reply) \/ (upstream # "open" /\ reply = Aggregated(Whole))

\* What is sent after the connection has ended: nothing.
LEMMA ReplyKeeps == ReplyInv /\ [ChatNext]_chatVars => ReplyInv'
<1> SUFFICES ASSUME ReplyInv, [ChatNext]_chatVars PROVE ReplyInv'
  OBVIOUS
<1>1. CASE UNCHANGED chatVars
  <2>1. UNCHANGED <<streaming, reply, sse, upstream>> /\ Whole' = Whole
    BY <1>1 DEF chatVars, sender, Whole, Frames, Halves
  <2> QED BY <2>1 DEF ReplyInv, Failed, Failure, Message, Aggregated, Reason, DoneText, DoneCall
<1>2. CASE Upstream
  <2>1. UNCHANGED <<streaming, reply, sse>> /\ upstream = "open"
    BY <1>2 DEF Upstream, SendText, SendAdded, SendArgs, SendItem, SendTerminal, Send, Close
  <2>2. Failed(reply) \/ streaming = TRUE
    BY <2>1 DEF ReplyInv
  <2> QED BY <2>1, <2>2 DEF ReplyInv, Failed, Failure, Message
<1>3. CASE Read \/ StreamEnd
  <2>1. streaming = TRUE /\ UNCHANGED <<streaming, reply>>
    BY <1>3 DEF Read, StreamEnd, sender, ReplyInv
  <2> QED BY <2>1 DEF ReplyInv, Failure, Message
<1>4. CASE Reply
  <2>1. streaming = FALSE /\ UNCHANGED <<streaming, sse, upstream>> /\ Whole' = Whole /\ upstream # "open"
    BY <1>4 DEF Reply, sender, ReplyInv, Whole, Frames, Halves
  <2>2. reply' = Failure("502") \/ reply' = Failure("error") \/ reply' = Aggregated(Whole)
    BY <1>4 DEF Reply
  <2>3. Aggregated(Whole)' = Aggregated(Whole)
    BY <2>1 DEF Aggregated, Reason, DoneText, DoneCall, Message
  <2> QED BY <2>1, <2>2, <2>3 DEF ReplyInv, Failed, Failure, Message
<1> QED BY <1>1, <1>2, <1>3, <1>4 DEF ChatNext

-----------------------------------------------------------------------------
(* What comes back. *)

\* What the events of a kind about a call say.
LEMMA BodyElements ==
  ASSUME NEW w \in Seq(Events), NEW kind, NEW c
  PROVE  /\ BodyOf(w, kind, c) \in Bodies
         /\ \A x : x \in ToSet(BodyOf(w, kind, c)) <=>
              \E i \in DOMAIN w : w[i].kind = kind /\ w[i].call = c /\ x \in ToSet(w[i].body)
<1>1. PICK n : n = Len(w)
  OBVIOUS
<1>2. n \in Nat /\ DOMAIN w = 1 .. n /\ \A i \in 1 .. n : w[i] \in Events
  BY <1>1
<1> DEFINE part(d) == IF d.kind = kind /\ d.call = c THEN d.body ELSE <<>>
<1>3. PICK ss : ss = [i \in 1 .. n |-> part(w[i])]
  OBVIOUS
<1>4. \A d \in Events : part(d) \in Seq(Int)
  BY DEF Events, Bodies
<1>5. BodyOf(w, kind, c) = FlattenSeq(ss)
  BY <1>2, <1>3, Zenon DEF BodyOf
<1>6. ASSUME NEW i \in 1 .. n, NEW x
      PROVE  x \in ToSet(part(w[i])) <=> w[i].kind = kind /\ w[i].call = c /\ x \in ToSet(w[i].body)
  <2>1. x \notin ToSet(<<>>)
    BY DEF ToSet
  <2>2. CASE w[i].kind = kind /\ w[i].call = c
    BY <2>2
  <2>3. CASE ~(w[i].kind = kind /\ w[i].call = c)
    BY <2>1, <2>3
  <2> QED BY <2>2, <2>3
<1> HIDE DEF part
<1>7. ss \in Seq(Seq(Int)) /\ Len(ss) = n /\ \A i \in 1 .. n : ss[i] = part(w[i])
  <2>1. ss \in [1 .. n -> Seq(Int)]
    BY <1>2, <1>3, <1>4, Zenon
  <2> QED BY <1>2, <1>3, <2>1
<1>8. FlattenSeq(ss) \in Seq(Int)
  <2>1. PICK sums : Sums(Int, ss, sums)
    BY <1>7, SumsExist
  <2> QED BY <1>7, <2>1, SumsFlatten
<1>9. ASSUME NEW x
      PROVE  x \in ToSet(FlattenSeq(ss)) <=>
               \E i \in DOMAIN w : w[i].kind = kind /\ w[i].call = c /\ x \in ToSet(w[i].body)
  <2>1. x \in ToSet(FlattenSeq(ss)) <=> \E i \in 1 .. n : x \in ToSet(ss[i])
    BY <1>7, FlattenElements
  <2> QED BY <1>2, <1>6, <1>7, <2>1
<1> QED BY <1>5, <1>8, <1>9 DEF Bodies

\* m is the message that the events w make, characters of the deltas sp replaced.
Gives(w, sp, m) ==
  /\ Replies(m) /\ m.text = Put(sp, BodyOf(w, "item", NoCall))
  /\ \A x : x \in ToSet(m.calls) <=>
       \E i \in DOMAIN w : DoneCall(w[i]) /\ x = [id |-> w[i].call, arguments |-> Put(sp, w[i].body)]

\* The aggregate is, with none replaced.
LEMMA AggregatedGives == ASSUME NEW w \in Seq(Events) PROVE Gives(w, {}, Aggregated(w))
<1>1. Aggregated(w).text = BodyOf(w, "item", NoCall)
  BY Zenon DEF Aggregated, Message, BodyOf, DoneText
<1>2. BodyOf(w, "item", NoCall) \in Bodies
  BY BodyElements
<1>3. \A b \in Bodies : Put({}, b) = b
  BY DEF Put, Bodies
<1>4. \A i \in DOMAIN w : Put({}, w[i].body) = w[i].body
  <2>1. \A i \in DOMAIN w : w[i] \in Events
    OBVIOUS
  <2> QED BY <1>3, <2>1 DEF Events
<1>5. Replies(Aggregated(w))
  BY <1>1, <1>2, AggregatedCalls DEF Replies
<1>6. \A x : x \in ToSet(Aggregated(w).calls) <=>
        \E i \in DOMAIN w : DoneCall(w[i]) /\ x = [id |-> w[i].call, arguments |-> w[i].body]
  BY AggregatedCalls
<1>7. \A x : x \in ToSet(Aggregated(w).calls) <=>
        \E i \in DOMAIN w : DoneCall(w[i]) /\ x = [id |-> w[i].call, arguments |-> Put({}, w[i].body)]
  BY <1>4, <1>6, Zenon
<1> QED BY <1>1, <1>2, <1>3, <1>5, <1>7 DEF Gives

\* What a streaming client assembles is, with those a chunk boundary cut.
LEMMA StreamGives ==
  ASSUME ChatInv, StreamingAgrees, Over, Completed
  PROVE  Gives(Whole, split, Assembled(sse))
<1>1. PICK w, sp, m, a : w = Whole /\ sp = split /\ m = Assembled(sse) /\ a = Aggregated(w)
  OBVIOUS
<1>2. w \in Seq(Events)
  BY <1>1, CompletedFrames DEF Complete
<1>3. sse \in Seq(FrameSet)
  <2>1. PICK tr, f : Streamed(Got(Whole, split), tr, f) /\ sse = Append(f, Plain("[DONE]"))
    BY CompletedFrames
  <2>2. f \in Seq(FrameSet) /\ Plain("[DONE]") \in FrameSet
    BY <2>1, CompletedFrames DEF Streamed
  <2> QED BY <2>1, <2>2
<1>4. m.calls \in Seq(CallSet)
  BY <1>1, <1>3, AssembledCalls
<1>5. m.text = Put(sp, a.text)
  BY <1>1, GarbledPut DEF StreamingAgrees
<1>6. ToSet(m.calls) = {[c EXCEPT !.arguments = Put(sp, @)] : c \in ToSet(a.calls)}
  <2>1. ToSet(m.calls) = {[c EXCEPT !.arguments = Garbled(@)] : c \in ToSet(a.calls)}
    BY <1>1, Zenon DEF StreamingAgrees
  <2>2. \A body : Garbled(body) = Put(sp, body)
    BY <1>1, GarbledPut
  <2> QED BY <2>1, <2>2, Zenon
<1>7. a.text = BodyOf(w, "item", NoCall)
  BY <1>1, Zenon DEF Aggregated, Message, BodyOf, DoneText
<1>8. BodyOf(w, "item", NoCall) \in Bodies
  BY <1>2, BodyElements
<1>9. Replies(m)
  <2>2. Put(sp, BodyOf(w, "item", NoCall)) \in Bodies
    BY <1>8, PutConcat
  <2> QED BY <1>4, <1>5, <1>7, <2>2 DEF Replies
<1>10. ASSUME NEW x
       PROVE  x \in ToSet(m.calls) <=>
                \E i \in DOMAIN w : DoneCall(w[i]) /\ x = [id |-> w[i].call, arguments |-> Put(sp, w[i].body)]
  <2> DEFINE put(c) == [c EXCEPT !.arguments = Put(sp, @)]
             call(i) == [id |-> w[i].call, arguments |-> w[i].body]
             said(i) == [id |-> w[i].call, arguments |-> Put(sp, w[i].body)]
  <2>1. \A i \in DOMAIN w : put(call(i)) = said(i)
    OBVIOUS
  <2>2. \A c : c \in ToSet(a.calls) <=> \E i \in DOMAIN w : DoneCall(w[i]) /\ c = call(i)
    BY <1>1, <1>2, AggregatedCalls
  <2>3. x \in ToSet(m.calls) <=> \E c \in ToSet(a.calls) : x = put(c)
    BY <1>6
  <2> HIDE DEF put, call, said
  <2>4. x \in ToSet(m.calls) <=> \E i \in DOMAIN w : DoneCall(w[i]) /\ x = said(i)
    BY <2>1, <2>2, <2>3
  <2> QED BY <2>4 DEF said
<1>11. Gives(w, sp, m)
  BY <1>5, <1>7, <1>9, <1>10 DEF Gives
<1> QED BY <1>1, <1>11

\* The items of w as they were read, and those of the continuation of m.
BackOf(w, sp, m, items, back) ==
  /\ items = {[w[i] EXCEPT !.body = Put(sp, @)] : i \in {j \in DOMAIN w : w[j].kind = "item"}}
  /\ \A x : x \in back <=> ItemBack(m, x)

SameItems(items, back) ==
  /\ {e \in items : e.call # NoCall} = {e \in back : e.kind = "item"}
  /\ {e.body : e \in {f \in items : f.call = NoCall}} = {e.body : e \in {f \in back : f.kind = "message"}}

\* The continuation of that message brings the items back.
LEMMA ItemsBack ==
  ASSUME NEW w \in Seq(Events), Itemised(w), NEW sp, NEW m, Gives(w, sp, m), NEW items, NEW back,
         BackOf(w, sp, m, items, back)
  PROVE  SameItems(items, back)
<1> DEFINE itemOf(i) == Event("item", w[i].call, Put(sp, w[i].body))
<1>1. \A i \in DOMAIN w : w[i] \in Events
  OBVIOUS
<1>2. ASSUME NEW i \in DOMAIN w, w[i].kind = "item" PROVE [w[i] EXCEPT !.body = Put(sp, @)] = itemOf(i)
  <2>1. \A e \in Events : e = [kind |-> e.kind, call |-> e.call, body |-> e.body]
    BY DEF Events
  <2>2. PICK e : e = w[i]
    OBVIOUS
  <2>3. e = [kind |-> "item", call |-> e.call, body |-> e.body]
    BY <1>1, <1>2, <2>1, <2>2
  <2>4. [e EXCEPT !.body = Put(sp, @)] = [kind |-> "item", call |-> e.call, body |-> Put(sp, e.body)]
    BY <2>3
  <2> QED BY <2>2, <2>4 DEF Event
<1>3. \A x : x \in items <=> \E i \in DOMAIN w : w[i].kind = "item" /\ x = itemOf(i)
  <2>1. \A x : x \in items <=> \E i \in DOMAIN w : w[i].kind = "item" /\ x = [w[i] EXCEPT !.body = Put(sp, @)]
    BY DEF BackOf
  <2> HIDE DEF itemOf
  <2>2. ASSUME NEW x, x \in items PROVE \E i \in DOMAIN w : w[i].kind = "item" /\ x = itemOf(i)
    <3>1. PICK i \in DOMAIN w : w[i].kind = "item" /\ x = [w[i] EXCEPT !.body = Put(sp, @)]
      BY <2>1, <2>2, Zenon
    <3>2. x = itemOf(i)
      BY <1>2, <3>1
    <3> QED BY <3>1, <3>2
  <2>3. ASSUME NEW i \in DOMAIN w, w[i].kind = "item" PROVE itemOf(i) \in items
    <3>1. [w[i] EXCEPT !.body = Put(sp, @)] \in items
      BY <2>1, <2>3, Zenon
    <3> QED BY <1>2, <2>3, <3>1
  <2> QED BY <2>2, <2>3
<1>4. \A x : x \in back <=> ItemBack(m, x)
  BY DEF BackOf
<1>5. \A i : itemOf(i).kind = "item" /\ itemOf(i).call = w[i].call /\ itemOf(i).body = Put(sp, w[i].body)
  BY DEF Event
<1>6. ASSUME NEW e PROVE e \in items /\ e.call # NoCall <=> e \in back /\ e.kind = "item"
  <2>1. e \in items /\ e.call # NoCall <=> \E i \in DOMAIN w : DoneCall(w[i]) /\ e = itemOf(i)
    BY <1>3, <1>5 DEF DoneCall
  <2>2. e \in back /\ e.kind = "item" <=>
          \E k \in DOMAIN m.calls : e = Event("item", m.calls[k].id, m.calls[k].arguments)
    BY <1>4 DEF ItemBack, Event
  <2>3. (\E k \in DOMAIN m.calls : e = Event("item", m.calls[k].id, m.calls[k].arguments))
          <=> \E x \in ToSet(m.calls) : e = Event("item", x.id, x.arguments)
    BY DEF ToSet
  <2>4. ASSUME NEW x \in ToSet(m.calls), e = Event("item", x.id, x.arguments)
        PROVE  \E i \in DOMAIN w : DoneCall(w[i]) /\ e = itemOf(i)
    <3>1. PICK i \in DOMAIN w : DoneCall(w[i]) /\ x = [id |-> w[i].call, arguments |-> Put(sp, w[i].body)]
      BY DEF Gives
    <3>2. x.id = w[i].call /\ x.arguments = Put(sp, w[i].body)
      BY <3>1
    <3> QED BY <2>4, <3>1, <3>2
  <2>5. ASSUME NEW i \in DOMAIN w, DoneCall(w[i]), e = itemOf(i)
        PROVE  \E x \in ToSet(m.calls) : e = Event("item", x.id, x.arguments)
    <3>1. PICK x : x = [id |-> w[i].call, arguments |-> Put(sp, w[i].body)]
      OBVIOUS
    <3>2. x \in ToSet(m.calls)
      BY <2>5, <3>1 DEF Gives
    <3>3. x.id = w[i].call /\ x.arguments = Put(sp, w[i].body)
      BY <3>1
    <3> QED BY <2>5, <3>2, <3>3
  <2> HIDE DEF itemOf
  <2> QED BY <2>1, <2>2, <2>3, <2>4, <2>5, Zenon
<1>7. ASSUME NEW f PROVE f \in back /\ f.kind = "message" <=> m.text # <<>> /\ f = Event("message", NoCall, m.text)
  BY <1>4 DEF ItemBack, Event
<1>8. {e.body : e \in {f \in back : f.kind = "message"}} = IF m.text # <<>> THEN {m.text} ELSE {}
  <2>1. Event("message", NoCall, m.text).body = m.text
    BY DEF Event
  <2>2. CASE m.text # <<>>
    <3>1. {f \in back : f.kind = "message"} = {Event("message", NoCall, m.text)}
      BY <1>7, <2>2
    <3> QED BY <2>1, <2>2, <3>1
  <2>3. CASE m.text = <<>>
    <3>1. {f \in back : f.kind = "message"} = {}
      BY <1>7, <2>3
    <3> QED BY <2>3, <3>1
  <2> QED BY <2>2, <2>3
<1>9. m.text = Put(sp, BodyOf(w, "item", NoCall))
  BY DEF Gives
<1>10. {e.body : e \in {f \in items : f.call = NoCall}} = IF m.text # <<>> THEN {m.text} ELSE {}
  <2>1. CASE \E l \in DOMAIN w : w[l].kind = "item" /\ w[l].call = NoCall
    <3>1. PICK l \in DOMAIN w : w[l].kind = "item" /\ w[l].call = NoCall
      BY <2>1
    <3>2. \A i \in DOMAIN w : w[i].kind = "item" /\ w[i].call = NoCall => i = l
      BY <3>1 DEF Itemised
    <3>3. BodyOf(w, "item", NoCall) = w[l].body
      BY <3>1, <3>2, BodySingle
    <3>4. w[l].body = BodyOf(w, "text", NoCall) /\ \E j \in DOMAIN w : w[j].kind = "text" /\ w[j].call = NoCall
      <4>1. DeltaOf(NoCall) = "text" /\ FirstOf(NoCall) = "text"
        BY DEF DeltaOf, FirstOf
      <4> QED BY <3>1, <4>1 DEF Itemised
    <3>5. PICK j \in DOMAIN w : w[j].kind = "text" /\ w[j].call = NoCall
      BY <3>4
    <3>6. w[j].body = <<j>>
      BY <3>5 DEF Itemised, Deltas
    <3>7. PICK b : b = BodyOf(w, "text", NoCall)
      OBVIOUS
    <3>8. j \in ToSet(b)
      <4>1. j \in ToSet(w[j].body)
        BY <3>6 DEF ToSet
      <4> QED BY <3>5, <3>7, <4>1, BodyElements
    <3>9. PICK k \in DOMAIN b : b[k] = j
      BY <3>8 DEF ToSet
    <3>10. Put(sp, b) # <<>>
      <4>1. DOMAIN Put(sp, b) = DOMAIN b /\ DOMAIN <<>> = {}
        BY DEF Put
      <4> QED BY <3>9, <4>1
    <3>11. m.text # <<>> /\ m.text = Put(sp, w[l].body)
      BY <1>9, <3>3, <3>4, <3>7, <3>10
    <3>12. {f \in items : f.call = NoCall} = {itemOf(l)}
      <4>1. \A f : f \in items /\ f.call = NoCall <=> f = itemOf(l)
        BY <1>3, <1>5, <3>1, <3>2
      <4> HIDE DEF itemOf
      <4> QED BY <4>1
    <3>13. {e.body : e \in {itemOf(l)}} = {itemOf(l).body}
      OBVIOUS
    <3>14. itemOf(l).body = m.text
      BY <1>5, <3>11
    <3> HIDE DEF itemOf
    <3> QED BY <3>11, <3>12, <3>13, <3>14
  <2>2. CASE ~\E l \in DOMAIN w : w[l].kind = "item" /\ w[l].call = NoCall
    <3>1. BodyOf(w, "item", NoCall) = <<>>
      BY <2>2, BodyNothing
    <3>2. {f \in items : f.call = NoCall} = {}
      BY <1>3, <1>5, <2>2
    <3>3. Put(sp, <<>>) = <<>>
      BY DEF Put
    <3> QED BY <1>9, <3>1, <3>2, <3>3
  <2> QED BY <2>1, <2>2
<1>11. {e \in items : e.call # NoCall} = {e \in back : e.kind = "item"}
  BY <1>6
<1> QED BY <1>8, <1>10, <1>11 DEF SameItems

-----------------------------------------------------------------------------
\* The next request after conversation h and message m.
Resumes(h, m, input, before, instructions) ==
  /\ input = chat_to_responses(h \o Continuation(m)).input /\ before = chat_to_responses(h).input
  /\ instructions = chat_to_responses(h \o Continuation(m)).instructions

\* It has the input before it, and behind it the message, its calls and the answers.
LEMMA ResumedInput ==
  ASSUME NEW h \in Histories, NEW m, Replies(m), NEW input, NEW before, NEW instructions,
         Resumes(h, m, input, before, instructions)
  PROVE  /\ SubSeq(input, 1, Len(before)) = before
         /\ \A x : x \in {input[i] : i \in {j \in DOMAIN input : j > Len(before)}} <=> ItemBack(m, x)
<1>1. PICK c, after, p, q : /\ c = Continuation(m) /\ after = chat_to_responses(c).input
                            /\ p = Len(before) /\ q = Len(after)
  OBVIOUS
<1>2. h \in Seq(TurnSet) /\ c \in Seq(TurnSet)
  BY <1>1, HistoryKnown, ContinuationTurns DEF Continues
<1>3. input = before \o after
  BY <1>1, <1>2, TurnsAppended DEF Resumes
<1>4. before \in Seq(InputSet) /\ after \in Seq(InputSet)
  BY <1>1, <1>2, InputOf DEF Resumes
<1>5. Joined(before, p, after, q, input) /\ input \in Seq(InputSet) /\ Len(input) = p + q
  BY <1>1, <1>3, <1>4, ConcatPlaces
<1>6. /\ p \in Nat /\ q \in Nat /\ DOMAIN after = 1 .. q /\ DOMAIN input = 1 .. p + q
      /\ \A i \in 1 .. p : i \in 1 .. p + q /\ input[i] = before[i]
      /\ \A i \in 1 .. q : p + i \in 1 .. p + q /\ input[p + i] = after[i]
      /\ \A i \in 1 .. p + q : i \in 1 .. p \/ \E j \in 1 .. q : i = p + j
  BY <1>5 DEF Joined
<1>7. SubSeq(input, 1, p) = before
  <2>1. PICK s : s = SubSeq(input, 1, p)
    OBVIOUS
  <2>2. p <= p + q
    BY <1>6
  <2>3. s \in Seq(InputSet) /\ Len(s) = p /\ \A i \in 1 .. p : s[i] = input[i]
    BY <1>5, <1>6, <2>1, <2>2
  <2>4. s = before
    BY <1>1, <1>4, <1>6, <2>3, SeqEqual
  <2> QED BY <2>1, <2>4
<1>8. ASSUME NEW x PROVE x \in {input[i] : i \in {j \in DOMAIN input : j > p}} <=> x \in ToSet(after)
  <2>1. ASSUME NEW i \in 1 .. p + q, i > p PROVE input[i] \in ToSet(after)
    <3>1. PICK j \in 1 .. q : i = p + j
      BY <1>6, <2>1
    <3> QED BY <1>6, <3>1 DEF ToSet
  <2>2. ASSUME x \in ToSet(after) PROVE \E i \in 1 .. p + q : i > p /\ x = input[i]
    <3>1. PICK j \in 1 .. q : x = after[j]
      BY <1>6, <2>2 DEF ToSet
    <3>2. p + j \in 1 .. p + q /\ p + j > p /\ input[p + j] = x
      BY <1>6, <3>1
    <3> QED BY <3>2
  <2> QED BY <1>6, <2>1, <2>2
<1>9. \A x : x \in ToSet(after) <=> ItemBack(m, x)
  BY <1>1, ContinuationItems
<1> QED BY <1>1, <1>7, <1>8, <1>9

\* Its answers are behind their calls, and what was said comes up in order.
LEMMA ResumedOrder ==
  ASSUME NEW h \in Histories, NEW m, Replies(m), NEW input, NEW before, NEW instructions,
         Resumes(h, m, input, before, instructions)
  PROVE  /\ \A i \in DOMAIN input : input[i].kind = "output" =>
              \E j \in DOMAIN input : j < i /\ input[j].kind = "item" /\ input[j].call = input[i].call
         /\ Told(before) = Said(h, Speaking) /\ instructions = Said(h, Instructing)
<1>1. PICK c, d, n : c = Continuation(m) /\ d = h \o c /\ n = Len(m.calls)
  OBVIOUS
<1>2. h \in Seq(TurnSet) /\ Answered(h) /\ Continues(m, n, c)
  BY <1>1, HistoryKnown, ContinuationTurns
<1>3. c \in Seq(TurnSet)
  BY <1>2 DEF Continues
<1>4. d \in Seq(TurnSet) /\ Answered(d)
  BY <1>1, <1>2, <1>3, AnsweredOn
<1>5. \A i \in DOMAIN input : input[i].kind = "output" =>
        \E j \in DOMAIN input : j < i /\ input[j].kind = "item" /\ input[j].call = input[i].call
  <2>1. input = chat_to_responses(d).input
    BY <1>1 DEF Resumes
  <2> QED BY <1>4, <2>1, AnswersBehind
<1>6. chat_to_responses(d).instructions = chat_to_responses(h).instructions
  <2>1. PICK a : a = chat_to_responses(h).instructions
    OBVIOUS
  <2>2. a \in Seq(Int)
    BY <1>2, <2>1, InstructionsOf
  <2>3. chat_to_responses(c).instructions = <<>>
    BY <1>1, ContinuationItems
  <2>4. chat_to_responses(d).instructions = a \o chat_to_responses(c).instructions
    BY <1>1, <1>2, <1>3, <2>1, TurnsAppended
  <2>5. a \o <<>> = a
    BY <2>2, ConcatEmptySeq
  <2> QED BY <2>1, <2>3, <2>4, <2>5
<1>7. Told(before) = Said(h, Speaking) /\ instructions = Said(h, Instructing)
  BY <1>1, <1>2, <1>6, SaidInOrder DEF Resumes
<1> QED BY <1>5, <1>7

\* The reply, or the stream, of a completed answer is its message as it was read.
LEMMA MessageGiven ==
  ASSUME ChatInv, ReplyInv, StreamingAgrees, Completed, Over \/ reply.reason \in Normal, NEW m,
         m = (IF streaming THEN Assembled(sse) ELSE reply)
  PROVE  Gives(Whole, split, m)
<1>1. Whole \in Seq(Events)
  BY CompletedWhole DEF ChatInv, Complete
<1>2. CASE streaming = TRUE
  <2>1. reply.reason = "none"
    BY <1>2 DEF ReplyInv, Failure, Message
  <2>2. Over
    BY <2>1 DEF Normal
  <2> QED BY <1>2, <2>2, StreamGives
<1>3. CASE streaming = FALSE
  <2>1. sse = <<>> /\ split = {}
    BY <1>3 DEF ReplyInv, ChatInv, SplitInv
  <2>2. ~Over
    BY <2>1 DEF Over
  <2>3. ~Failed(reply)
    BY <2>2 DEF Failed, Failure, Message, Normal
  <2>4. reply = Aggregated(Whole)
    BY <1>3, <2>3 DEF ReplyInv
  <2> QED BY <1>1, <1>3, <2>1, <2>4, AggregatedGives
<1> QED BY <1>2, <1>3 DEF ReplyInv

Kept(h, items, back, input, before, instructions) ==
  /\ SameItems(items, back)
  /\ \A i \in DOMAIN input : input[i].kind = "output" =>
       \E j \in DOMAIN input : j < i /\ input[j].kind = "item" /\ input[j].call = input[i].call
  /\ SubSeq(input, 1, Len(before)) = before
  /\ Told(before) = Said(h, Speaking) /\ instructions = Said(h, Instructing)

\* So the next request keeps everything.
LEMMA ResumeKeeps ==
  ASSUME NEW h \in Histories, NEW w \in Seq(Events), Itemised(w), NEW sp, NEW m, Gives(w, sp, m),
         NEW items, items = {[w[i] EXCEPT !.body = Put(sp, @)] : i \in {j \in DOMAIN w : w[j].kind = "item"}},
         NEW input, NEW before, NEW instructions, Resumes(h, m, input, before, instructions),
         NEW back, back = {input[i] : i \in {j \in DOMAIN input : j > Len(before)}}
  PROVE  Kept(h, items, back, input, before, instructions)
<1>1. Replies(m)
  BY DEF Gives
<1>2. SubSeq(input, 1, Len(before)) = before /\ \A x : x \in back <=> ItemBack(m, x)
  BY <1>1, ResumedInput
<1>3. BackOf(w, sp, m, items, back)
  BY <1>2 DEF BackOf
<1>4. SameItems(items, back)
  BY <1>3, ItemsBack
<1>5. /\ \A i \in DOMAIN input : input[i].kind = "output" =>
           \E j \in DOMAIN input : j < i /\ input[j].kind = "item" /\ input[j].call = input[i].call
      /\ Told(before) = Said(h, Speaking) /\ instructions = Said(h, Instructing)
  BY <1>1, ResumedOrder
<1> QED BY <1>2, <1>4, <1>5, Zenon DEF Kept

\* The next request brings a completed answer back as the client read it, streamed
\* or not, each answer behind its call, and says in order everything said before,
\* the instructions apart (chat_to_responses on the client's continuation of any
\* conversation).
THEOREM HistoryKept == ChatSpec => []HistorySurvives
<1>1. ASSUME ChatInv, ReplyInv, StreamingAgrees PROVE HistorySurvives
  <2> SUFFICES ASSUME Completed, Over \/ reply.reason \in Normal, NEW h \in Histories
               PROVE  LET m == IF streaming THEN Assembled(sse) ELSE reply
                          items == {[Whole[i] EXCEPT !.body = Garbled(@)] :
                                      i \in {j \in DOMAIN Whole : Whole[j].kind = "item"}}
                          request == chat_to_responses(h \o Continuation(m))
                          input == request.input
                          before == chat_to_responses(h).input
                          back == {input[i] : i \in {j \in DOMAIN input : j > Len(before)}}
                      IN  Kept(h, items, back, input, before, request.instructions)
    BY Zenon DEF HistorySurvives, Kept, SameItems, Told, Speaking
  <2> DEFINE m == IF streaming THEN Assembled(sse) ELSE reply
             items == {[Whole[i] EXCEPT !.body = Garbled(@)] :
                         i \in {j \in DOMAIN Whole : Whole[j].kind = "item"}}
             input == chat_to_responses(h \o Continuation(m)).input
             before == chat_to_responses(h).input
             back == {input[i] : i \in {j \in DOMAIN input : j > Len(before)}}
             instructions == chat_to_responses(h \o Continuation(m)).instructions
  <2>1. PICK w : w = Whole
    OBVIOUS
  <2>2. w \in Seq(Events) /\ Itemised(w)
    BY <1>1, <2>1, CompletedWhole DEF ChatInv, Complete
  <2>3. Gives(Whole, split, m)
    BY <1>1, MessageGiven
  <2>4. items = {[w[i] EXCEPT !.body = Put(split, @)] : i \in {j \in DOMAIN w : w[j].kind = "item"}}
    <3>1. \A body : Garbled(body) = Put(split, body)
      BY GarbledPut
    <3> QED BY <2>1, <3>1, Zenon
  <2>5. Resumes(h, m, input, before, instructions)
    BY Zenon DEF Resumes
  <2>6. back = {input[i] : i \in {j \in DOMAIN input : j > Len(before)}}
    OBVIOUS
  <2> HIDE DEF m, items, input, before, back, instructions
  <2>7. Gives(w, split, m)
    BY <2>1, <2>3
  <2>8. Kept(h, items, back, input, before, instructions)
    BY <2>2, <2>4, <2>5, <2>6, <2>7, ResumeKeeps
  <2> QED BY <2>8, Zenon DEF m, items, input, before, back, instructions
<1>2. ChatInit => ReplyInv
  BY DEF ChatInit, ReplyInv, Failed
<1>3. ChatSpec => []ReplyInv
  BY <1>2, ReplyKeeps, PTL DEF ChatSpec
<1> QED BY <1>1, <1>3, ChatInvariant, SameMessage, PTL
=============================================================================
