----------------------------- MODULE Chainstate -----------------------------
(***************************************************************************)
(* How the node chooses its chain: the block index with its failure flags, *)
(* setBlockIndexCandidates and m_failed_blocks, blocks and headers that    *)
(* arrive, ActivateBestChain, and the calls of an operator that interfere: *)
(* invalidateblock, reconsiderblock, preciousblock, a restart.             *)
(*                                                                         *)
(* Two locks matter.  cs_main protects all of the state; m_cs_chainstate   *)
(* is held by ActivateBestChain and InvalidateBlock from beginning to end, *)
(* while they give up cs_main in between.  A section under cs_main that    *)
(* changes the state once is one step here; ActivateBestChain's sections   *)
(* are taken apart, and no other thread steps while one is under way.      *)
(*                                                                         *)
(* A block is only accepted on a parent whose data the node has, so that   *)
(* without pruning m_blocks_unlinked stays empty and HaveTxsDownloaded is  *)
(* the same as BLOCK_HAVE_DATA.                                            *)
(***************************************************************************)
EXTENDS Integers, FiniteSets

CONSTANTS Blocks, Genesis, NoBlock,
          Parent,      \* pprev: [Blocks -> Blocks \cup {NoBlock}]
          Address,     \* where the entries lie in memory: [Blocks -> Nat]
          Good,        \* the blocks ConnectBlock accepts
          Malformed,   \* the blocks ContextualCheckBlock refuses
          Early,       \* bound: the blocks whose headers come without them
          Threads, NoThread,
          StepAhead,   \* the 16 blocks of ActivateBestChainStep
          AnyFailed,   \* reconsiderblock is called for any failed block, not
                       \* only for those without a failed ancestor
          AnyPrecious, \* preciousblock is called for the tip also where the
                       \* tip's sequence number would go up
          MaxCalls     \* bound: calls of the operator and restarts

ASSUME ChainstateAssumption ==
  /\ Genesis \in Blocks /\ Genesis \in Good
  /\ NoBlock \notin Blocks /\ NoThread \notin Threads
  /\ Parent \in [Blocks -> Blocks \cup {NoBlock}]
  /\ \A b \in Blocks : Parent[b] = NoBlock <=> b = Genesis
  /\ Address \in [Blocks -> Nat]
  /\ \A a, b \in Blocks : Address[a] = Address[b] => a = b
  /\ \A set \in SUBSET Blocks : set # {} => \E b \in set : Parent[b] \notin set
  /\ AnyFailed \in BOOLEAN /\ AnyPrecious \in BOOLEAN
  /\ StepAhead \in Nat /\ MaxCalls \in Nat

VARIABLES known,       \* m_block_index: the headers
          data,        \* BLOCK_HAVE_DATA
          scripts,     \* BLOCK_VALID_SCRIPTS
          failedValid, \* BLOCK_FAILED_VALID
          failedChild, \* BLOCK_FAILED_CHILD
          failedList,  \* m_failed_blocks
          candidates,  \* setBlockIndexCandidates
          sequence,    \* nSequenceId
          counters,    \* nBlockSequenceId, nBlockReverseSequenceId, nLastPreciousChainwork
          tip,         \* m_chain.Tip()
          csMain, csChainstate,
          pc,          \* where each thread is
          local,       \* the variables of the holder of m_cs_chainstate
          calls

index == <<known, data, scripts, failedValid, failedChild, failedList>>
order == <<candidates, sequence, counters>>
locks == <<csMain, csChainstate>>
vars == <<index, order, tip, locks, pc, local, calls>>

NoLocal ==
  [most |-> NoBlock, start |-> NoBlock, old |-> NoBlock, connected |-> FALSE,
   target |-> NoBlock, mark |-> NoBlock, saved |-> {}]

\* Every variable has its type, and only entries of the block index are flagged.
TypeOK ==
  /\ \A set \in {known, data, scripts, failedValid, failedChild, failedList, candidates} :
       set \subseteq Blocks
  /\ data \cup scripts \cup failedValid \cup failedChild \subseteq known
  /\ sequence \in [Blocks -> Int]
  /\ counters \in [next: Nat, reverse: Int, precious: Nat]
  /\ tip \in Blocks
  /\ csMain \in Threads \cup {NoThread} /\ csChainstate \in Threads \cup {NoThread}
  /\ pc \in [Threads -> {"idle", "activate", "loop", "find", "disconnect", "connect",
                         "again", "walk"}]
  /\ local \in [most: Blocks \cup {NoBlock}, start: Blocks \cup {NoBlock},
                old: Blocks \cup {NoBlock}, connected: BOOLEAN,
                target: Blocks \cup {NoBlock}, mark: Blocks \cup {NoBlock},
                saved: SUBSET Blocks]
  /\ calls \in 0 .. MaxCalls

-----------------------------------------------------------------------------
(* The tree of blocks.                                                     *)

Ancestry[b \in Blocks] == IF b = Genesis THEN {b} ELSE {b} \cup Ancestry[Parent[b]]

\* A block and its ancestors, as a table.
Line == [b \in Blocks |-> Ancestry[b]]

\* nHeight + 1, and nChainWork of blocks that are worth the same.
Work == [b \in Blocks |-> Cardinality(Line[b])]

InChain(b) == b \in Line[tip]

Failed(b) == b \in failedValid \cup failedChild

\* IsValid(BLOCK_VALID_TRANSACTIONS)
Usable(b) == b \in data /\ ~Failed(b)

\* CBlockIndexWorkComparator: a sorts before b.
Before(id, a, b) ==
  \/ Work[a] < Work[b]
  \/ /\ Work[a] = Work[b]
     /\ \/ id[a] > id[b]
        \/ id[a] = id[b] /\ Address[a] > Address[b]

Worse(a, b) == Before(sequence, a, b)

\* Mutant: the tip itself is deleted too.
PrunedMutant(set, id, b) == {c \in set : Before(id, b, c)}

\* PruneBlockIndexCandidates for a new tip.
Pruned(set, id, b) == {c \in set : ~Before(id, c, b)}

-----------------------------------------------------------------------------

Init ==
  /\ known = {Genesis} /\ data = {Genesis} /\ scripts = {}
  /\ failedValid = {} /\ failedChild = {} /\ failedList = {}
  /\ candidates = {Genesis}
  /\ sequence = [b \in Blocks |-> IF b = Genesis THEN 1 ELSE 0]
  /\ counters = [next |-> 2, reverse |-> -1, precious |-> 0]
  /\ tip = Genesis
  /\ csMain = NoThread /\ csChainstate = NoThread
  /\ pc = [t \in Threads |-> "idle"]
  /\ local = NoLocal
  /\ calls = 0

Goto(t, place) == pc' = [pc EXCEPT ![t] = place]

-----------------------------------------------------------------------------
(* Headers and blocks from the network.                                    *)

\* AcceptBlockHeader finds a failed ancestor that the flags of the parent do
\* not show, and flags the blocks in between.
FailedAncestor(b) ==
  /\ b \notin known
  /\ Parent[b] \in known /\ ~Failed(Parent[b]) /\ Parent[b] \notin scripts
  /\ \E f \in failedList \cap Line[Parent[b]] :
       failedChild' = failedChild \cup {c \in Line[Parent[b]] : f \in Line[c] /\ c # f}
  /\ UNCHANGED <<known, data, scripts, failedValid, failedList>>

\* AcceptBlockHeader succeeds.
HeaderAccepted(b) ==
  IF b \in known
  THEN ~Failed(b)
  ELSE /\ Parent[b] \in known /\ ~Failed(Parent[b])
       /\ Parent[b] \in scripts \/ failedList \cap Line[Parent[b]] = {}

\* ProcessNewBlockHeaders, for a header that is new; also what is left of
\* AcceptBlock for a block whose parent cannot be used or whose proof fails.
ProcessHeader(b) ==
  /\ csMain = NoThread
  /\ b \in Early \ known
  /\ \/ FailedAncestor(b)
     \/ /\ HeaderAccepted(b)
        /\ known' = known \cup {b}
        /\ UNCHANGED <<data, scripts, failedValid, failedChild, failedList>>
  /\ UNCHANGED <<order, tip, locks, pc, local, calls>>

\* AcceptBlock up to the point where the block is looked at.
NewBlock(t, b) ==
  /\ csMain = NoThread /\ pc[t] = "idle"
  /\ b \notin data
  /\ HeaderAccepted(b)
  /\ Usable(Parent[b])
  /\ known' = known \cup {b}

\* The block passes all checks: ReceivedBlockTransactions.
StoreBlock(t, b) ==
  /\ NewBlock(t, b)
  /\ b \notin Malformed
  /\ data' = data \cup {b}
  /\ sequence' = [sequence EXCEPT ![b] = counters.next]
  /\ counters' = [counters EXCEPT !.next = @ + 1]
  /\ candidates' = IF Before(sequence', b, tip) THEN candidates ELSE candidates \cup {b}
  /\ Goto(t, "activate")
  /\ UNCHANGED <<scripts, failedValid, failedChild, failedList, tip, locks, local, calls>>

\* A block that was not asked for and has less work is not processed, but
\* ActivateBestChain is called all the same.
IgnoreBlock(t, b) ==
  /\ NewBlock(t, b)
  /\ b \in Early \ known
  /\ Work[b] < Work[tip]
  /\ Goto(t, "activate")
  /\ UNCHANGED <<data, scripts, failedValid, failedChild, failedList, order, tip,
                 locks, local, calls>>

\* ContextualCheckBlock fails.  m_failed_blocks does not get the block.
RefuseBlock(t, b) ==
  /\ NewBlock(t, b)
  /\ b \in Malformed
  /\ failedValid' = failedValid \cup {b}
  /\ UNCHANGED <<data, scripts, failedChild, failedList, order, tip, locks, pc, local, calls>>

-----------------------------------------------------------------------------
(* ActivateBestChain.                                                      *)

\* LOCK(m_cs_chainstate)
LockChainstate(t) ==
  /\ pc[t] = "activate" /\ csChainstate = NoThread
  /\ csChainstate' = t
  /\ local' = NoLocal
  /\ Goto(t, "loop")
  /\ UNCHANGED <<index, order, tip, csMain, calls>>

\* The outer loop takes cs_main.  pindexMostWork is kept from the last time.
LockMain(t) ==
  /\ pc[t] = "loop" /\ csMain = NoThread
  /\ csMain' = t
  /\ local' = [local EXCEPT !.start = tip, !.connected = FALSE]
  /\ Goto(t, "find")
  /\ UNCHANGED <<index, order, tip, csChainstate, calls>>

Best == CHOOSE c \in candidates : \A d \in candidates : ~Worse(c, d)

\* The blocks of a candidate's chain that are not in the active chain.
Path(b) == Line[b] \ Line[tip]

\* FindMostWorkChain drops a candidate with a failed block on its path, with
\* all above that block, which are flagged.
DropCandidate(t) ==
  LET bad == {b \in Path(Best) : Failed(b)}
  IN  /\ pc[t] = "find" /\ local.most = NoBlock /\ candidates # {}
      /\ bad # {}
      /\ LET test == CHOOSE b \in bad : \A c \in bad : c \in Line[b]
             above == {c \in Path(Best) : test \in Line[c] /\ c # test}
         IN  /\ failedChild' = failedChild \cup above
             /\ candidates' = candidates \ (above \cup {test})
      /\ UNCHANGED <<known, data, scripts, failedValid, failedList, sequence, counters, tip,
                     locks, pc, local, calls>>

\* pindexMostWork: kept, or what FindMostWorkChain returns.
MostWork ==
  IF local.most # NoBlock THEN local.most ELSE IF candidates = {} THEN NoBlock ELSE Best

\* Mutant: the path of the candidate is not looked at.
FoundMutant(t) == pc[t] = "find"

Found(t) ==
  /\ pc[t] = "find"
  /\ local.most = NoBlock /\ candidates # {} => \A b \in Path(Best) : ~Failed(b)

\* ActivateBestChainStep begins.
BeginStep(t) ==
  /\ Found(t)
  /\ MostWork \notin {NoBlock, tip}
  /\ local' = [local EXCEPT !.most = MostWork, !.old = tip]
  /\ Goto(t, "disconnect")
  /\ UNCHANGED <<index, order, tip, locks, calls>>

\* Nothing to do: out of the inner loop, and, unless blocks were connected and
\* there is no candidate left, out of ActivateBestChain.
NothingToDo(t) ==
  LET more == local.connected /\ MostWork = NoBlock
  IN  /\ Found(t)
      /\ MostWork \in {NoBlock, tip}
      /\ csMain' = NoThread
      /\ Goto(t, IF more THEN "loop" ELSE "idle")
      /\ csChainstate' = IF more THEN t ELSE NoThread
      /\ local' = IF more THEN local ELSE NoLocal
      /\ UNCHANGED <<index, order, tip, calls>>

\* Blocks that are not on the way to pindexMostWork are disconnected.
DisconnectTip(t) ==
  /\ pc[t] = "disconnect"
  /\ IF tip \in Line[local.most]
     THEN Goto(t, "connect") /\ UNCHANGED tip
     ELSE tip' = Parent[tip] /\ UNCHANGED pc
  /\ UNCHANGED <<index, order, locks, local, calls>>

\* ConnectTip: the next block on the way is valid.
ConnectTip(t) ==
  LET next == CHOOSE b \in Line[local.most] : Parent[b] = tip
  IN  /\ pc[t] = "connect"
      /\ next \in Good
      /\ tip' = next
      /\ scripts' = scripts \cup {next}
      /\ candidates' = Pruned(candidates, sequence, next)
      /\ IF \/ next = local.most
            \/ /\ Work[local.most] - Work[next] > StepAhead
               /\ Work[next] > Work[local.old]
         THEN Goto(t, "again") /\ local' = [local EXCEPT !.connected = TRUE]
         ELSE UNCHANGED <<pc, local>>
      /\ UNCHANGED <<known, data, failedValid, failedChild, failedList, sequence, counters,
                     locks, calls>>

\* Mutant: pindexMostWork is kept.
InvalidBlockFoundMutant(t) ==
  LET next == CHOOSE b \in Line[local.most] : Parent[b] = tip
  IN  /\ pc[t] = "connect"
      /\ next \notin Good
      /\ failedValid' = failedValid \cup {next}
      /\ failedList' = failedList \cup {next}
      /\ candidates' = candidates \ {next}
      /\ local' = [local EXCEPT !.connected = TRUE]
      /\ Goto(t, "again")
      /\ UNCHANGED <<known, data, scripts, failedChild, sequence, counters, tip, locks, calls>>

\* ConnectTip: it is not.  InvalidBlockFound, and pindexMostWork is wiped.
InvalidBlockFound(t) ==
  LET next == CHOOSE b \in Line[local.most] : Parent[b] = tip
  IN  /\ pc[t] = "connect"
      /\ next \notin Good
      /\ failedValid' = failedValid \cup {next}
      /\ failedList' = failedList \cup {next}
      /\ candidates' = candidates \ {next}
      /\ local' = [local EXCEPT !.most = NoBlock, !.connected = TRUE]
      /\ Goto(t, "again")
      /\ UNCHANGED <<known, data, scripts, failedChild, sequence, counters, tip, locks, calls>>

\* Mutant: there is no inner loop.
AgainMutant(t) ==
  /\ pc[t] = "again"
  /\ csMain' = NoThread
  /\ IF tip = local.most
     THEN Goto(t, "idle") /\ csChainstate' = NoThread /\ local' = NoLocal
     ELSE Goto(t, "loop") /\ UNCHANGED <<csChainstate, local>>
  /\ UNCHANGED <<index, order, tip, calls>>

\* The inner loop goes on while the tip is worse than it was; then cs_main is
\* released, and the outer loop ends at pindexMostWork.
Again(t) ==
  /\ pc[t] = "again"
  /\ IF Worse(tip, local.start)
     THEN Goto(t, "find") /\ UNCHANGED <<locks, local>>
     ELSE /\ csMain' = NoThread
          /\ IF tip = local.most
             THEN Goto(t, "idle") /\ csChainstate' = NoThread /\ local' = NoLocal
             ELSE Goto(t, "loop") /\ UNCHANGED <<csChainstate, local>>
  /\ UNCHANGED <<index, order, tip, calls>>

-----------------------------------------------------------------------------
(* Calls of the operator.                                                  *)

Call(t) == csMain = NoThread /\ pc[t] = "idle" /\ calls < MaxCalls /\ calls' = calls + 1

\* InvalidateBlock takes m_cs_chainstate and notes the blocks that may become
\* candidates while it disconnects.
InvalidateBlock(t, b) ==
  /\ Call(t)
  /\ csChainstate = NoThread
  /\ b \in known \ {Genesis}
  /\ csChainstate' = t
  /\ local' = [NoLocal EXCEPT !.target = b, !.mark = b,
                 !.saved = {c \in known : ~InChain(c) /\ ~Worse(c, Parent[b]) /\ Usable(c)}]
  /\ Goto(t, "walk")
  /\ UNCHANGED <<index, order, tip, csMain>>

\* One turn of its loop.  The flag of the block disconnected before should
\* change, for which the code compares the wrong way round.
InvalidateTip(t) ==
  LET prev == Parent[tip]
      fix == prev = local.mark /\ local.mark \in failedValid
      late == {c \in local.saved : ~Worse(c, prev)}
  IN  /\ pc[t] = "walk" /\ csMain = NoThread
      /\ InChain(local.target)
      /\ tip' = prev
      /\ failedValid' = (failedValid \cup {tip}) \ (IF fix THEN {local.mark} ELSE {})
      /\ failedChild' = failedChild \cup (IF fix THEN {local.mark} ELSE {})
      /\ candidates' = (candidates \ {tip}) \cup {prev} \cup late
      /\ local' = [local EXCEPT !.mark = tip, !.saved = @ \ late]
      /\ UNCHANGED <<known, data, scripts, failedList, sequence, counters, locks, pc, calls>>

\* Mutant: candidates are not looked for once more.
MarkFailedMutant(t) ==
  /\ pc[t] = "walk" /\ csMain = NoThread
  /\ ~InChain(local.target)
  /\ failedValid' = failedValid \cup {local.mark}
  /\ failedList' = failedList \cup {local.mark}
  /\ candidates' = candidates \ {local.mark}
  /\ csChainstate' = NoThread
  /\ local' = NoLocal
  /\ Goto(t, "activate")
  /\ UNCHANGED <<known, data, scripts, failedChild, sequence, counters, tip, csMain, calls>>

\* Its last section flags the block, looks for candidates once more, and
\* the RPC goes on to ActivateBestChain.
MarkFailed(t) ==
  /\ pc[t] = "walk" /\ csMain = NoThread
  /\ ~InChain(local.target)
  /\ failedValid' = failedValid \cup {local.mark}
  /\ failedList' = failedList \cup {local.mark}
  /\ candidates' = (candidates \cup {c \in known : Usable(c) /\ ~Worse(c, tip)}) \ {local.mark}
  /\ csChainstate' = NoThread
  /\ local' = NoLocal
  /\ Goto(t, "activate")
  /\ UNCHANGED <<known, data, scripts, failedChild, sequence, counters, tip, csMain, calls>>

\* reconsiderblock: ResetBlockFailureFlags, then ActivateBestChain.
ReconsiderBlock(t, b) ==
  LET below == {c \in known : b \in Line[c] /\ ~Usable(c)}
      reset == below \cup {c \in Line[b] : Failed(c)}
  IN  /\ Call(t)
      /\ b \in known \ {Genesis}
      /\ AnyFailed \/ \A a \in Line[Parent[b]] : ~Failed(a)
      /\ failedValid' = failedValid \ reset
      /\ failedChild' = failedChild \ reset
      /\ failedList' = failedList \ reset
      /\ candidates' = candidates \cup {c \in below \cap data : Worse(tip, c)}
      /\ Goto(t, "activate")
      /\ UNCHANGED <<known, data, scripts, sequence, counters, tip, locks, local>>

\* preciousblock: PreciousBlock up to ActivateBestChain.
PreciousBlock(t, b) ==
  LET id == IF Work[tip] > counters.precious THEN -1 ELSE counters.reverse
  IN  /\ Call(t)
      /\ b \in known
      /\ Work[b] >= Work[tip]
      /\ AnyPrecious \/ b # tip \/ id < sequence[b]
      /\ sequence' = [sequence EXCEPT ![b] = id]
      /\ counters' = [counters EXCEPT !.reverse = id - 1, !.precious = Work[tip]]
      /\ candidates' = IF Usable(b)
                       THEN Pruned(candidates \cup {b}, sequence', tip)
                       ELSE candidates \ {b}
      /\ Goto(t, "activate")
      /\ UNCHANGED <<index, tip, locks, local>>

\* The node is stopped and started: LoadBlockIndex flags the descendants of
\* failed blocks and rebuilds the candidates, LoadChainTip prunes them, and the
\* import thread calls ActivateBestChain.
Restart(t) ==
  LET flagged == failedChild \cup {c \in known : ~Failed(c) /\ \E a \in Line[c] : Failed(a)}
      id == [b \in Blocks |-> 0]
  IN  /\ \A u \in Threads : pc[u] = "idle"
      /\ Call(t)
      /\ failedChild' = flagged
      /\ failedList' = {}
      /\ sequence' = id
      /\ counters' = [next |-> 1, reverse |-> -1, precious |-> 0]
      /\ candidates' = Pruned(data \ (failedValid \cup flagged), id, tip)
      /\ Goto(t, "activate")
      /\ UNCHANGED <<known, data, scripts, failedValid, tip, locks, local>>

-----------------------------------------------------------------------------

\* The steps a thread takes on its own.
Proceed(t) ==
  \/ LockChainstate(t) \/ LockMain(t) \/ DropCandidate(t) \/ BeginStep(t)
  \/ NothingToDo(t) \/ DisconnectTip(t) \/ ConnectTip(t) \/ InvalidBlockFound(t)
  \/ Again(t) \/ InvalidateTip(t) \/ MarkFailed(t)

Next ==
  \/ \E b \in Blocks : ProcessHeader(b)
  \/ \E t \in Threads :
       \/ Proceed(t) \/ Restart(t)
       \/ \E b \in Blocks :
            \/ StoreBlock(t, b) \/ IgnoreBlock(t, b) \/ RefuseBlock(t, b)
            \/ InvalidateBlock(t, b) \/ ReconsiderBlock(t, b) \/ PreciousBlock(t, b)

Spec == Init /\ [][Next]_vars

\* A thread that can go on does: mutexes are released, and the scheduler of the
\* system leaves no thread out.
FairSpec == Spec /\ \A t \in Threads : WF_vars(Proceed(t))

-----------------------------------------------------------------------------
(* Properties.                                                             *)

\* Every block on the way to b is there and none is flagged.
Eligible(b) == \A a \in Line[b] : Usable(a)

\* With no call under way the tip is the best of the chains that the node has
\* and has not found to be invalid, whatever was invalidated, reconsidered,
\* preferred or received while ActivateBestChain had given up cs_main.
TipIsBest ==
  (\A t \in Threads : pc[t] = "idle") => \A b \in known : Eligible(b) => ~Worse(tip, b)

\* No other thread ever sees a flagged block in the active chain.
ChainNotFailed == csMain = NoThread => \A b \in Line[tip] : ~Failed(b)

\* What CheckBlockIndex asserts of setBlockIndexCandidates and of the flags,
\* in every state another thread can see, but for those in the middle of
\* InvalidateBlock, which the comment there excuses; and what AcceptBlockHeader
\* asserts of m_failed_blocks, in all states.  Every variable has its type.
BlockIndexConsistent ==
  /\ TypeOK
  /\ csMain = NoThread /\ (\A t \in Threads : pc[t] # "walk") =>
       \A b \in known :
         LET blameless == Line[b] \cap failedValid = {}
         IN  /\ blameless => ~Failed(b)
             /\ b \in data /\ ~Worse(b, tip) /\ blameless => b \in candidates
             /\ b \in candidates => b \in data /\ ~Worse(b, tip)
  /\ failedList \subseteq failedValid

\* "We absolutely may not unlock cs_main until we've made forward progress":
\* a reorganisation that fails half way is never seen by another thread.
UnlockedWithProgress ==
  [][csMain # NoThread /\ csMain' = NoThread => ~Before(sequence, tip', local.start)]_vars

\* Every call returns.
CallsReturn == \A t \in Threads : pc[t] # "idle" ~> pc[t] = "idle"

\* "We only want to mark the last disconnected block as BLOCK_FAILED_VALID": of
\* the blocks that ConnectBlock accepts, none is flagged together with its parent.
OnlyLastFailedValid ==
  \A b \in Good \ {Genesis} : {b, Parent[b]} \subseteq failedValid => csChainstate # NoThread
=============================================================================
