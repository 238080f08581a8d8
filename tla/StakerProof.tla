---------------------------- MODULE StakerProof ----------------------------
(***************************************************************************)
(* Proofs about Staker, for any sets of wallets, HTTP workers and threads. *)
(***************************************************************************)
EXTENDS Staker, TLAPS

USE StakerAssumption

\* Positions at which an operation works on its wallet.
WalletPcs == {"add", "addGet", "addLock", "addJoin", "remove", "unloadRemove",
              "unloadInsert", "unloadFlag", "unloadNotify", "unloadReset",
              "unloadWait"}

\* A well-formed call: it names a wallet where it needs one, and the threads it
\* took out of the map are there only while it interrupts and joins them.
CallOK(r) == /\ r \in CallType
             /\ r.pc \in WalletPcs => r.w \in Wallets
             /\ r.join # {} => r.pc \in {"interrupt", "join"}

Typing == TypeOK /\ \A c \in Callers : CallOK(call[c])

\* Wallets, threads, callers and None are told apart.
LEMMA Disjoint ==
    /\ None \notin Threads \cup Callers \cup Wallets
    /\ Wallets \cap Callers = {} /\ Threads \cap Callers = {}
    /\ Main \in Callers /\ Workers \subseteq Callers /\ Main \notin Workers
BY DEF Callers

\* A caller without a call is well-formed.
LEMMA IdleCallOK == CallOK(IdleCall)
BY DEF CallOK, IdleCall, CallType, CallPcs, WalletPcs

\* A call that only has its references left to drop is well-formed.
LEMMA ReturningOK ==
    ASSUME NEW refs \in SUBSET Wallets
    PROVE  /\ CallOK([IdleCall EXCEPT !.pc = "return", !.refs = refs])
           /\ [IdleCall EXCEPT !.pc = "return", !.refs = refs].pc = "return"
<1> DEFINE r == [IdleCall EXCEPT !.pc = "return", !.refs = refs]
<1>1. IdleCall \in CallType /\ IdleCall.join = {}
  BY IdleCallOK DEF CallOK, IdleCall
<1>2. r \in CallType /\ r.pc = "return" /\ r.join = {}
  BY <1>1, Zenon DEF CallType, CallPcs
<1> HIDE DEF r
<1>3. CallOK(r) /\ r.pc = "return"
  BY <1>2 DEF CallOK, WalletPcs
<1> QED BY <1>3 DEF r

\* The mutex before and after a step in which caller c continues as r.
LockMove(c, r) ==
    \/ lock' = lock /\ call[c].pc # "addJoin" /\ r.pc # "addJoin"
    \/ lock' = lock /\ call[c].pc = r.pc
    \/ lock = None /\ lock' = c /\ r.pc = "addJoin"
    \/ call[c].pc = "addJoin" /\ lock' = None /\ r.pc # "addJoin"

\* TypeOK without the calls and the mutex.
DataOK ==
    /\ loaded \in SUBSET Wallets
    /\ object \in SUBSET Wallets
    /\ unloading \in SUBSET Wallets
    /\ enable \in SUBSET Wallets
    /\ unloadSet \in SUBSET Wallets
    /\ active \in BOOLEAN
    /\ argStaking \in BOOLEAN
    /\ stakers \in [Wallets -> Threads \cup {None}]
    /\ tpc \in [Threads -> ThreadPcs]
    /\ twallet \in [Threads -> Wallets \cup {None}]
    /\ subscribers \in SUBSET Threads
    /\ interrupt \in SUBSET Threads
    /\ phase \in Phases

\* A step of caller c keeps the typing if it leaves c's own call well-formed and
\* moves the mutex as c's position says.
LEMMA CallUpdate ==
    ASSUME Typing, NEW c \in Callers, NEW r, CallOK(r),
           call' = [call EXCEPT ![c] = r],
           LockMove(c, r), DataOK'
    PROVE  Typing'
<1>1. /\ call \in [Callers -> CallType]
      /\ lock \in Callers \cup {None}
      /\ \A d \in Callers : CallOK(call[d])
      /\ \A d \in Callers : lock = d <=> call[d].pc = "addJoin"
      /\ None \notin Callers
  BY DEF Typing, TypeOK, Callers
<1>2. /\ call'[c] = r
      /\ \A d \in Callers : d # c => call'[d] = call[d]
      /\ call' \in [Callers -> CallType]
  BY <1>1 DEF CallOK
<1>3. \A d \in Callers : CallOK(call'[d])
  BY <1>1, <1>2
<1>4. lock' \in Callers \cup {None}
  BY <1>1 DEF LockMove
<1>5. \A d \in Callers : lock' = d <=> call'[d].pc = "addJoin"
  BY <1>1, <1>2 DEF LockMove
<1> QED BY <1>2, <1>3, <1>4, <1>5 DEF Typing, TypeOK, DataOK

LEMMA TypeCall ==
    ASSUME Typing, NEW c \in Callers, CallStep(c)
    PROVE  Typing'
<1> DEFINE rc == call[c]
<1>a. /\ CallOK(rc) /\ TypeOK
      /\ call \in [Callers -> CallType]
  BY DEF Typing, TypeOK
<1> USE DEF OnlyCall, walletVars, threadVars, flagVars, At, Goto
<1>1. CASE ReleaseErase(c)
  <2> DEFINE r == [rc EXCEPT !.del = None]
  <2>1. CallOK(r) /\ call' = [call EXCEPT ![c] = r]
    BY <1>a, <1>1 DEF ReleaseErase, IdleCall, CallOK, CallType, CallPcs, WalletPcs, TypeOK
  <2>2. LockMove(c, r)
    BY <1>a, <1>1 DEF ReleaseErase, LockMove, IdleCall, CallOK, CallType
  <2>3. DataOK'
    BY <1>a, <1>1 DEF ReleaseErase, TypeOK, DataOK, CallOK, CallType, WalletPcs
  <2> QED BY <2>1, <2>2, <2>3, CallUpdate, Zenon
<1>2. CASE Return(c)
  <2> DEFINE r == IdleCall
  <2>1. CallOK(r) /\ call' = [call EXCEPT ![c] = r]
    BY <1>a, <1>2 DEF Return, IdleCall, CallOK, CallType, CallPcs, WalletPcs, TypeOK
  <2>2. LockMove(c, r)
    BY <1>a, <1>2 DEF Return, LockMove, IdleCall, CallOK, CallType
  <2>3. DataOK'
    BY <1>a, <1>2 DEF Return, TypeOK, DataOK, CallOK, CallType, WalletPcs
  <2> QED BY <2>1, <2>2, <2>3, CallUpdate, Zenon
<1>3. CASE UpdateStakeSetting(c)
  <2> DEFINE r == [IdleCall EXCEPT !.pc = "return", !.refs = rc.refs]
  <2>1. CallOK(r) /\ call' = [call EXCEPT ![c] = r]
    <3>1. CallOK(r)
      BY <1>a, ReturningOK, Zenon DEF CallOK, CallType
    <3>2. call' = [call EXCEPT ![c] = r]
      BY <1>3 DEF UpdateStakeSetting
    <3> QED BY <3>1, <3>2
  <2>2. LockMove(c, r)
    BY <1>a, <1>3 DEF UpdateStakeSetting, LockMove, IdleCall, CallOK, CallType
  <2>3. DataOK'
    BY <1>a, <1>3 DEF UpdateStakeSetting, TypeOK, DataOK, CallOK, CallType, WalletPcs
  <2> QED BY <2>1, <2>2, <2>3, CallUpdate, Zenon
<1>4. CASE AddCheckActive(c)
  <2> DEFINE r == [rc EXCEPT !.pc = IF active THEN "addGet" ELSE "launch"]
  <2>1. CallOK(r) /\ call' = [call EXCEPT ![c] = r]
    BY <1>a, <1>4 DEF AddCheckActive, IdleCall, CallOK, CallType, CallPcs, WalletPcs, TypeOK
  <2>2. LockMove(c, r)
    BY <1>a, <1>4 DEF AddCheckActive, LockMove, IdleCall, CallOK, CallType
  <2>3. DataOK'
    BY <1>a, <1>4 DEF AddCheckActive, TypeOK, DataOK, CallOK, CallType, WalletPcs
  <2> QED BY <2>1, <2>2, <2>3, CallUpdate, Zenon
<1>5. CASE AddAlreadyStaking(c)
  <2> DEFINE r == [rc EXCEPT !.pc = "launch"]
  <2>1. CallOK(r) /\ call' = [call EXCEPT ![c] = r]
    BY <1>a, <1>5 DEF AddAlreadyStaking, IdleCall, CallOK, CallType, CallPcs, WalletPcs, TypeOK
  <2>2. LockMove(c, r)
    BY <1>a, <1>5 DEF AddAlreadyStaking, LockMove, IdleCall, CallOK, CallType
  <2>3. DataOK'
    BY <1>a, <1>5 DEF AddAlreadyStaking, TypeOK, DataOK, CallOK, CallType, WalletPcs
  <2> QED BY <2>1, <2>2, <2>3, CallUpdate, Zenon
<1>6. CASE AddReap(c)
  <2> DEFINE r == [rc EXCEPT !.pc = "addJoin"]
  <2>1. CallOK(r) /\ call' = [call EXCEPT ![c] = r]
    BY <1>a, <1>6 DEF AddReap, IdleCall, CallOK, CallType, CallPcs, WalletPcs, TypeOK
  <2>2. LockMove(c, r)
    BY <1>a, <1>6 DEF AddReap, LockMove, IdleCall, CallOK, CallType
  <2>3. DataOK'
    BY <1>a, <1>6 DEF AddReap, TypeOK, DataOK, CallOK, CallType, WalletPcs
  <2> QED BY <2>1, <2>2, <2>3, CallUpdate, Zenon
<1>7. CASE AddReplace(c)
  <2> DEFINE r == [rc EXCEPT !.pc = "launch"]
  <2>1. CallOK(r) /\ call' = [call EXCEPT ![c] = r]
    BY <1>a, <1>7 DEF AddReplace, IdleCall, CallOK, CallType, CallPcs, WalletPcs, TypeOK, Spawn
  <2>2. LockMove(c, r)
    BY <1>a, <1>7 DEF AddReplace, LockMove, IdleCall, CallOK, CallType, Spawn, Unlock
  <2>3. DataOK'
    <3> DEFINE w == rc.w
               t == stakers[w]
    <3>1. w \in Wallets /\ t \in Threads \cup {None}
      BY <1>a, <1>7 DEF AddReplace, TypeOK, CallOK, CallType, WalletPcs
    <3>2. /\ tpc' = [tpc EXCEPT ![t] = "start"]
          /\ twallet' = [twallet EXCEPT ![t] = w]
          /\ interrupt' = interrupt \ {t}
          /\ stakers' = [stakers EXCEPT ![w] = t]
          /\ UNCHANGED <<loaded, object, unloading, enable, unloadSet, active, argStaking,
                         subscribers, phase>>
      BY <1>7 DEF AddReplace, Spawn
    <3> HIDE DEF w, t
    <3>3. stakers' \in [Wallets -> Threads \cup {None}]
      BY <1>a, <3>1, <3>2 DEF TypeOK
    <3>4. tpc' \in [Threads -> ThreadPcs]
      BY <1>a, <3>1, <3>2, Zenon DEF TypeOK, ThreadPcs
    <3>5. twallet' \in [Threads -> Wallets \cup {None}]
      BY <1>a, <3>1, <3>2, Zenon DEF TypeOK
    <3> QED BY <1>a, <3>2, <3>3, <3>4, <3>5 DEF TypeOK, DataOK
  <2> QED BY <2>1, <2>2, <2>3, CallUpdate, Zenon
<1>8. CASE InterruptTaken(c)
  <2> DEFINE r == [rc EXCEPT !.pc = "join"]
  <2>1. CallOK(r) /\ call' = [call EXCEPT ![c] = r]
    BY <1>a, <1>8 DEF InterruptTaken, IdleCall, CallOK, CallType, CallPcs, WalletPcs, TypeOK
  <2>2. LockMove(c, r)
    BY <1>a, <1>8 DEF InterruptTaken, LockMove, IdleCall, CallOK, CallType
  <2>3. DataOK'
    BY <1>a, <1>8 DEF InterruptTaken, TypeOK, DataOK, CallOK, CallType, WalletPcs
  <2> QED BY <2>1, <2>2, <2>3, CallUpdate, Zenon
<1>9. CASE SetStakingActive(c)
  <2> DEFINE r == [rc EXCEPT !.pc = IF active = rc.on THEN StartOrStop(c) ELSE "setArg"]
  <2>1. CallOK(r) /\ call' = [call EXCEPT ![c] = r]
    <3>1. r.pc \in {"start", "stop", "setArg"} /\ r = [rc EXCEPT !.pc = r.pc]
      BY <1>a DEF StartOrStop, CallOK, CallType
    <3>2. rc.pc \notin {"interrupt", "join"}
      BY <1>9 DEF SetStakingActive
    <3>3. CallOK(r)
      BY <1>a, <3>1, <3>2 DEF CallOK, CallType, CallPcs, WalletPcs
    <3>4. call' = [call EXCEPT ![c] = r]
      BY <1>a, <1>9 DEF SetStakingActive
    <3> QED BY <3>3, <3>4
  <2>2. LockMove(c, r)
    BY <1>a, <1>9 DEF SetStakingActive, LockMove, IdleCall, CallOK, CallType, StartOrStop
  <2>3. DataOK'
    BY <1>a, <1>9 DEF SetStakingActive, TypeOK, DataOK, CallOK, CallType, WalletPcs
  <2> QED BY <2>1, <2>2, <2>3, CallUpdate, Zenon
<1>10. CASE SetStakingArg(c)
  <2> DEFINE r == [rc EXCEPT !.pc = StartOrStop(c)]
  <2>1. CallOK(r) /\ call' = [call EXCEPT ![c] = r]
    <3>1. StartOrStop(c) \in {"start", "stop"}
      BY DEF StartOrStop
    <3>2. CallOK(r)
      BY <1>a, <1>10, <3>1 DEF SetStakingArg, CallOK, CallType, CallPcs, WalletPcs
    <3>3. call' = [call EXCEPT ![c] = r]
      BY <1>a, <1>10 DEF SetStakingArg
    <3> QED BY <3>2, <3>3
  <2>2. LockMove(c, r)
    BY <1>a, <1>10 DEF SetStakingArg, LockMove, IdleCall, CallOK, CallType, StartOrStop
  <2>3. DataOK'
    BY <1>a, <1>10 DEF SetStakingArg, TypeOK, DataOK, CallOK, CallType, WalletPcs
  <2> QED BY <2>1, <2>2, <2>3, CallUpdate, Zenon
<1>11. CASE Start(c)
  <2> DEFINE r == [rc EXCEPT !.pc = IF active THEN "initWallets" ELSE "launch"]
  <2>1. CallOK(r) /\ call' = [call EXCEPT ![c] = r]
    BY <1>a, <1>11 DEF Start, IdleCall, CallOK, CallType, CallPcs, WalletPcs, TypeOK
  <2>2. LockMove(c, r)
    BY <1>a, <1>11 DEF Start, LockMove, IdleCall, CallOK, CallType
  <2>3. DataOK'
    BY <1>a, <1>11 DEF Start, TypeOK, DataOK, CallOK, CallType, WalletPcs
  <2> QED BY <2>1, <2>2, <2>3, CallUpdate, Zenon
<1>12. CASE InitWallets(c)
  <2> DEFINE r == [rc EXCEPT !.pc = "launchAll"]
  <2>1. CallOK(r) /\ call' = [call EXCEPT ![c] = r]
    BY <1>a, <1>12 DEF InitWallets, IdleCall, CallOK, CallType, CallPcs, WalletPcs, TypeOK
  <2>2. LockMove(c, r)
    BY <1>a, <1>12 DEF InitWallets, LockMove, IdleCall, CallOK, CallType
  <2>3. DataOK'
    BY <1>a, <1>12 DEF InitWallets, TypeOK, DataOK, CallOK, CallType, WalletPcs
  <2> QED BY <2>1, <2>2, <2>3, CallUpdate, Zenon
<1>13. CASE LaunchStakingThreads(c)
  <2> DEFINE r == [rc EXCEPT !.refs = @ \cup loaded, !.todo = loaded, !.pc = "launch"]
  <2>1. CallOK(r) /\ call' = [call EXCEPT ![c] = r]
    BY <1>a, <1>13 DEF LaunchStakingThreads, IdleCall, CallOK, CallType, CallPcs, WalletPcs, TypeOK
  <2>2. LockMove(c, r)
    BY <1>a, <1>13 DEF LaunchStakingThreads, LockMove, IdleCall, CallOK, CallType
  <2>3. DataOK'
    BY <1>a, <1>13 DEF LaunchStakingThreads, TypeOK, DataOK, CallOK, CallType, WalletPcs
  <2> QED BY <2>1, <2>2, <2>3, CallUpdate, Zenon
<1>14. CASE RemoveWallet(c)
  <2> DEFINE r == [rc EXCEPT !.pc = IF rc.w \in loaded THEN "unloadInsert" ELSE "return"]
  <2>1. CallOK(r) /\ call' = [call EXCEPT ![c] = r]
    BY <1>a, <1>14 DEF RemoveWallet, IdleCall, CallOK, CallType, CallPcs, WalletPcs, TypeOK
  <2>2. LockMove(c, r)
    BY <1>a, <1>14 DEF RemoveWallet, LockMove, IdleCall, CallOK, CallType
  <2>3. DataOK'
    BY <1>a, <1>14 DEF RemoveWallet, TypeOK, DataOK, CallOK, CallType, WalletPcs
  <2> QED BY <2>1, <2>2, <2>3, CallUpdate, Zenon
<1>15. CASE UnloadInsert(c)
  <2> DEFINE r == [rc EXCEPT !.pc = "unloadFlag"]
  <2>1. CallOK(r) /\ call' = [call EXCEPT ![c] = r]
    BY <1>a, <1>15 DEF UnloadInsert, IdleCall, CallOK, CallType, CallPcs, WalletPcs, TypeOK
  <2>2. LockMove(c, r)
    BY <1>a, <1>15 DEF UnloadInsert, LockMove, IdleCall, CallOK, CallType
  <2>3. DataOK'
    BY <1>a, <1>15 DEF UnloadInsert, TypeOK, DataOK, CallOK, CallType, WalletPcs
  <2> QED BY <2>1, <2>2, <2>3, CallUpdate, Zenon
<1>16. CASE UnloadFlag(c)
  <2> DEFINE r == [rc EXCEPT !.pc = "unloadNotify"]
  <2>1. CallOK(r) /\ call' = [call EXCEPT ![c] = r]
    BY <1>a, <1>16 DEF UnloadFlag, IdleCall, CallOK, CallType, CallPcs, WalletPcs, TypeOK
  <2>2. LockMove(c, r)
    BY <1>a, <1>16 DEF UnloadFlag, LockMove, IdleCall, CallOK, CallType
  <2>3. DataOK'
    BY <1>a, <1>16 DEF UnloadFlag, TypeOK, DataOK, CallOK, CallType, WalletPcs
  <2> QED BY <2>1, <2>2, <2>3, CallUpdate, Zenon
<1>17. CASE UnloadNotify(c)
  <2> DEFINE r == [rc EXCEPT !.pc = "unloadReset"]
  <2>1. CallOK(r) /\ call' = [call EXCEPT ![c] = r]
    BY <1>a, <1>17 DEF UnloadNotify, IdleCall, CallOK, CallType, CallPcs, WalletPcs, TypeOK
  <2>2. LockMove(c, r)
    BY <1>a, <1>17 DEF UnloadNotify, LockMove, IdleCall, CallOK, CallType
  <2>3. DataOK'
    BY <1>a, <1>17 DEF UnloadNotify, TypeOK, DataOK, CallOK, CallType, WalletPcs
  <2> QED BY <2>1, <2>2, <2>3, CallUpdate, Zenon
<1>18. CASE UnloadWait(c)
  <2> DEFINE r == [rc EXCEPT !.pc = "return"]
  <2>1. CallOK(r) /\ call' = [call EXCEPT ![c] = r]
    BY <1>a, <1>18 DEF UnloadWait, IdleCall, CallOK, CallType, CallPcs, WalletPcs, TypeOK
  <2>2. LockMove(c, r)
    BY <1>a, <1>18 DEF UnloadWait, LockMove, IdleCall, CallOK, CallType
  <2>3. DataOK'
    BY <1>a, <1>18 DEF UnloadWait, TypeOK, DataOK, CallOK, CallType, WalletPcs
  <2> QED BY <2>1, <2>2, <2>3, CallUpdate, Zenon
<1>19. CASE ReturnDrop(c)
  <2>1. PICK w \in rc.refs :
          DropRef(c, w, IF rc.refs \ {w} = {} THEN IdleCall
                        ELSE [IdleCall EXCEPT !.pc = "return", !.refs = rc.refs \ {w}])
    BY <1>19, Zenon DEF ReturnDrop
  <2> DEFINE q == IF rc.refs \ {w} = {} THEN IdleCall
                  ELSE [IdleCall EXCEPT !.pc = "return", !.refs = rc.refs \ {w}]
             r == [q EXCEPT !.del = IF LastRef(w, c) THEN w ELSE None]
  <2>2. CallOK(q) /\ q.pc # "addJoin" /\ w \in Wallets
    <3>1. w \in Wallets /\ rc.refs \ {w} \in SUBSET Wallets
      BY <1>a, <2>1 DEF CallOK, CallType
    <3>2. CASE rc.refs \ {w} = {}
      BY <3>1, <3>2, IdleCallOK DEF IdleCall
    <3>3. CASE rc.refs \ {w} # {}
      BY <3>1, <3>3, ReturningOK, Zenon
    <3> QED BY <3>2, <3>3
  <2> HIDE DEF q
  <2>3. CallOK(r) /\ r.pc = q.pc
    BY <2>2 DEF CallOK, CallType
  <2>4. call' = [call EXCEPT ![c] = r] /\ Release(w, c)
    BY <2>1 DEF DropRef, q
  <2> HIDE DEF r
  <2>5. LockMove(c, r)
    BY <1>19, <2>2, <2>3 DEF ReturnDrop, LockMove
  <2>6. DataOK'
    BY <1>a, <1>19, <2>4 DEF ReturnDrop, Release, TypeOK, DataOK
  <2> QED BY <2>3, <2>4, <2>5, <2>6, CallUpdate, Zenon
<1>20. CASE AddGetWallet(c)
  <2> DEFINE r == IF rc.w \in loaded /\ rc.w \in enable
                  THEN [rc EXCEPT !.refs = @ \cup {rc.w}, !.pc = "addLock"]
                  ELSE [rc EXCEPT !.pc = "launch"]
  <2>1. CallOK(r) /\ r.pc # "addJoin"
    BY <1>a, <1>20 DEF AddGetWallet, CallOK, CallType, CallPcs, WalletPcs
  <2>2. call' = [call EXCEPT ![c] = r]
    BY <1>a, <1>20, Zenon DEF AddGetWallet
  <2> HIDE DEF r
  <2>3. LockMove(c, r)
    BY <1>20, <2>1 DEF AddGetWallet, LockMove
  <2>4. DataOK'
    BY <1>a, <1>20 DEF AddGetWallet, TypeOK, DataOK
  <2> QED BY <2>1, <2>2, <2>3, <2>4, CallUpdate, Zenon
<1>21. ASSUME NEW t \in Threads, AddNew(c, t) PROVE Typing'
  <2> DEFINE r == [rc EXCEPT !.pc = "launch"]
  <2>1. CallOK(r) /\ call' = [call EXCEPT ![c] = r]
    BY <1>a, <1>21 DEF AddNew, Spawn, CallOK, CallType, CallPcs, WalletPcs
  <2>2. LockMove(c, r)
    BY <1>a, <1>21 DEF AddNew, LockMove, CallOK, CallType
  <2>3. DataOK'
    BY <1>a, <1>21, Zenon DEF AddNew, Spawn, TypeOK, DataOK, CallOK, CallType, ThreadPcs
  <2> QED BY <2>1, <2>2, <2>3, CallUpdate, Zenon
<1>22. CASE StakeWalletRemove(c)
  <2> DEFINE r == IF stakers[rc.w] = None THEN [rc EXCEPT !.pc = "launch"]
                  ELSE [rc EXCEPT !.join = {stakers[rc.w]}, !.pc = "interrupt"]
  <2>1. CallOK(r) /\ r.pc # "addJoin"
    BY <1>a, <1>22 DEF StakeWalletRemove, CallOK, CallType, CallPcs, WalletPcs, TypeOK
  <2>2. call' = [call EXCEPT ![c] = r]
    BY <1>a, <1>22, Zenon DEF StakeWalletRemove
  <2> HIDE DEF r
  <2>3. LockMove(c, r)
    BY <1>22, <2>1 DEF StakeWalletRemove, LockMove
  <2>4. DataOK'
    BY <1>a, <1>22 DEF StakeWalletRemove, TypeOK, DataOK
  <2> QED BY <2>1, <2>2, <2>3, <2>4, CallUpdate, Zenon
<1>23. CASE StopThreads(c)
  <2> DEFINE r == [rc EXCEPT !.join = Staked, !.pc = "interrupt"]
  <2>1. Staked \in SUBSET Threads
    BY <1>a DEF Staked, TypeOK
  <2>2. CallOK(r) /\ r.pc # "addJoin"
    BY <1>a, <1>23, <2>1 DEF StopThreads, CallOK, CallType, CallPcs, WalletPcs
  <2>3. call' = [call EXCEPT ![c] = r]
    BY <1>a, <1>23, Zenon DEF StopThreads
  <2> HIDE DEF r
  <2>4. LockMove(c, r)
    BY <1>23, <2>2 DEF StopThreads, LockMove
  <2>5. DataOK'
    BY <1>a, <1>23 DEF StopThreads, TypeOK, DataOK
  <2> QED BY <2>2, <2>3, <2>4, <2>5, CallUpdate, Zenon
<1>24. CASE JoinTaken(c)
  <2>1. CASE rc.join = {}
    <3> DEFINE r == [rc EXCEPT !.pc = "launch"]
    <3>1. CallOK(r) /\ call' = [call EXCEPT ![c] = r]
      BY <1>a, <1>24, <2>1 DEF JoinTaken, CallOK, CallType, CallPcs, WalletPcs
    <3>2. LockMove(c, r)
      BY <1>a, <1>24, <2>1 DEF JoinTaken, LockMove, CallOK, CallType
    <3>3. DataOK'
      BY <1>a, <1>24, <2>1 DEF JoinTaken, TypeOK, DataOK
    <3> QED BY <3>1, <3>2, <3>3, CallUpdate, Zenon
  <2>2. CASE rc.join # {}
    <3>1. PICK t \in rc.join :
            /\ tpc' = [tpc EXCEPT ![t] = "none"]
            /\ twallet' = [twallet EXCEPT ![t] = None]
            /\ interrupt' = interrupt \ {t}
            /\ call' = [call EXCEPT ![c].join = @ \ {t}]
      BY <1>24, <2>2 DEF JoinTaken
    <3> DEFINE r == [rc EXCEPT !.join = @ \ {t}]
    <3>2. CallOK(r) /\ call' = [call EXCEPT ![c] = r]
      BY <1>a, <1>24, <3>1 DEF JoinTaken, CallOK, CallType, CallPcs, WalletPcs
    <3>3. LockMove(c, r)
      BY <1>a, <1>24 DEF JoinTaken, LockMove, CallOK, CallType
    <3>4. DataOK'
      BY <1>a, <1>24, <3>1, Zenon DEF JoinTaken, TypeOK, DataOK, ThreadPcs
    <3> QED BY <3>2, <3>3, <3>4, CallUpdate, Zenon
  <2> QED BY <2>1, <2>2
<1>25. CASE LaunchNext(c)
  <2>1. PICK w \in rc.todo :
          call' = [call EXCEPT ![c].todo = @ \ {w}, ![c].w = w,
                               ![c].pc = IF Launched(w) THEN "add" ELSE "launch"]
    BY <1>25, Zenon DEF LaunchNext
  <2> DEFINE p == IF Launched(w) THEN "add" ELSE "launch"
             r == [rc EXCEPT !.todo = @ \ {w}, !.w = w, !.pc = p]
  <2>2. p \in {"add", "launch"}
    OBVIOUS
  <2>3. call' = [call EXCEPT ![c] = r]
    BY <1>a, <2>1, Zenon
  <2> HIDE DEF p
  <2>4. CallOK(r) /\ r.pc = p
    <3>1. rc.pc = "launch" /\ w \in Wallets
      BY <1>a, <1>25, <2>1 DEF LaunchNext, CallOK, CallType
    <3>2. r \in CallType /\ r.pc = p /\ r.w = w /\ r.join = rc.join
      BY <1>a, <2>2, <3>1, Zenon DEF CallOK, CallType, CallPcs
    <3> HIDE DEF r
    <3> QED BY <1>a, <2>2, <3>1, <3>2 DEF CallOK, WalletPcs
  <2> HIDE DEF r
  <2>5. LockMove(c, r)
    BY <1>25, <2>2, <2>4 DEF LaunchNext, LockMove
  <2>6. DataOK'
    BY <1>a, <1>25 DEF LaunchNext, TypeOK, DataOK
  <2> QED BY <2>3, <2>4, <2>5, <2>6, CallUpdate, Zenon
<1>26. CASE UnloadReset(c)
  <2> DEFINE q == [rc EXCEPT !.pc = "unloadWait", !.refs = {}]
             r == [q EXCEPT !.del = IF LastRef(rc.w, c) THEN rc.w ELSE None]
  <2>1. CallOK(q) /\ q.pc = "unloadWait" /\ rc.w \in Wallets
    BY <1>a, <1>26, Zenon DEF UnloadReset, CallOK, CallType, CallPcs, WalletPcs
  <2>2. call' = [call EXCEPT ![c] = r] /\ Release(rc.w, c)
    BY <1>26 DEF UnloadReset, DropRef
  <2> HIDE DEF q
  <2>3. CallOK(r) /\ r.pc = q.pc
    BY <2>1 DEF CallOK, CallType
  <2> HIDE DEF r
  <2>4. LockMove(c, r)
    BY <1>26, <2>1, <2>3 DEF UnloadReset, LockMove
  <2>5. DataOK'
    BY <1>a, <1>26, <2>2 DEF UnloadReset, Release, TypeOK, DataOK
  <2> QED BY <2>2, <2>3, <2>4, <2>5, CallUpdate, Zenon
<1> QED
  BY <1>1, <1>2, <1>3, <1>4, <1>5, <1>6, <1>7, <1>8, <1>9, <1>10, <1>11, <1>12,
     <1>13, <1>14, <1>15, <1>16, <1>17, <1>18, <1>19, <1>20, <1>21, <1>22, <1>23,
     <1>24, <1>25, <1>26 DEF CallStep, LockStep

\* A step that changes no call and not the mutex keeps the typing if it keeps the
\* data's types.
LEMMA CallsKept ==
    ASSUME Typing, call' = call, lock' = lock, DataOK'
    PROVE  Typing'
BY DEF Typing, TypeOK, DataOK

LEMMA TypeStutter == Typing /\ UNCHANGED vars => Typing'
<1> SUFFICES ASSUME Typing, UNCHANGED vars PROVE Typing'
  OBVIOUS
<1>1. DataOK' /\ call' = call /\ lock' = lock
  BY DEF Typing, TypeOK, DataOK, vars, walletVars, threadVars, flagVars
<1> QED BY <1>1, CallsKept

LEMMA TypeUnloadGet ==
    ASSUME Typing, NEW c \in Callers, NEW w \in Wallets, UnloadGet(c, w)
    PROVE  Typing'
<1> DEFINE r == [IdleCall EXCEPT !.pc = "unloadRemove", !.w = w, !.refs = {w}]
<1>1. CallOK(r) /\ r.pc = "unloadRemove"
  BY Zenon DEF IdleCall, CallOK, CallType, CallPcs, WalletPcs
<1>2. call' = [call EXCEPT ![c] = r]
  BY DEF UnloadGet
<1> HIDE DEF r
<1>3. LockMove(c, r)
  BY <1>1 DEF UnloadGet, LockMove, OnlyCall, At
<1>4. DataOK'
  BY DEF UnloadGet, OnlyCall, walletVars, threadVars, flagVars, Typing, TypeOK, DataOK
<1> QED BY <1>1, <1>2, <1>3, <1>4, CallUpdate, Zenon

LEMMA TypeNewCall ==
    ASSUME Typing, NEW c \in Callers, NewCall(c)
    PROVE  Typing'
<1> USE DEF OnlyCall, walletVars, threadVars, flagVars, At, RpcOpen
<1>a. TypeOK /\ call \in [Callers -> CallType]
  BY DEF Typing, TypeOK
<1>1. ASSUME NEW w \in Wallets, NEW on \in BOOLEAN, NEW opt \in LoadOptions,
             SetStaking(c, w, on, opt)
      PROVE  Typing'
  <2> DEFINE p == IF phase = "boot" THEN "launch" ELSE IF on THEN "add" ELSE "remove"
             r == [IdleCall EXCEPT !.pc = p, !.w = w, !.opt = opt, !.refs = {w}]
  <2>1. p \in {"launch", "add", "remove"}
    OBVIOUS
  <2>2. call' = [call EXCEPT ![c] = r]
    BY <1>1 DEF SetStaking
  <2> HIDE DEF p
  <2>3. CallOK(r) /\ r.pc = p
    BY <2>1, Zenon DEF IdleCall, CallOK, CallType, CallPcs, WalletPcs
  <2> HIDE DEF r
  <2>4. LockMove(c, r)
    BY <1>1, <2>1, <2>3 DEF SetStaking, LockMove
  <2>5. DataOK'
    BY <1>a, <1>1 DEF SetStaking, TypeOK, DataOK
  <2> QED BY <2>2, <2>3, <2>4, <2>5, CallUpdate, Zenon
<1>2. ASSUME NEW on \in BOOLEAN, SetNodeStaking(c, on)
      PROVE  Typing'
  <2> DEFINE r == [IdleCall EXCEPT !.pc = "setActive", !.on = on]
  <2>1. CallOK(r) /\ r.pc = "setActive"
    BY Zenon DEF IdleCall, CallOK, CallType, CallPcs, WalletPcs
  <2>2. DataOK'
    BY <1>a, <1>2 DEF SetNodeStaking, TypeOK, DataOK
  <2>3. CASE call' = [call EXCEPT ![c] = r]
    <3> HIDE DEF r
    <3>1. LockMove(c, r)
      BY <1>2, <2>1 DEF SetNodeStaking, LockMove
    <3> QED BY <2>1, <2>2, <2>3, <3>1, CallUpdate, Zenon
  <2>4. CASE call' = call
    BY <1>2, <2>2, <2>4, CallsKept DEF SetNodeStaking
  <2> QED BY <1>2, <2>3, <2>4 DEF SetNodeStaking
<1>3. ASSUME NEW w \in Wallets, LoadWallet(c, w)
      PROVE  Typing'
  <2>1. DataOK'
    BY <1>a, <1>3 DEF LoadWallet, TypeOK, DataOK
  <2> QED BY <1>3, <2>1, CallsKept DEF LoadWallet
<1>4. ASSUME NEW w \in Wallets, UnloadGet(c, w)
      PROVE  Typing'
  BY <1>4, TypeUnloadGet
<1> QED BY <1>1, <1>2, <1>3, <1>4 DEF NewCall

LEMMA TypeThread ==
    ASSUME Typing, NEW t \in Threads, ThreadStep(t)
    PROVE  Typing'
<1> USE DEF OnlyThread, Move, walletVars, flagVars, DataOK
<1>a. DataOK
  BY DEF Typing, TypeOK
<1>1. CASE ThreadConnect(t)
  BY <1>a, <1>1, CallsKept DEF ThreadConnect, ThreadPcs
<1>2. CASE ThreadCheckUnloading(t)
  BY <1>a, <1>2, CallsKept DEF ThreadCheckUnloading, ThreadPcs
<1>3. CASE MinerInit(t)
  BY <1>a, <1>3, CallsKept DEF MinerInit, ThreadPcs
<1>4. CASE MinerLoop(t)
  BY <1>a, <1>4, CallsKept DEF MinerLoop, ThreadPcs
<1>5. CASE MinerPassRests(t)
  BY <1>a, <1>5, CallsKept DEF MinerPassRests, ThreadPcs
<1>6. CASE MinerPassFails(t)
  BY <1>a, <1>6, CallsKept DEF MinerPassFails, ThreadPcs
<1>7. CASE MinerSleep(t)
  BY <1>a, <1>7, CallsKept DEF MinerSleep, ThreadPcs
<1>8. CASE ThreadReturn(t)
  BY <1>a, <1>8, CallsKept DEF ThreadReturn, Disconnect, ThreadPcs
<1>9. CASE ThreadRelease(t)
  <2>1. tpc' \in [Threads -> ThreadPcs]
    BY <1>a, <1>9 DEF ThreadRelease, ThreadPcs
  <2> QED BY <1>a, <1>9, <2>1, CallsKept DEF ThreadRelease, Release
<1>10. CASE ThreadErase(t)
  BY <1>a, <1>10, CallsKept DEF ThreadErase, ThreadPcs
<1> QED
  BY <1>1, <1>2, <1>3, <1>4, <1>5, <1>6, <1>7, <1>8, <1>9, <1>10 DEF ThreadStep

LEMMA TypeMain ==
    ASSUME Typing, Boot \/ RequestShutdown \/ ShutdownStep
    PROVE  Typing'
<1> USE DEF OnlyPhase, walletVars, flagVars, At, DataOK, Phases
<1>a. DataOK /\ Main \in Callers /\ Staked \in SUBSET Threads
  BY DEF Typing, TypeOK, Callers, Staked
<1>b. ASSUME NEW p \in {"initWallets", "stop"}, At(Main, "idle"),
             call' = [call EXCEPT ![Main] = [IdleCall EXCEPT !.pc = p]],
             lock' = lock, DataOK'
      PROVE  Typing'
  <2> DEFINE r == [IdleCall EXCEPT !.pc = p]
  <2>1. CallOK(r) /\ r.pc = p
    BY Zenon DEF IdleCall, CallOK, CallType, CallPcs, WalletPcs
  <2>2. call' = [call EXCEPT ![Main] = r]
    BY <1>b
  <2> HIDE DEF r
  <2>3. LockMove(Main, r)
    BY <1>b, <2>1 DEF LockMove
  <2> HIDE DEF DataOK
  <2> QED BY <1>a, <1>b, <2>1, <2>2, <2>3, CallUpdate, Zenon
<1>1. CASE Boot
  BY <1>a, <1>b, <1>1 DEF Boot
<1>2. CASE RequestShutdown
  BY <1>a, <1>2, CallsKept DEF RequestShutdown
<1>3. CASE InterruptHTTPServer
  BY <1>a, <1>3, CallsKept DEF InterruptHTTPServer
<1>4. CASE InterruptStakers
  BY <1>a, <1>4, CallsKept DEF InterruptStakers
<1>5. CASE StopHTTPServer
  BY <1>a, <1>b, <1>5 DEF StopHTTPServer
<1>6. CASE DestroyStakeman
  BY <1>a, <1>b, <1>6 DEF DestroyStakeman
<1>7. CASE StakemanGone
  BY <1>a, <1>7, CallsKept DEF StakemanGone
<1>8. CASE UnloadWallets
  BY <1>a, <1>8, TypeUnloadGet DEF UnloadWallets
<1> QED
  BY <1>1, <1>2, <1>3, <1>4, <1>5, <1>6, <1>7, <1>8 DEF ShutdownStep

LEMMA TypeInit == Init => Typing
<1> SUFFICES ASSUME Init PROVE Typing
  OBVIOUS
<1>1. DataOK
  BY DEF Init, DataOK, ThreadPcs, Phases
<1>2. \A c \in Callers : call[c] = IdleCall /\ lock # c
  BY DEF Init, Callers
<1>3. \A c \in Callers : CallOK(call[c]) /\ call[c].pc # "addJoin"
  BY <1>2, IdleCallOK DEF IdleCall
<1>4. call \in [Callers -> CallType] /\ lock \in Callers \cup {None}
  BY IdleCallOK DEF Init, CallOK
<1> QED BY <1>1, <1>2, <1>3, <1>4 DEF Typing, TypeOK, DataOK

LEMMA TypeNext == Typing /\ [Next]_vars => Typing'
<1> SUFFICES ASSUME Typing, [Next]_vars PROVE Typing'
  OBVIOUS
<1>1. CASE Next
  BY <1>1, TypeCall, TypeNewCall, TypeThread, TypeMain, TypeStutter DEF Next, Callers
<1>2. CASE UNCHANGED vars
  BY <1>2, TypeStutter
<1> QED BY <1>1, <1>2

\* Every variable always has its type, and the manager's mutex is held across
\* steps only by the StakeWalletAdd that joins the thread it replaces.
THEOREM TypeCorrect == Spec => []TypeOK
<1>1. Typing => TypeOK
  BY DEF Typing
<1> QED BY <1>1, TypeInit, TypeNext, PTL DEF Spec

-----------------------------------------------------------------------------
(* Who owns a staking thread: EveryThreadReachable, SubscribersHaveWallet  *)
(* and NoThreadOutlivesManager.                                            *)

\* The inductive form.  An entry's thread runs for the entry's wallet; a thread
\* taken out of the map is in no entry and in no other caller's list; a started
\* thread is in one or the other; and the entry a StakeWalletAdd is replacing
\* stays where it is while the mutex is held.
Reach ==
    /\ \A w \in Wallets : stakers[w] # None =>
         tpc[stakers[w]] # "none" /\ twallet[stakers[w]] = w
    /\ \A c \in Callers : \A t \in call[c].join :
         tpc[t] # "none" /\ \A w \in Wallets : stakers[w] # t
    /\ \A c, d \in Callers : c # d => call[c].join \cap call[d].join = {}
    /\ \A t \in Threads : tpc[t] # "none" =>
         (\E w \in Wallets : stakers[w] = t) \/ (\E c \in Callers : t \in call[c].join)
    /\ \A c \in Callers : call[c].pc = "addJoin" => stakers[call[c].w] # None

\* What a step that starts, takes and joins no thread leaves alone.
Frame ==
    /\ stakers' = stakers /\ twallet' = twallet
    /\ \A t \in Threads : tpc'[t] = "none" <=> tpc[t] = "none"
    /\ \A d \in Callers :
         /\ call'[d].join = call[d].join
         /\ call'[d].pc = "addJoin" => call[d].pc = "addJoin" /\ call'[d].w = call[d].w

LEMMA ReachFrame ==
    ASSUME Typing, Reach, Frame
    PROVE  Reach'
<1>a. /\ stakers \in [Wallets -> Threads \cup {None}]
      /\ \A d \in Callers : call[d].join \in SUBSET Threads
  BY DEF Typing, TypeOK, CallOK, CallType
<1>1. \A w \in Wallets : stakers'[w] # None =>
         tpc'[stakers'[w]] # "none" /\ twallet'[stakers'[w]] = w
  BY <1>a DEF Reach, Frame
<1>2. \A c \in Callers : \A t \in call'[c].join :
         tpc'[t] # "none" /\ \A w \in Wallets : stakers'[w] # t
  BY <1>a DEF Reach, Frame
<1>3. \A c, d \in Callers : c # d => call'[c].join \cap call'[d].join = {}
  BY DEF Reach, Frame
<1>4. \A t \in Threads : tpc'[t] # "none" =>
         (\E w \in Wallets : stakers'[w] = t) \/ (\E c \in Callers : t \in call'[c].join)
  BY DEF Reach, Frame
<1>5. \A c \in Callers : call'[c].pc = "addJoin" => stakers'[call'[c].w] # None
  BY DEF Reach, Frame
<1> QED BY <1>1, <1>2, <1>3, <1>4, <1>5 DEF Reach

\* A thread that was not in use is started for a wallet that has no entry.
LEMMA ReachStarted ==
    ASSUME Typing, Reach, NEW t \in Threads, NEW w \in Wallets,
           stakers[w] = None, tpc[t] = "none",
           \A v \in Wallets : stakers[v] # t,
           \A d \in Callers : t \notin call[d].join,
           stakers' = [stakers EXCEPT ![w] = t],
           tpc' = [tpc EXCEPT ![t] = "start"],
           twallet' = [twallet EXCEPT ![t] = w],
           \A d \in Callers : call'[d].join = call[d].join /\ call'[d].pc # "addJoin"
    PROVE  Reach'
<1>a. /\ stakers \in [Wallets -> Threads \cup {None}]
      /\ tpc \in [Threads -> ThreadPcs] /\ twallet \in [Threads -> Wallets \cup {None}]
      /\ \A d \in Callers : call[d].join \in SUBSET Threads
  BY DEF Typing, TypeOK, CallOK, CallType
<1>1. \A v \in Wallets : stakers'[v] # None =>
         tpc'[stakers'[v]] # "none" /\ twallet'[stakers'[v]] = v
  BY <1>a DEF Reach
<1>2. \A c \in Callers : \A u \in call'[c].join :
         tpc'[u] # "none" /\ \A v \in Wallets : stakers'[v] # u
  BY <1>a DEF Reach
<1>3. \A u \in Threads : tpc'[u] # "none" =>
         (\E v \in Wallets : stakers'[v] = u) \/ (\E c \in Callers : u \in call'[c].join)
  <2> SUFFICES ASSUME NEW u \in Threads, tpc'[u] # "none"
               PROVE  \/ \E v \in Wallets : stakers'[v] = u
                      \/ \E c \in Callers : u \in call'[c].join
    OBVIOUS
  <2>1. CASE u = t
    <3>1. stakers'[w] = u
      BY <1>a, <2>1
    <3> QED BY <3>1
  <2>2. CASE u # t
    <3>1. tpc[u] # "none"
      BY <1>a, <2>2
    <3>2. CASE \E v \in Wallets : stakers[v] = u
      <4>1. PICK v \in Wallets : stakers[v] = u
        BY <3>2
      <4>2. stakers'[v] = u
        BY <1>a, <4>1, Disjoint
      <4> QED BY <4>2
    <3>3. CASE \E c \in Callers : u \in call[c].join
      BY <3>3
    <3> QED BY <3>1, <3>2, <3>3 DEF Reach
  <2> QED BY <2>1, <2>2
<1> QED BY <1>1, <1>2, <1>3 DEF Reach

LEMMA ReachCall ==
    ASSUME Typing, Reach, NEW c \in Callers, CallStep(c)
    PROVE  Reach'
<1> USE DEF OnlyCall, walletVars, threadVars, flagVars, At, Goto
<1>a. /\ call \in [Callers -> CallType] /\ call[c] \in CallType
      /\ call[c].join # {} => call[c].pc \in {"interrupt", "join"}
      /\ call[c].pc \in WalletPcs => call[c].w \in Wallets
  BY DEF Typing, TypeOK, CallOK
<1>1. CASE ReleaseErase(c)
  BY <1>a, <1>1, ReachFrame DEF ReleaseErase, Frame, IdleCall, CallType
<1>2. CASE Return(c)
  <2>1. call[c].join = {} /\ call' = [call EXCEPT ![c] = IdleCall]
    BY <1>a, <1>2 DEF Return, At
  <2>2. call'[c].join = call[c].join /\ call'[c].pc = "idle"
    BY <1>a, <2>1 DEF IdleCall
  <2>3. \A d \in Callers \ {c} : call'[d] = call[d]
    BY <1>a, <2>1
  <2>4. Frame
    BY <1>2, <2>2, <2>3 DEF Return, Frame
  <2> QED BY <2>4, ReachFrame
<1>3. CASE UpdateStakeSetting(c)
  <2>1. /\ call[c].join = {}
        /\ call' = [call EXCEPT ![c] = [IdleCall EXCEPT !.pc = "return", !.refs = call[c].refs]]
    BY <1>a, <1>3 DEF UpdateStakeSetting, At
  <2>2. call'[c].join = call[c].join /\ call'[c].pc = "return"
    BY <1>a, <2>1 DEF IdleCall
  <2>3. \A d \in Callers \ {c} : call'[d] = call[d]
    BY <1>a, <2>1
  <2>4. Frame
    BY <1>3, <2>2, <2>3 DEF UpdateStakeSetting, Frame
  <2> QED BY <2>4, ReachFrame
<1>4. CASE AddCheckActive(c)
  BY <1>a, <1>4, ReachFrame DEF AddCheckActive, Frame, IdleCall, CallType
<1>5. CASE AddGetWallet(c)
  BY <1>a, <1>5, ReachFrame DEF AddGetWallet, Frame, IdleCall, CallType
<1>6. CASE AddAlreadyStaking(c)
  BY <1>a, <1>6, ReachFrame DEF AddAlreadyStaking, Frame, IdleCall, CallType
<1>7. CASE InterruptTaken(c)
  BY <1>a, <1>7, ReachFrame DEF InterruptTaken, Frame, IdleCall, CallType
<1>8. CASE SetStakingActive(c)
  BY <1>a, <1>8, ReachFrame DEF SetStakingActive, Frame, IdleCall, CallType, StartOrStop
<1>9. CASE SetStakingArg(c)
  BY <1>a, <1>9, ReachFrame DEF SetStakingArg, Frame, IdleCall, CallType, StartOrStop
<1>10. CASE Start(c)
  BY <1>a, <1>10, ReachFrame DEF Start, Frame, IdleCall, CallType
<1>11. CASE InitWallets(c)
  BY <1>a, <1>11, ReachFrame DEF InitWallets, Frame, IdleCall, CallType
<1>12. CASE LaunchStakingThreads(c)
  BY <1>a, <1>12, ReachFrame DEF LaunchStakingThreads, Frame, IdleCall, CallType
<1>13. CASE LaunchNext(c)
  BY <1>a, <1>13, ReachFrame DEF LaunchNext, Frame, IdleCall, CallType
<1>14. CASE RemoveWallet(c)
  BY <1>a, <1>14, ReachFrame DEF RemoveWallet, Frame, IdleCall, CallType
<1>15. CASE UnloadInsert(c)
  BY <1>a, <1>15, ReachFrame DEF UnloadInsert, Frame, IdleCall, CallType
<1>16. CASE UnloadFlag(c)
  BY <1>a, <1>16, ReachFrame DEF UnloadFlag, Frame, IdleCall, CallType
<1>17. CASE UnloadNotify(c)
  BY <1>a, <1>17, ReachFrame DEF UnloadNotify, Frame, IdleCall, CallType
<1>18. CASE UnloadReset(c)
  BY <1>a, <1>18, ReachFrame DEF UnloadReset, Frame, IdleCall, CallType, DropRef
<1>19. CASE UnloadWait(c)
  BY <1>a, <1>19, ReachFrame DEF UnloadWait, Frame, IdleCall, CallType
<1>20. CASE ReturnDrop(c)
  <2>1. PICK w \in call[c].refs :
          DropRef(c, w, IF call[c].refs \ {w} = {} THEN IdleCall
                        ELSE [IdleCall EXCEPT !.pc = "return", !.refs = call[c].refs \ {w}])
    BY <1>20, Zenon DEF ReturnDrop
  <2> DEFINE q == IF call[c].refs \ {w} = {} THEN IdleCall
                  ELSE [IdleCall EXCEPT !.pc = "return", !.refs = call[c].refs \ {w}]
             r == [q EXCEPT !.del = IF LastRef(w, c) THEN w ELSE None]
  <2>2. r.join = {} /\ r.pc # "addJoin"
    BY DEF IdleCall
  <2>3. call' = [call EXCEPT ![c] = r]
    BY <2>1 DEF DropRef
  <2> HIDE DEF r
  <2> QED BY <1>a, <1>20, <2>2, <2>3, ReachFrame, Zenon DEF ReturnDrop, Frame
<1>b. /\ stakers \in [Wallets -> Threads \cup {None}]
      /\ tpc \in [Threads -> ThreadPcs] /\ twallet \in [Threads -> Wallets \cup {None}]
      /\ \A d \in Callers : call[d].join \in SUBSET Threads
      /\ \A d \in Callers : call[d].pc = "addJoin" => call[d].w \in Wallets
      /\ \A d \in Callers : lock = d <=> call[d].pc = "addJoin"
      /\ None \notin Callers \cup Threads
  <2>1. None \notin Callers \cup Threads
    BY Disjoint
  <2>2. \A d \in Callers : CallOK(call[d]) /\ (lock = d <=> call[d].pc = "addJoin")
    BY DEF Typing, TypeOK
  <2> QED BY <2>1, <2>2 DEF Typing, TypeOK, CallOK, CallType, WalletPcs
<1>21. ASSUME NEW t \in Threads, AddNew(c, t) PROVE Reach'
  <2>1. /\ call[c].w \in Wallets /\ stakers[call[c].w] = None /\ tpc[t] = "none"
        /\ \A w \in Wallets : stakers[w] # t
        /\ \A d \in Callers : t \notin call[d].join /\ call[d].pc # "addJoin"
    BY <1>a, <1>b, <1>21 DEF AddNew, NoEntry, Reach, WalletPcs
  <2>2. /\ stakers' = [stakers EXCEPT ![call[c].w] = t]
        /\ tpc' = [tpc EXCEPT ![t] = "start"]
        /\ twallet' = [twallet EXCEPT ![t] = call[c].w]
        /\ \A d \in Callers : call'[d].join = call[d].join /\ call'[d].pc # "addJoin"
    BY <1>a, <1>21, <2>1 DEF AddNew, Spawn, CallType
  <2> QED BY <1>b, <2>1, <2>2, ReachStarted, Zenon
<1>22. CASE AddReap(c)
  <2>1. /\ stakers' = stakers /\ tpc' = tpc /\ twallet' = twallet
        /\ stakers[call[c].w] # None /\ call'[c].w = call[c].w
        /\ \A d \in Callers : call'[d].join = call[d].join /\ (d # c => call'[d] = call[d])
    BY <1>a, <1>22 DEF AddReap, CallType
  <2> QED BY <2>1 DEF Reach
<1>23. CASE AddReplace(c)
  <2> DEFINE t == stakers[call[c].w]
  <2>1. call[c].w \in Wallets /\ t \in Threads /\ tpc[t] = "exited" /\ twallet[t] = call[c].w
    BY <1>a, <1>b, <1>23 DEF AddReplace, Reach, WalletPcs
  <2>2. /\ stakers' = stakers /\ twallet' = twallet
        /\ tpc' = [tpc EXCEPT ![t] = "start"]
        /\ call' = [call EXCEPT ![c].pc = "launch"]
    BY <1>b, <1>23, <2>1 DEF AddReplace, Spawn
  <2> HIDE DEF t
  <2>3. Frame
    BY <1>a, <1>b, <2>1, <2>2 DEF Frame, CallType
  <2> QED BY <2>3, ReachFrame
<1>24. CASE StakeWalletRemove(c)
  <2>1. call[c].w \in Wallets /\ call[c].join = {} /\ \A d \in Callers : call[d].pc # "addJoin"
    BY <1>a, <1>b, <1>24 DEF StakeWalletRemove, WalletPcs
  <2>2. CASE stakers[call[c].w] = None
    BY <1>a, <1>24, <2>2, ReachFrame DEF StakeWalletRemove, Frame, CallType
  <2>3. CASE stakers[call[c].w] # None
    <3> DEFINE t == stakers[call[c].w]
    <3>1. /\ call'[c].join = {t} /\ stakers' = [stakers EXCEPT ![call[c].w] = None]
          /\ \A d \in Callers : call'[d].pc # "addJoin"
          /\ \A d \in Callers \ {c} : call'[d].join = call[d].join
          /\ tpc' = tpc /\ twallet' = twallet
      BY <1>a, <1>24, <2>1, <2>3 DEF StakeWalletRemove, CallType
    <3> HIDE DEF t
    <3>2. t = stakers[call[c].w] /\ t # None
      BY <2>3 DEF t
    <3> QED BY <1>b, <2>1, <3>1, <3>2 DEF Reach
  <2> QED BY <2>2, <2>3
<1>25. CASE StopThreads(c)
  <2>1. call[c].join = {} /\ \A d \in Callers : call[d].pc # "addJoin"
    BY <1>a, <1>b, <1>25 DEF StopThreads
  <2>2. /\ call'[c].join = Staked
        /\ \A w \in Wallets : stakers'[w] = None
        /\ \A d \in Callers : call'[d].pc # "addJoin"
        /\ \A d \in Callers \ {c} : call'[d].join = call[d].join
        /\ tpc' = tpc /\ twallet' = twallet
    BY <1>a, <1>25, <2>1 DEF StopThreads, CallType
  <2>3. \A t \in Threads : t \in Staked <=> \E w \in Wallets : stakers[w] = t
    BY <1>b DEF Staked
  <2>4. Staked \in SUBSET Threads
    BY <1>b DEF Staked
  <2> QED BY <1>b, <2>1, <2>2, <2>3, <2>4 DEF Reach
<1>26. CASE JoinTaken(c)
  <2>1. CASE call[c].join = {}
    BY <1>a, <1>26, <2>1, ReachFrame DEF JoinTaken, Frame, CallType
  <2>2. CASE call[c].join # {}
    <3>1. PICK t \in call[c].join :
            /\ tpc' = [tpc EXCEPT ![t] = "none"]
            /\ twallet' = [twallet EXCEPT ![t] = None]
            /\ call' = [call EXCEPT ![c].join = @ \ {t}]
      BY <1>26, <2>2 DEF JoinTaken
    <3>2. /\ stakers' = stakers
          /\ call'[c].join = call[c].join \ {t}
          /\ \A d \in Callers : call'[d].pc = call[d].pc /\ call'[d].w = call[d].w
          /\ \A d \in Callers \ {c} : call'[d].join = call[d].join
      BY <1>a, <1>26, <3>1 DEF JoinTaken, CallType
    <3>3. t \in Threads /\ \A w \in Wallets : stakers[w] # t
      BY <1>b DEF Reach
    <3> QED BY <1>b, <3>1, <3>2, <3>3 DEF Reach
  <2> QED BY <2>1, <2>2
<1> QED
  BY <1>1, <1>2, <1>3, <1>4, <1>5, <1>6, <1>7, <1>8, <1>9, <1>10, <1>11, <1>12,
     <1>13, <1>14, <1>15, <1>16, <1>17, <1>18, <1>19, <1>20, <1>21, <1>22, <1>23,
     <1>24, <1>25, <1>26 DEF CallStep, LockStep

LEMMA ReachNewCall ==
    ASSUME Typing, Reach, NEW c \in Callers, NewCall(c)
    PROVE  Reach'
<1> USE DEF OnlyCall, threadVars, At
<1>a. call \in [Callers -> CallType] /\ (call[c].pc = "idle" => call[c].join = {})
  BY DEF Typing, TypeOK, CallOK
<1>1. ASSUME NEW w \in Wallets, NEW on \in BOOLEAN, NEW opt \in LoadOptions,
             SetStaking(c, w, on, opt)
      PROVE  Frame
  BY <1>a, <1>1, Zenon DEF SetStaking, Frame, IdleCall
<1>2. ASSUME NEW on \in BOOLEAN, SetNodeStaking(c, on)
      PROVE  Frame
  <2>1. CASE UNCHANGED call
    BY <1>2, <2>1 DEF SetNodeStaking, Frame
  <2>2. CASE call' = [call EXCEPT ![c] = [IdleCall EXCEPT !.pc = "setActive", !.on = on]]
    <3>1. call'[c].join = {} /\ call'[c].pc = "setActive"
      BY <1>a, <2>2 DEF IdleCall
    <3>2. \A d \in Callers \ {c} : call'[d] = call[d]
      BY <1>a, <2>2
    <3>3. call[c].join = {}
      BY <1>a, <1>2 DEF SetNodeStaking
    <3> QED BY <1>2, <3>1, <3>2, <3>3, Zenon DEF SetNodeStaking, Frame
  <2> QED BY <1>2, <2>1, <2>2 DEF SetNodeStaking
<1>3. ASSUME NEW w \in Wallets, LoadWallet(c, w)
      PROVE  Frame
  BY <1>a, <1>3 DEF LoadWallet, Frame
<1>4. ASSUME NEW w \in Wallets, UnloadGet(c, w)
      PROVE  Frame
  BY <1>a, <1>4, Zenon DEF UnloadGet, Frame, IdleCall
<1> QED BY <1>1, <1>2, <1>3, <1>4, ReachFrame DEF NewCall

LEMMA ReachThread ==
    ASSUME Typing, Reach, NEW t \in Threads, ThreadStep(t)
    PROVE  Reach'
<1>1. /\ UNCHANGED <<call, stakers, twallet>>
      /\ tpc[t] # "none"
      /\ \E p \in ThreadPcs \ {"none"} : tpc' = [tpc EXCEPT ![t] = p]
  <2> USE DEF OnlyThread, Move, ThreadPcs
  <2>1. CASE ThreadConnect(t)
    BY <2>1, Zenon DEF ThreadConnect
  <2>2. CASE ThreadCheckUnloading(t)
    BY <2>2, Zenon DEF ThreadCheckUnloading
  <2>3. CASE MinerInit(t)
    BY <2>3 DEF MinerInit
  <2>4. CASE MinerLoop(t)
    BY <2>4 DEF MinerLoop
  <2>5. CASE MinerPassRests(t) \/ MinerPassFails(t)
    BY <2>5 DEF MinerPassRests, MinerPassFails
  <2>6. CASE MinerSleep(t)
    BY <2>6, Zenon DEF MinerSleep
  <2>7. CASE ThreadReturn(t)
    BY <2>7, Zenon DEF ThreadReturn
  <2>8. CASE ThreadRelease(t)
    BY <2>8, Zenon DEF ThreadRelease
  <2>9. CASE ThreadErase(t)
    BY <2>9, Zenon DEF ThreadErase
  <2> QED
    BY <2>1, <2>2, <2>3, <2>4, <2>5, <2>6, <2>7, <2>8, <2>9 DEF ThreadStep
<1>2. Frame
  BY <1>1 DEF Frame, Typing, TypeOK
<1> QED BY <1>2, ReachFrame

LEMMA ReachMain ==
    ASSUME Typing, Reach, Boot \/ RequestShutdown \/ ShutdownStep
    PROVE  Reach'
<1> USE DEF OnlyPhase, OnlyCall, threadVars, At, Frame
<1>a. /\ Main \in Callers /\ call \in [Callers -> CallType]
      /\ call[Main].pc = "idle" => call[Main].join = {}
  BY DEF Typing, TypeOK, CallOK, Callers
<1>1. CASE Boot
  BY <1>a, <1>1, ReachFrame, Zenon DEF Boot, IdleCall
<1>2. CASE RequestShutdown
  BY <1>2, ReachFrame DEF RequestShutdown
<1>3. CASE InterruptHTTPServer
  BY <1>3, ReachFrame DEF InterruptHTTPServer
<1>4. CASE InterruptStakers
  BY <1>4, ReachFrame DEF InterruptStakers
<1>5. CASE StopHTTPServer
  BY <1>a, <1>5, ReachFrame, Zenon DEF StopHTTPServer, IdleCall
<1>6. CASE DestroyStakeman
  BY <1>a, <1>6, ReachFrame, Zenon DEF DestroyStakeman, IdleCall
<1>7. CASE StakemanGone
  BY <1>7, ReachFrame DEF StakemanGone
<1>8. CASE UnloadWallets
  <2>1. PICK w \in Wallets : UnloadGet(Main, w)
    BY <1>8 DEF UnloadWallets
  <2> QED BY <1>a, <2>1, ReachFrame, Zenon DEF UnloadGet, IdleCall
<1> QED
  BY <1>1, <1>2, <1>3, <1>4, <1>5, <1>6, <1>7, <1>8 DEF ShutdownStep

LEMMA ReachInit == Init => Reach
<1> SUFFICES ASSUME Init PROVE Reach
  OBVIOUS
<1>1. \A c \in Callers : call[c].join = {} /\ call[c].pc # "addJoin"
  BY DEF Init, IdleCall
<1> QED BY <1>1 DEF Init, Reach

LEMMA ReachNext == Typing /\ Reach /\ [Next]_vars => Reach'
<1> SUFFICES ASSUME Typing, Reach, [Next]_vars PROVE Reach'
  OBVIOUS
<1>1. CASE UNCHANGED vars
  BY <1>1, ReachFrame DEF vars, threadVars, Frame
<1>2. CASE Next
  BY <1>1, <1>2, ReachCall, ReachNewCall, ReachThread, ReachMain DEF Next, Callers
<1> QED BY <1>1, <1>2

LEMMA ReachImplies == Typing /\ Reach => EveryThreadReachable
<1> SUFFICES ASSUME Typing, Reach, NEW t \in Threads
             PROVE  IF tpc[t] = "none" THEN Owners(t) = {}
                    ELSE \E o \in Wallets \cup Callers :
                           Owners(t) = {o} /\ (o \in Wallets => o = twallet[t])
  BY DEF EveryThreadReachable
<1>a. Wallets \cap Callers = {}
  BY Disjoint
<1>b. t # None
  BY Disjoint
<1>1. CASE tpc[t] = "none"
  BY <1>1, <1>b DEF Reach, Owners
<1>2. CASE tpc[t] # "none"
  <2>1. CASE \E w \in Wallets : stakers[w] = t
    <3>1. PICK w \in Wallets : stakers[w] = t
      BY <2>1
    <3>2. twallet[t] = w /\ \A v \in Wallets : stakers[v] = t => v = w
      BY <1>b, <3>1 DEF Reach
    <3>3. \A c \in Callers : t \notin call[c].join
      BY <3>1 DEF Reach
    <3>4. Owners(t) = {w}
      BY <3>1, <3>2, <3>3 DEF Owners
    <3> QED BY <1>2, <3>2, <3>4
  <2>2. CASE \E c \in Callers : t \in call[c].join
    <3>1. PICK c \in Callers : t \in call[c].join
      BY <2>2
    <3>2. \A w \in Wallets : stakers[w] # t
      BY <3>1 DEF Reach
    <3>3. \A d \in Callers : t \in call[d].join => d = c
      BY <3>1 DEF Reach
    <3>4. Owners(t) = {c}
      BY <3>1, <3>2, <3>3 DEF Owners
    <3> QED BY <1>a, <1>2, <3>4
  <2> QED BY <1>2, <2>1, <2>2 DEF Reach
<1> QED BY <1>1, <1>2

\* However StakeWalletAdd, StakeWalletRemove, StopThreads and the wallets'
\* lifecycles interleave, a staking thread that was started and not joined is
\* owned by exactly one map entry or one operation that is joining it.
THEOREM ThreadsReachable == Spec => []EveryThreadReachable
<1>1. Init => Typing /\ Reach
  BY TypeInit, ReachInit
<1>2. Typing /\ Reach /\ [Next]_vars => (Typing /\ Reach)'
  BY TypeNext, ReachNext
<1>3. Typing /\ Reach => EveryThreadReachable
  BY ReachImplies
<1> QED BY <1>1, <1>2, <1>3, PTL DEF Spec

-----------------------------------------------------------------------------
(***************************************************************************)
(* Lifetimes.                                                              *)
(***************************************************************************)

\* The inductive form: whoever holds a reference holds it to a wallet that
\* exists, a slot is connected only while its thread holds one, and a thread is
\* only started by a call that holds one.
Refs ==
    /\ loaded \subseteq object
    /\ \A c \in Callers : call[c].refs \subseteq object
    /\ \A c \in Callers : call[c].pc \in {"addLock", "addJoin"} => call[c].w \in call[c].refs
    /\ \A t \in Threads : tpc[t] \in HoldsRef => twallet[t] \in object
    /\ \A t \in subscribers : tpc[t] \in HoldsRef \ {"start", "finished"}

\* A step of caller c that deletes nothing and touches no thread.
LEMMA RefsKept ==
    ASSUME Refs, NEW c \in Callers,
           object \subseteq object', loaded' \subseteq object',
           UNCHANGED <<tpc, twallet, subscribers>>,
           \A d \in Callers \ {c} : call'[d] = call[d],
           call'[c].refs \subseteq call[c].refs \cup loaded,
           call'[c].pc \in {"addLock", "addJoin"} => call'[c].w \in call'[c].refs
    PROVE  Refs'
BY DEF Refs

\* A reference to w goes: w survives if it is loaded or someone else holds it.
LEMMA ReleaseKeeps ==
    ASSUME Typing, NEW w \in Wallets, NEW x, Release(w, x)
    PROVE  /\ \A v \in object : v # w \/ v \in loaded => v \in object'
           /\ \A c \in Callers : c # x /\ w \in call[c].refs /\ w \in object => w \in object'
           /\ \A t \in Threads : t # x /\ tpc[t] \in HoldsRef /\ twallet[t] = w /\ w \in object
                => w \in object'
BY DEF Release, LastRef, RefHolders

LEMMA RefsCall ==
    ASSUME Typing, Reach, Refs, NEW c \in Callers, CallStep(c)
    PROVE  Refs'
<1> USE DEF OnlyCall, walletVars, threadVars, flagVars, At, Goto
<1>a. /\ call \in [Callers -> CallType] /\ call[c] \in CallType
      /\ call[c].pc \in WalletPcs => call[c].w \in Wallets
      /\ loaded \subseteq object
      /\ call[c].pc \in {"addLock", "addJoin"} => call[c].w \in call[c].refs
  BY DEF Typing, TypeOK, CallOK, Refs
<1>1. CASE ReleaseErase(c)
  BY <1>a, <1>1, RefsKept DEF ReleaseErase, IdleCall, CallType
<1>2. CASE Return(c)
  BY <1>a, <1>2, RefsKept DEF Return, IdleCall, CallType
<1>3. CASE UpdateStakeSetting(c)
  BY <1>a, <1>3, RefsKept DEF UpdateStakeSetting, IdleCall, CallType
<1>4. CASE AddCheckActive(c)
  BY <1>a, <1>4, RefsKept DEF AddCheckActive, IdleCall, CallType
<1>5. CASE AddGetWallet(c)
  BY <1>a, <1>5, RefsKept DEF AddGetWallet, IdleCall, CallType
<1>6. CASE AddAlreadyStaking(c)
  BY <1>a, <1>6, RefsKept DEF AddAlreadyStaking, IdleCall, CallType
<1>7. CASE AddReap(c)
  BY <1>a, <1>7, RefsKept DEF AddReap, IdleCall, CallType
<1>8. CASE InterruptTaken(c)
  BY <1>a, <1>8, RefsKept DEF InterruptTaken, IdleCall, CallType
<1>9. CASE SetStakingActive(c)
  BY <1>a, <1>9, RefsKept DEF SetStakingActive, IdleCall, CallType, StartOrStop
<1>10. CASE SetStakingArg(c)
  BY <1>a, <1>10, RefsKept DEF SetStakingArg, IdleCall, CallType, StartOrStop
<1>11. CASE Start(c)
  BY <1>a, <1>11, RefsKept DEF Start, IdleCall, CallType
<1>12. CASE InitWallets(c)
  BY <1>a, <1>12, RefsKept DEF InitWallets, IdleCall, CallType
<1>13. CASE LaunchStakingThreads(c)
  BY <1>a, <1>13, RefsKept DEF LaunchStakingThreads, IdleCall, CallType
<1>14. CASE LaunchNext(c)
  BY <1>a, <1>14, RefsKept DEF LaunchNext, IdleCall, CallType
<1>15. CASE UnloadInsert(c)
  BY <1>a, <1>15, RefsKept DEF UnloadInsert, IdleCall, CallType
<1>16. CASE UnloadFlag(c)
  BY <1>a, <1>16, RefsKept DEF UnloadFlag, IdleCall, CallType
<1>17. CASE UnloadNotify(c)
  BY <1>a, <1>17, RefsKept DEF UnloadNotify, IdleCall, CallType
<1>18. CASE UnloadWait(c)
  BY <1>a, <1>18, RefsKept DEF UnloadWait, IdleCall, CallType
<1>19. CASE StakeWalletRemove(c)
  BY <1>a, <1>19, RefsKept DEF StakeWalletRemove, IdleCall, CallType
<1>20. CASE StopThreads(c)
  BY <1>a, <1>20, RefsKept DEF StopThreads, IdleCall, CallType
<1>21. CASE JoinTaken(c)
  <2>1. /\ object' = object /\ loaded' = loaded /\ subscribers' = subscribers
        /\ \A d \in Callers \ {c} : call'[d] = call[d]
        /\ call'[c].refs = call[c].refs /\ call'[c].pc \notin {"addLock", "addJoin"}
    BY <1>a, <1>21 DEF JoinTaken, CallType
  <2>2. CASE tpc' = tpc /\ twallet' = twallet
    BY <1>a, <2>1, <2>2, RefsKept
  <2>3. CASE \E t \in Threads : /\ tpc[t] = "exited"
                                /\ tpc' = [tpc EXCEPT ![t] = "none"]
                                /\ twallet' = [twallet EXCEPT ![t] = None]
    <3>1. PICK t \in Threads : /\ tpc[t] = "exited"
                               /\ tpc' = [tpc EXCEPT ![t] = "none"]
                               /\ twallet' = [twallet EXCEPT ![t] = None]
      BY <2>3, Zenon
    <3>2. /\ \A u \in Threads : u # t => tpc'[u] = tpc[u] /\ twallet'[u] = twallet[u]
          /\ tpc'[t] \notin HoldsRef /\ t \notin subscribers
      BY <3>1 DEF Typing, TypeOK, HoldsRef, Refs
    <3>3. subscribers \subseteq Threads
      BY DEF Typing, TypeOK
    <3> QED BY <2>1, <3>2, <3>3 DEF Refs
  <2> QED BY <1>a, <1>21, <2>2, <2>3 DEF JoinTaken, CallType
<1>22. CASE RemoveWallet(c)
  BY <1>a, <1>22, RefsKept DEF RemoveWallet, CallType
<1>23. ASSUME NEW t \in Threads, call[c].pc \in {"addLock", "addJoin"}, Spawn(c, t),
              tpc[t] \in {"none", "exited"},
              object' = object, loaded' = loaded, subscribers' = subscribers
       PROVE  Refs'
  <2>1. call[c].w \in object
    BY <1>a, <1>23 DEF Refs
  <2>2. /\ \A u \in Threads : u # t => tpc'[u] = tpc[u] /\ twallet'[u] = twallet[u]
        /\ twallet'[t] = call[c].w /\ t \notin subscribers
    BY <1>23 DEF Spawn, Typing, TypeOK, HoldsRef, Refs
  <2>3. /\ \A d \in Callers \ {c} : call'[d] = call[d]
        /\ call'[c].refs = call[c].refs /\ call'[c].pc = "launch"
    BY <1>a, <1>23 DEF Spawn, CallType
  <2>4. subscribers \subseteq Threads
    BY DEF Typing, TypeOK
  <2>5. tpc'[t] \notin HoldsRef \/ twallet'[t] \in object
    BY <2>1, <2>2
  <2>6. \A u \in Threads : tpc'[u] \in HoldsRef => twallet'[u] \in object'
    BY <1>23, <2>2, <2>5 DEF Refs
  <2>7. \A u \in subscribers' : tpc'[u] \in HoldsRef \ {"start", "finished"}
    BY <1>23, <2>2, <2>4 DEF Refs
  <2>8. \A d \in Callers : call'[d].refs \subseteq object'
    BY <1>23, <2>3 DEF Refs
  <2>9. \A d \in Callers : call'[d].pc \in {"addLock", "addJoin"} => call'[d].w \in call'[d].refs
    BY <2>3 DEF Refs
  <2>10. loaded' \subseteq object'
    BY <1>23 DEF Refs
  <2> QED BY ONLY <2>6, <2>7, <2>8, <2>9, <2>10 DEF Refs
<1>24. ASSUME NEW t \in Threads, AddNew(c, t) PROVE Refs'
  BY <1>23, <1>24 DEF AddNew
<1>25. CASE AddReplace(c)
  <2> DEFINE t == stakers[call[c].w]
  <2>0. call[c].pc = "addJoin" /\ call[c].w \in Wallets
    BY <1>a, <1>25 DEF AddReplace, At, WalletPcs
  <2>1. t \in Threads
    BY <2>0 DEF Typing, TypeOK, Reach
  <2> QED BY <1>23, <1>25, <2>1 DEF AddReplace
<1>26. ASSUME NEW w \in Wallets, Release(w, c), w \notin call'[c].refs,
              UNCHANGED <<loaded, tpc, twallet, subscribers>>,
              \A d \in Callers \ {c} : call'[d] = call[d],
              call'[c].refs \subseteq call[c].refs,
              call'[c].pc \notin {"addLock", "addJoin"}
       PROVE  Refs'
  <2>1. c \notin Threads
    BY Disjoint
  <2>2. loaded' \subseteq object'
    BY <1>26, ReleaseKeeps DEF Refs
  <2>3. \A d \in Callers : call'[d].refs \subseteq object'
    BY <1>26, ReleaseKeeps DEF Refs
  <2>4. \A t \in Threads : tpc'[t] \in HoldsRef => twallet'[t] \in object'
    BY <1>26, <2>1, ReleaseKeeps DEF Refs
  <2> QED BY <1>26, <2>2, <2>3, <2>4 DEF Refs
<1>27. CASE ReturnDrop(c)
  <2>1. PICK w \in call[c].refs :
          DropRef(c, w, IF call[c].refs \ {w} = {} THEN IdleCall
                        ELSE [IdleCall EXCEPT !.pc = "return", !.refs = call[c].refs \ {w}])
    BY <1>27, Zenon DEF ReturnDrop
  <2> DEFINE q == IF call[c].refs \ {w} = {} THEN IdleCall
                  ELSE [IdleCall EXCEPT !.pc = "return", !.refs = call[c].refs \ {w}]
             r == [q EXCEPT !.del = IF LastRef(w, c) THEN w ELSE None]
  <2>2. r.refs = call[c].refs \ {w} /\ r.pc \notin {"addLock", "addJoin"}
    BY DEF IdleCall
  <2>3. call' = [call EXCEPT ![c] = r] /\ Release(w, c)
    BY <2>1 DEF DropRef
  <2> HIDE DEF r
  <2>4. w \in Wallets
    BY <1>a, <2>1 DEF CallType
  <2> QED BY <1>a, <1>26, <1>27, <2>2, <2>3, <2>4 DEF ReturnDrop
<1>28. CASE UnloadReset(c)
  <2> DEFINE q == [call[c] EXCEPT !.pc = "unloadWait", !.refs = {}]
             r == [q EXCEPT !.del = IF LastRef(call[c].w, c) THEN call[c].w ELSE None]
  <2>1. r.refs = {} /\ r.pc = "unloadWait"
    BY <1>a DEF CallType
  <2>2. call' = [call EXCEPT ![c] = r] /\ Release(call[c].w, c)
    BY <1>28 DEF UnloadReset, DropRef
  <2> HIDE DEF r
  <2>3. call[c].w \in Wallets
    BY <1>a, <1>28 DEF UnloadReset, WalletPcs
  <2> QED BY <1>a, <1>26, <1>28, <2>1, <2>2, <2>3 DEF UnloadReset
<1> QED
  BY <1>1, <1>2, <1>3, <1>4, <1>5, <1>6, <1>7, <1>8, <1>9, <1>10, <1>11, <1>12,
     <1>13, <1>14, <1>15, <1>16, <1>17, <1>18, <1>19, <1>20, <1>21, <1>22,
     <1>24, <1>25, <1>27, <1>28 DEF CallStep, LockStep

LEMMA RefsNewCall ==
    ASSUME Typing, Refs, NEW c \in Callers, NewCall(c)
    PROVE  Refs'
<1> USE DEF OnlyCall, walletVars, threadVars, At
<1>a. call \in [Callers -> CallType] /\ loaded \subseteq object
  BY DEF Typing, TypeOK, Refs
<1>1. ASSUME NEW w \in Wallets, NEW on \in BOOLEAN, NEW opt \in LoadOptions,
             SetStaking(c, w, on, opt)
      PROVE  Refs'
  BY <1>a, <1>1, RefsKept DEF SetStaking, IdleCall
<1>2. ASSUME NEW on \in BOOLEAN, SetNodeStaking(c, on)
      PROVE  Refs'
  <2>1. CASE call' = call
    BY <1>a, <1>2, <2>1 DEF SetNodeStaking, Refs
  <2>2. CASE call' = [call EXCEPT ![c] = [IdleCall EXCEPT !.pc = "setActive", !.on = on]]
    BY <1>a, <1>2, <2>2, RefsKept DEF SetNodeStaking, IdleCall
  <2> QED BY <1>2, <2>1, <2>2 DEF SetNodeStaking
<1>3. ASSUME NEW w \in Wallets, LoadWallet(c, w)
      PROVE  Refs'
  BY <1>a, <1>3, RefsKept DEF LoadWallet
<1>4. ASSUME NEW w \in Wallets, UnloadGet(c, w)
      PROVE  Refs'
  BY <1>a, <1>4, RefsKept DEF UnloadGet, IdleCall
<1> QED BY <1>1, <1>2, <1>3, <1>4 DEF NewCall

LEMMA RefsThread ==
    ASSUME Typing, Refs, NEW t \in Threads, ThreadStep(t)
    PROVE  Refs'
<1> USE DEF OnlyThread, Move, walletVars
<1>a. /\ tpc \in [Threads -> ThreadPcs] /\ subscribers \subseteq Threads
      /\ twallet \in [Threads -> Wallets \cup {None}]
  BY DEF Typing, TypeOK
\* Steps on which the thread keeps its reference and its slot.
<1>b. ASSUME UNCHANGED <<loaded, object, twallet, call, subscribers>>,
             tpc[t] \in HoldsRef \ {"start", "finished"},
             \E p \in HoldsRef \ {"start", "finished"} : tpc' = [tpc EXCEPT ![t] = p]
      PROVE  Refs'
  BY <1>a, <1>b DEF Refs
<1>1. CASE ThreadConnect(t)
  BY <1>a, <1>1 DEF ThreadConnect, Refs, HoldsRef
<1>2. CASE ThreadCheckUnloading(t)
  BY <1>b, <1>2, Zenon DEF ThreadCheckUnloading, HoldsRef
<1>3. CASE MinerInit(t)
  BY <1>b, <1>3 DEF MinerInit, HoldsRef
<1>4. CASE MinerLoop(t)
  BY <1>b, <1>4 DEF MinerLoop, HoldsRef
<1>5. CASE MinerPassRests(t) \/ MinerPassFails(t)
  BY <1>b, <1>5 DEF MinerPassRests, MinerPassFails, HoldsRef
<1>6. CASE MinerSleep(t)
  BY <1>b, <1>6, Zenon DEF MinerSleep, HoldsRef
<1>7. CASE ThreadReturn(t)
  BY <1>a, <1>7 DEF ThreadReturn, Disconnect, Refs, HoldsRef
<1>8. CASE ThreadRelease(t)
  <2>1. t \notin Callers /\ t \notin subscribers
    BY <1>8, Disjoint DEF ThreadRelease, Refs
  <2>2. \E p \in {"erasing", "exited"} : tpc' = [tpc EXCEPT ![t] = p]
    BY <1>8, Zenon DEF ThreadRelease
  <2>3. /\ \A u \in Threads : u # t => tpc'[u] = tpc[u]
        /\ tpc'[t] \notin HoldsRef
    BY <1>a, <2>2 DEF HoldsRef
  <2>4. UNCHANGED <<loaded, twallet, subscribers, call>> /\ Release(twallet[t], t)
    BY <1>8 DEF ThreadRelease
  <2>5. \A v \in object : v # twallet[t] => v \in object'
    BY <2>4 DEF Release
  <2>6. twallet[t] \in object /\ twallet[t] \notin object' =>
          /\ twallet[t] \notin loaded
          /\ \A c \in Callers : twallet[t] \notin call[c].refs
          /\ \A u \in Threads : twallet[u] = twallet[t] /\ tpc[u] \in HoldsRef => u = t
    BY <2>1, <2>4 DEF Release, LastRef, RefHolders
  <2>7. loaded' \subseteq object' /\ \A c \in Callers : call'[c].refs \subseteq object'
    BY <2>4, <2>5, <2>6 DEF Refs
  <2>8. \A u \in Threads : tpc'[u] \in HoldsRef => twallet'[u] \in object'
    BY <2>3, <2>4, <2>5, <2>6 DEF Refs
  <2> QED BY <1>a, <2>1, <2>3, <2>4, <2>7, <2>8 DEF Refs
<1>9. CASE ThreadErase(t)
  BY <1>a, <1>9 DEF ThreadErase, Refs, HoldsRef
<1> QED
  BY <1>1, <1>2, <1>3, <1>4, <1>5, <1>6, <1>7, <1>8, <1>9 DEF ThreadStep

LEMMA RefsMain ==
    ASSUME Typing, Refs, Boot \/ RequestShutdown \/ ShutdownStep
    PROVE  Refs'
<1> USE DEF OnlyPhase, OnlyCall, walletVars, threadVars
<1>a. Main \in Callers /\ call \in [Callers -> CallType] /\ loaded \subseteq object
  BY Disjoint DEF Typing, TypeOK, Refs
<1>1. CASE Boot
  BY <1>a, <1>1, RefsKept DEF Boot, IdleCall
<1>2. CASE RequestShutdown \/ InterruptHTTPServer \/ InterruptStakers \/ StakemanGone
  BY <1>2 DEF RequestShutdown, InterruptHTTPServer, InterruptStakers, StakemanGone, Refs
<1>3. CASE StopHTTPServer
  BY <1>a, <1>3, RefsKept DEF StopHTTPServer, IdleCall
<1>4. CASE DestroyStakeman
  BY <1>a, <1>4, RefsKept DEF DestroyStakeman, IdleCall
<1>5. CASE UnloadWallets
  <2>1. PICK w \in Wallets : UnloadGet(Main, w)
    BY <1>5 DEF UnloadWallets
  <2> QED BY <1>a, <2>1, RefsKept DEF UnloadGet, IdleCall
<1> QED
  BY <1>1, <1>2, <1>3, <1>4, <1>5 DEF ShutdownStep

LEMMA RefsInit == Init => Refs
BY DEF Init, Refs, IdleCall, HoldsRef

LEMMA RefsNext == Typing /\ Reach /\ Refs /\ [Next]_vars => Refs'
<1> SUFFICES ASSUME Typing, Reach, Refs, [Next]_vars PROVE Refs'
  OBVIOUS
<1>1. CASE UNCHANGED vars
  BY <1>1 DEF vars, walletVars, threadVars, Refs
<1>2. CASE Next
  BY <1>1, <1>2, RefsCall, RefsNewCall, RefsThread, RefsMain DEF Next, Callers
<1> QED BY <1>1, <1>2

\* ~CWallet never finds a connected slot: whoever drops the last reference to a
\* wallet, every staking thread of it has disconnected from NotifyUnload before.
THEOREM SlotsHaveWallets == Spec => []SubscribersHaveWallet
<1>1. Init => Typing /\ Reach /\ Refs
  BY TypeInit, ReachInit, RefsInit
<1>2. Typing /\ Reach /\ Refs /\ [Next]_vars => (Typing /\ Reach /\ Refs)'
  BY TypeNext, ReachNext, RefsNext
<1>3. Typing /\ Refs => SubscribersHaveWallet
  BY DEF Typing, TypeOK, Refs, SubscribersHaveWallet
<1> QED BY <1>1, <1>2, <1>3, PTL DEF Spec

-----------------------------------------------------------------------------
(* The manager's end.                                                        *)

Closing == {"stopping", "destroying", "gone"}
UnloadPcs == {"unloadRemove", "unloadInsert", "unloadFlag", "unloadNotify",
              "unloadReset", "unloadWait", "idle", "return"}

\* From the joining of the HTTP workers on, only the main thread makes calls, it
\* starts no thread, and its first Stop() empties the map for good; when the
\* manager is gone it only unloads wallets.
Manager ==
    phase \in Closing =>
        /\ \A c \in Workers : call[c].pc = "idle"
        /\ call[Main].todo = {}
        /\ call[Main].pc \in UnloadPcs \cup {"stop", "interrupt", "join", "launch"}
        /\ phase = "gone" => call[Main].pc \in UnloadPcs
        /\ call[Main].pc # "stop" => \A w \in Wallets : stakers[w] = None

\* A step of an operation is a step of its caller alone.
LEMMA CallShape ==
    ASSUME Typing, NEW c \in Callers, CallStep(c)
    PROVE  /\ ~At(c, "idle") /\ phase' = phase
           /\ \A d \in Callers \ {c} : call'[d] = call[d]
<1> USE DEF OnlyCall, walletVars, threadVars, flagVars, At, Goto, DropRef
<1>a. call \in [Callers -> CallType]
  BY DEF Typing, TypeOK
<1>1. CASE ReleaseErase(c) \/ Return(c) \/ UpdateStakeSetting(c)
  BY <1>a, <1>1 DEF ReleaseErase, Return, UpdateStakeSetting
<1>8. CASE ReturnDrop(c)
  BY <1>a, <1>8 DEF ReturnDrop
<1>2. CASE AddCheckActive(c) \/ AddGetWallet(c) \/ AddAlreadyStaking(c) \/ AddReap(c)
  BY <1>a, <1>2 DEF AddCheckActive, AddGetWallet, AddAlreadyStaking, AddReap
<1>3. CASE (\E t \in Threads : AddNew(c, t)) \/ AddReplace(c)
  BY <1>a, <1>3 DEF AddNew, AddReplace, Spawn
<1>4. CASE StakeWalletRemove(c) \/ StopThreads(c) \/ InterruptTaken(c) \/ JoinTaken(c)
  BY <1>a, <1>4 DEF StakeWalletRemove, StopThreads, InterruptTaken, JoinTaken
<1>5. CASE SetStakingActive(c) \/ SetStakingArg(c) \/ Start(c) \/ InitWallets(c)
  BY <1>a, <1>5 DEF SetStakingActive, SetStakingArg, Start, InitWallets
<1>6. CASE LaunchStakingThreads(c) \/ RemoveWallet(c)
  BY <1>a, <1>6 DEF LaunchStakingThreads, RemoveWallet
<1>9. CASE LaunchNext(c)
  BY <1>a, <1>9 DEF LaunchNext
<1>7. CASE UnloadInsert(c) \/ UnloadFlag(c) \/ UnloadNotify(c) \/ UnloadReset(c) \/ UnloadWait(c)
  BY <1>a, <1>7 DEF UnloadInsert, UnloadFlag, UnloadNotify, UnloadReset, UnloadWait
<1> QED BY <1>1, <1>2, <1>3, <1>4, <1>5, <1>6, <1>7, <1>8, <1>9, Zenon DEF CallStep, LockStep

LEMMA ManagerCall ==
    ASSUME Typing, Manager, NEW c \in Callers, CallStep(c)
    PROVE  Manager'
<1> USE DEF OnlyCall, walletVars, threadVars, flagVars, At, Goto
<1>a. /\ call \in [Callers -> CallType] /\ call[c] \in CallType
      /\ Main \in Callers /\ Workers \subseteq Callers /\ Main \notin Workers
      /\ c \in Workers \/ c = Main
  BY Disjoint DEF Typing, TypeOK, Callers
<1>b. phase' = phase
  BY CallShape
<1> SUFFICES ASSUME phase \in Closing PROVE Manager'
  BY <1>b DEF Manager
\* A step of the main thread that keeps within its positions.
<1>c. ASSUME c = Main, \A d \in Workers : call'[d] = call[d],
             call'[c].todo = {}, call'[c].pc \in UnloadPcs \cup {"interrupt", "join", "launch"},
             call'[c].pc \in UnloadPcs \/ call[c].pc \notin UnloadPcs,
             (stakers' = stakers /\ call[c].pc # "stop") \/ \A w \in Wallets : stakers'[w] = None
      PROVE  Manager'
  BY <1>b, <1>c DEF Manager, UnloadPcs
<1>1. CASE ReleaseErase(c)
  <2>1. /\ stakers' = stakers
        /\ \A d \in Callers : call'[d].pc = call[d].pc /\ call'[d].todo = call[d].todo
    BY <1>a, <1>1 DEF ReleaseErase, CallType
  <2> QED BY <1>a, <1>b, <2>1 DEF Manager
<1>2. CASE Return(c)
  <2>1. c = Main
    BY <1>a, <1>2 DEF Return, Manager
  <2>2. /\ \A d \in Workers : call'[d] = call[d]
        /\ call'[c].todo = {} /\ call'[c].pc \in {"idle", "return"}
        /\ stakers' = stakers /\ call[c].pc # "stop"
    BY <1>a, <1>2, <2>1 DEF Return, IdleCall
  <2> QED BY <1>c, <2>1, <2>2 DEF UnloadPcs
<1>3. CASE UpdateStakeSetting(c)
  <2>1. c = Main
    BY <1>a, <1>3 DEF UpdateStakeSetting, Manager
  <2>2. /\ \A d \in Workers : call'[d] = call[d]
        /\ call'[c].todo = {} /\ call'[c].pc \in {"idle", "return"}
        /\ stakers' = stakers /\ call[c].pc # "stop"
    BY <1>a, <1>3, <2>1 DEF UpdateStakeSetting, IdleCall
  <2> QED BY <1>c, <2>1, <2>2 DEF UnloadPcs
<1>4. CASE InterruptTaken(c)
  <2>1. c = Main
    BY <1>a, <1>4 DEF InterruptTaken, Manager
  <2> QED BY <1>a, <1>4, <1>c, <2>1 DEF InterruptTaken, Manager, UnloadPcs, IdleCall, CallType
<1>5. CASE JoinTaken(c)
  <2>1. c = Main
    BY <1>a, <1>5 DEF JoinTaken, Manager
  <2> QED BY <1>a, <1>5, <1>c, <2>1 DEF JoinTaken, Manager, UnloadPcs, IdleCall, CallType
<1>6. CASE RemoveWallet(c)
  <2>1. c = Main
    BY <1>a, <1>6 DEF RemoveWallet, Manager
  <2> QED BY <1>a, <1>6, <1>c, <2>1 DEF RemoveWallet, Manager, UnloadPcs, IdleCall, CallType
<1>7. CASE UnloadInsert(c)
  <2>1. c = Main
    BY <1>a, <1>7 DEF UnloadInsert, Manager
  <2> QED BY <1>a, <1>7, <1>c, <2>1 DEF UnloadInsert, Manager, UnloadPcs, IdleCall, CallType
<1>8. CASE UnloadFlag(c)
  <2>1. c = Main
    BY <1>a, <1>8 DEF UnloadFlag, Manager
  <2> QED BY <1>a, <1>8, <1>c, <2>1 DEF UnloadFlag, Manager, UnloadPcs, IdleCall, CallType
<1>9. CASE UnloadNotify(c)
  <2>1. c = Main
    BY <1>a, <1>9 DEF UnloadNotify, Manager
  <2> QED BY <1>a, <1>9, <1>c, <2>1 DEF UnloadNotify, Manager, UnloadPcs, IdleCall, CallType
<1>10. CASE UnloadReset(c)
  <2>1. c = Main
    BY <1>a, <1>10 DEF UnloadReset, Manager
  <2> QED BY <1>a, <1>10, <1>c, <2>1 DEF UnloadReset, Manager, UnloadPcs, IdleCall, CallType, DropRef
<1>11. CASE UnloadWait(c)
  <2>1. c = Main
    BY <1>a, <1>11 DEF UnloadWait, Manager
  <2> QED BY <1>a, <1>11, <1>c, <2>1 DEF UnloadWait, Manager, UnloadPcs, IdleCall, CallType
<1>12. CASE ReturnDrop(c)
  <2>1. c = Main
    BY <1>a, <1>12 DEF ReturnDrop, Manager
  <2> QED BY <1>a, <1>12, <1>c, <2>1 DEF ReturnDrop, Manager, UnloadPcs, IdleCall, CallType, DropRef
<1>13. CASE StopThreads(c)
  <2>1. c = Main
    BY <1>a, <1>13 DEF StopThreads, Manager
  <2> QED BY <1>a, <1>13, <1>c, <2>1 DEF StopThreads, Manager, UnloadPcs, CallType
\* The remaining operations are not under way any more.
<1>14. ~(\/ AddCheckActive(c) \/ AddGetWallet(c) \/ AddAlreadyStaking(c)
        \/ (\E t \in Threads : AddNew(c, t)) \/ AddReap(c) \/ AddReplace(c)
        \/ StakeWalletRemove(c) \/ SetStakingActive(c) \/ SetStakingArg(c) \/ Start(c)
        \/ InitWallets(c) \/ LaunchStakingThreads(c) \/ LaunchNext(c))
  BY <1>a, Zenon DEF Manager, UnloadPcs, AddCheckActive, AddGetWallet, AddAlreadyStaking, AddNew,
     AddReap, AddReplace, StakeWalletRemove, SetStakingActive, SetStakingArg, Start,
     InitWallets, LaunchStakingThreads, LaunchNext
<1> QED
  BY <1>1, <1>2, <1>3, <1>4, <1>5, <1>6, <1>7, <1>8, <1>9, <1>10, <1>11, <1>12, <1>13, <1>14 DEF CallStep, LockStep

LEMMA ManagerNewCall ==
    ASSUME Manager, NEW c \in Callers, NewCall(c)
    PROVE  Manager'
<1>1. RpcOpen /\ phase' = phase
  BY Zenon DEF NewCall, SetStaking, SetNodeStaking, LoadWallet, UnloadGet, OnlyCall
<1> QED BY <1>1 DEF RpcOpen, Manager, Closing

LEMMA ManagerThread ==
    ASSUME Manager, NEW t \in Threads, ThreadStep(t)
    PROVE  Manager'
<1>1. UNCHANGED <<phase, call, stakers>>
  BY Zenon DEF ThreadStep, ThreadConnect, ThreadCheckUnloading, MinerInit, MinerLoop,
     MinerPassRests, MinerPassFails, MinerSleep, ThreadReturn, ThreadRelease,
     ThreadErase, OnlyThread
<1> QED BY <1>1 DEF Manager

LEMMA ManagerMain ==
    ASSUME Typing, Manager, Boot \/ RequestShutdown \/ ShutdownStep
    PROVE  Manager'
<1> USE DEF OnlyPhase, OnlyCall, walletVars, threadVars, At, Closing, UnloadPcs
<1>a. /\ Main \in Callers /\ Workers \subseteq Callers /\ Main \notin Workers
      /\ call \in [Callers -> CallType]
  BY Disjoint DEF Typing, TypeOK
<1>1. CASE Boot \/ RequestShutdown \/ InterruptHTTPServer \/ InterruptStakers
  BY <1>1 DEF Boot, RequestShutdown, InterruptHTTPServer, InterruptStakers, Manager
<1>2. CASE StopHTTPServer
  BY <1>a, <1>2 DEF StopHTTPServer, WorkersJoined, IdleCall, Manager
<1>3. CASE DestroyStakeman
  BY <1>a, <1>3 DEF DestroyStakeman, IdleCall, Manager
<1>4. CASE StakemanGone
  BY <1>4 DEF StakemanGone, Manager
<1>5. CASE UnloadWallets
  <2>1. PICK w \in Wallets : UnloadGet(Main, w)
    BY <1>5 DEF UnloadWallets
  <2> QED BY <1>a, <2>1 DEF UnloadGet, IdleCall, Manager
<1> QED BY <1>1, <1>2, <1>3, <1>4, <1>5 DEF ShutdownStep

LEMMA ManagerNext == Typing /\ Manager /\ [Next]_vars => Manager'
<1> SUFFICES ASSUME Typing, Manager, [Next]_vars PROVE Manager'
  OBVIOUS
<1>1. CASE UNCHANGED vars
  BY <1>1 DEF vars, Manager
<1>2. CASE Next
  BY <1>1, <1>2, ManagerCall, ManagerNewCall, ManagerThread, ManagerMain DEF Next, Callers
<1> QED BY <1>1, <1>2

\* When node.stakeman.reset() has returned, every staking thread that was ever
\* started has been joined, whatever RPCs were running when shutdown began.
THEOREM ManagerOutlivesThreads == Spec => []NoThreadOutlivesManager
<1>1. Init => Typing /\ Reach /\ Manager
  BY TypeInit, ReachInit DEF Init, Manager, Closing
<1>2. Typing /\ Reach /\ Manager /\ [Next]_vars => (Typing /\ Reach /\ Manager)'
  BY TypeNext, ReachNext, ManagerNext
<1>3. Typing /\ Reach /\ Manager => NoThreadOutlivesManager
  <2> SUFFICES ASSUME Typing, Reach, Manager, phase = "gone", NEW t \in Threads
               PROVE  tpc[t] = "none"
    BY DEF NoThreadOutlivesManager
  <2>1. \A c \in Callers : call[c].pc \in UnloadPcs
    BY DEF Manager, Closing, UnloadPcs, Callers
  <2>2. \A c \in Callers : call[c].join = {}
    BY <2>1 DEF Typing, CallOK, UnloadPcs
  <2>3. \A w \in Wallets : stakers[w] # t
    BY Disjoint DEF Manager, Closing, UnloadPcs
  <2> QED BY <2>2, <2>3 DEF Reach
<1> QED BY <1>1, <1>2, <1>3, PTL DEF Spec

-----------------------------------------------------------------------------
(* One call at a time: SerialSpec.                                         *)

SerialStep == Next /\ (NewRequest => Quiet /\ phase # "boot")

\* At most one caller has an operation under way, none before the node is up,
\* and no HTTP worker once they are joined.
SerialInv ==
    /\ \A c, d \in Callers : c # d /\ ~At(c, "idle") => At(d, "idle")
    /\ phase = "boot" => Quiet
    /\ phase \in Closing => \A c \in Workers : At(c, "idle")

\* At first nobody is in a call.
LEMMA SerialInit == Init => SerialInv
<1> SUFFICES ASSUME Init PROVE SerialInv
  OBVIOUS
<1>1. \A c \in Callers : call[c] = IdleCall
  BY DEF Init
<1>2. \A c \in Callers : At(c, "idle")
  BY <1>1 DEF At, IdleCall
<1> QED BY <1>2 DEF SerialInv, Quiet, Callers

\* A request makes an idle worker busy, or is done at once.
LEMMA NewCallShape ==
    ASSUME Typing, NEW c \in Workers, NewCall(c)
    PROVE  /\ At(c, "idle") /\ phase' = phase
           /\ \A d \in Callers \ {c} : call'[d] = call[d]
           /\ call' = call \/ NewRequest
<1> USE DEF OnlyCall, At
<1>a. call \in [Callers -> CallType] /\ c \in Callers
  BY Disjoint DEF Typing, TypeOK
<1>1. ASSUME NEW w \in Wallets, NEW on \in BOOLEAN, NEW opt \in LoadOptions, SetStaking(c, w, on, opt)
      PROVE  /\ call[c].pc = "idle" /\ call[c].del = None /\ phase' = phase
             /\ \A d \in Callers \ {c} : call'[d] = call[d]
             /\ call'[c].pc # "idle"
  BY <1>a, <1>1 DEF SetStaking, IdleCall
<1>2. ASSUME NEW on \in BOOLEAN, SetNodeStaking(c, on)
      PROVE  /\ call[c].pc = "idle" /\ call[c].del = None /\ phase' = phase
             /\ \A d \in Callers \ {c} : call'[d] = call[d]
             /\ call' = call \/ call'[c].pc # "idle"
  <2>1. CASE call' = call
    BY <1>2, <2>1 DEF SetNodeStaking
  <2>2. CASE call' = [call EXCEPT ![c] = [IdleCall EXCEPT !.pc = "setActive", !.on = on]]
    BY <1>a, <1>2, <2>2 DEF SetNodeStaking, IdleCall
  <2> QED BY <1>2, <2>1, <2>2 DEF SetNodeStaking
<1>3. ASSUME NEW w \in Wallets, LoadWallet(c, w)
      PROVE  call[c].pc = "idle" /\ call[c].del = None /\ phase' = phase /\ call' = call
  BY <1>3 DEF LoadWallet
<1>4. ASSUME NEW w \in Wallets, UnloadGet(c, w)
      PROVE  /\ call[c].pc = "idle" /\ call[c].del = None /\ phase' = phase
             /\ \A d \in Callers \ {c} : call'[d] = call[d]
             /\ call'[c].pc # "idle"
  BY <1>a, <1>4 DEF UnloadGet, IdleCall
<1> QED BY <1>1, <1>2, <1>3, <1>4 DEF NewCall, NewRequest

LEMMA ThreadShape ==
    ASSUME NEW t \in Threads, ThreadStep(t)
    PROVE  UNCHANGED <<call, phase, stakers, lock, loaded, active>>
BY Zenon DEF ThreadStep, ThreadConnect, ThreadCheckUnloading, MinerInit, MinerLoop,
   MinerPassRests, MinerPassFails, MinerSleep, ThreadReturn, ThreadRelease, ThreadErase,
   OnlyThread, walletVars, flagVars

\* The main thread's own calls; Boot's wallets are launched by it.
LEMMA MainShape ==
    ASSUME Typing, Boot \/ RequestShutdown \/ ShutdownStep
    PROVE  /\ \A d \in Workers : call'[d] = call[d]
           /\ phase' # "boot"
           /\ call' = call \/ phase = "boot" \/ phase \in Closing \/ WorkersJoined
           /\ phase' \in Closing => phase \in Closing \/ WorkersJoined
<1> USE DEF OnlyCall
<1>a. call \in [Callers -> CallType] /\ Main \in Callers /\ Workers \subseteq Callers /\ Main \notin Workers
  BY Disjoint DEF Typing, TypeOK
<1>1. CASE Boot
  BY <1>a, <1>1 DEF Boot, Closing
<1>2. CASE RequestShutdown \/ InterruptHTTPServer \/ InterruptStakers \/ StakemanGone
  <2>1. CASE RequestShutdown \/ InterruptHTTPServer
    BY <2>1 DEF RequestShutdown, InterruptHTTPServer, Closing
  <2>2. CASE InterruptStakers
    BY <2>2 DEF InterruptStakers, Closing
  <2>3. CASE StakemanGone
    BY <2>3 DEF StakemanGone, Closing
  <2> QED BY <1>2, <2>1, <2>2, <2>3
<1>3. CASE StopHTTPServer
  BY <1>a, <1>3 DEF StopHTTPServer
<1>4. CASE DestroyStakeman
  BY <1>a, <1>4 DEF DestroyStakeman, Closing
<1>5. CASE UnloadWallets
  BY <1>a, <1>5 DEF UnloadWallets, UnloadGet, Closing
<1> QED BY <1>1, <1>2, <1>3, <1>4, <1>5 DEF ShutdownStep

LEMMA SerialNext ==
    ASSUME Typing, SerialInv, [SerialStep]_vars PROVE SerialInv'
<1>a. Main \in Callers /\ Callers = Workers \cup {Main} /\ Main \notin Workers
  BY DEF Callers
<1>1. ASSUME NEW c \in Callers, CallStep(c) PROVE SerialInv'
  <2>1. /\ ~At(c, "idle") /\ phase' = phase
        /\ \A d \in Callers \ {c} : call'[d] = call[d]
    BY <1>1, CallShape
  <2>2. \A d \in Callers \ {c} : At(d, "idle") /\ At(d, "idle")'
    BY <2>1 DEF SerialInv, At
  <2>3. phase # "boot" /\ (phase \in Closing => c \notin Workers)
    BY <2>1 DEF SerialInv, Quiet
  <2> QED BY <1>a, <2>1, <2>2, <2>3 DEF SerialInv
<1>2. ASSUME NEW c \in Workers, NewCall(c), SerialStep PROVE SerialInv'
  <2>1. /\ At(c, "idle") /\ phase' = phase
        /\ \A d \in Callers \ {c} : call'[d] = call[d]
        /\ call' = call \/ NewRequest
    BY <1>2, NewCallShape
  <2>2. CASE call' = call
    BY <2>1, <2>2 DEF SerialInv, Quiet, At
  <2>3. CASE NewRequest
    <3>3. RpcOpen
      BY <1>2, Zenon DEF NewCall, SetStaking, SetNodeStaking, LoadWallet
    <3>1. Quiet /\ phase # "boot" /\ phase \notin Closing
      BY <1>2, <2>3, <3>3 DEF SerialStep, RpcOpen, Closing
    <3>2. \A d \in Callers \ {c} : At(d, "idle")'
      BY <2>1, <3>1 DEF Quiet, At
    <3> QED BY <2>1, <3>1, <3>2 DEF SerialInv
  <2> QED BY <2>1, <2>2, <2>3
<1>3. ASSUME NEW t \in Threads, ThreadStep(t) PROVE SerialInv'
  BY <1>3, ThreadShape DEF SerialInv, Quiet, At
<1>4. CASE Boot \/ RequestShutdown \/ ShutdownStep
  <2>1. /\ \A d \in Workers : call'[d] = call[d]
        /\ phase' # "boot"
        /\ call' = call \/ phase = "boot" \/ phase \in Closing \/ WorkersJoined
        /\ phase' \in Closing => phase \in Closing \/ WorkersJoined
    BY <1>4, MainShape
  <2>2. CASE \A d \in Workers : At(d, "idle")
    <3>1. \A d \in Workers : At(d, "idle")'
      BY <2>1, <2>2 DEF At
    <3> QED BY <1>a, <2>1, <3>1 DEF SerialInv
  <2>3. CASE call' = call /\ phase' \notin Closing
    BY <2>1, <2>3 DEF SerialInv, At
  <2> QED BY <1>a, <2>1, <2>2, <2>3 DEF SerialInv, Quiet, WorkersJoined
<1>5. CASE UNCHANGED vars
  BY <1>5 DEF vars, SerialInv, Quiet, At
<1> QED BY <1>1, <1>2, <1>3, <1>4, <1>5 DEF SerialStep, Next

\* Two threads that were started and not joined run for different wallets.
OnePerWallet ==
    \A t, u \in Threads :
        t # u /\ tpc[t] # "none" /\ tpc[u] # "none" => twallet[t] # twallet[u]

LEMMA OneKept ==
    ASSUME OnePerWallet, twallet' = twallet,
           \A t \in Threads : tpc'[t] # "none" => tpc[t] # "none"
    PROVE  OnePerWallet'
BY DEF OnePerWallet

\* A call that starts no thread leaves the threads' wallets alone, or joins one.
LEMMA OneCall ==
    ASSUME Typing, Reach, SerialInv, OnePerWallet, NEW c \in Callers, CallStep(c)
    PROVE  OnePerWallet'
<1> USE DEF OnlyCall, walletVars, threadVars, flagVars
<1>a. /\ tpc \in [Threads -> ThreadPcs] /\ twallet \in [Threads -> Wallets \cup {None}]
      /\ stakers \in [Wallets -> Threads \cup {None}]
      /\ CallOK(call[c])
  BY DEF Typing, TypeOK
<1>b. \A d \in Callers \ {c} : At(d, "idle")
  BY CallShape DEF SerialInv
<1>1. ASSUME NEW t \in Threads, AddNew(c, t) PROVE OnePerWallet'
  <2>1. /\ call[c].pc = "addLock" /\ stakers[call[c].w] = None /\ call[c].w \in Wallets
        /\ tpc' = [tpc EXCEPT ![t] = "start"] /\ twallet' = [twallet EXCEPT ![t] = call[c].w]
    BY <1>a, <1>1 DEF AddNew, Spawn, At, NoEntry, CallOK, WalletPcs
  <2>2. \A d \in Callers : call[d].join = {}
    BY <1>b, <2>1, Zenon DEF Typing, CallOK, At
  <2>3. \A u \in Threads : tpc[u] # "none" => twallet[u] # call[c].w
    <3> SUFFICES ASSUME NEW u \in Threads, tpc[u] # "none" PROVE twallet[u] # call[c].w
      OBVIOUS
    <3>1. PICK v \in Wallets : stakers[v] = u
      BY <2>2 DEF Reach
    <3>2. twallet[u] = v /\ v # call[c].w
      BY <2>1, <3>1, Disjoint, Zenon DEF Reach
    <3> QED BY <3>2
  <2> QED BY <1>a, <2>1, <2>3 DEF OnePerWallet
<1>2. CASE AddReplace(c)
  <2> DEFINE t == stakers[call[c].w]
  <2>1. /\ call[c].pc = "addJoin" /\ call[c].w \in Wallets /\ tpc[t] = "exited"
        /\ tpc' = [tpc EXCEPT ![t] = "start"] /\ twallet' = [twallet EXCEPT ![t] = call[c].w]
    BY <1>a, <1>2 DEF AddReplace, Spawn, At, CallOK, WalletPcs
  <2>2. t # None /\ t \in Threads
    BY <1>a, <2>1, Zenon DEF Reach
  <2>2a. twallet[t] = call[c].w
    BY <2>1, <2>2 DEF Reach
  <2>3. twallet' = twallet /\ \A u \in Threads : tpc'[u] # "none" => tpc[u] # "none"
    BY <1>a, <2>1, <2>2, <2>2a
  <2> QED BY <2>3, OneKept
<1>3. CASE JoinTaken(c)
  <2>1. CASE UNCHANGED <<tpc, twallet>>
    BY <2>1, OneKept
  <2>2. CASE call[c].join # {}
    <3>1. PICK t \in call[c].join : /\ tpc' = [tpc EXCEPT ![t] = "none"]
                                    /\ twallet' = [twallet EXCEPT ![t] = None]
      BY <1>3, <2>2 DEF JoinTaken
    <3>2. t \in Threads
      BY <1>a, <3>1 DEF CallOK, CallType
    <3> QED BY <1>a, <3>1, <3>2 DEF OnePerWallet
  <2> QED BY <1>3, <2>1, <2>2 DEF JoinTaken
<1>4. CASE ReleaseErase(c) \/ ReturnDrop(c) \/ Return(c) \/ UpdateStakeSetting(c)
  <2>1. UNCHANGED <<tpc, twallet>>
    BY <1>4, Zenon DEF ReleaseErase, ReturnDrop, Return, UpdateStakeSetting
  <2> QED BY <2>1, OneKept
<1>5. CASE AddCheckActive(c) \/ AddGetWallet(c) \/ AddAlreadyStaking(c) \/ AddReap(c)
  <2>1. UNCHANGED <<tpc, twallet>>
    BY <1>5 DEF AddCheckActive, AddGetWallet, AddAlreadyStaking, AddReap
  <2> QED BY <2>1, OneKept
<1>6. CASE StakeWalletRemove(c) \/ StopThreads(c) \/ InterruptTaken(c)
  <2>1. UNCHANGED <<tpc, twallet>>
    BY <1>6 DEF StakeWalletRemove, StopThreads, InterruptTaken
  <2> QED BY <2>1, OneKept
<1>7. CASE SetStakingActive(c) \/ SetStakingArg(c) \/ Start(c) \/ InitWallets(c)
  <2>1. UNCHANGED <<tpc, twallet>>
    BY <1>7 DEF SetStakingActive, SetStakingArg, Start, InitWallets
  <2> QED BY <2>1, OneKept
<1>8. CASE LaunchStakingThreads(c) \/ LaunchNext(c) \/ RemoveWallet(c) \/ UnloadInsert(c)
  <2>1. UNCHANGED <<tpc, twallet>>
    BY <1>8, Zenon DEF LaunchStakingThreads, LaunchNext, RemoveWallet, UnloadInsert
  <2> QED BY <2>1, OneKept
<1>9. CASE UnloadFlag(c) \/ UnloadNotify(c) \/ UnloadReset(c) \/ UnloadWait(c)
  <2>1. UNCHANGED <<tpc, twallet>>
    BY <1>9 DEF UnloadFlag, UnloadNotify, UnloadReset, UnloadWait
  <2> QED BY <2>1, OneKept
<1> QED BY <1>1, <1>2, <1>3, <1>4, <1>5, <1>6, <1>7, <1>8, <1>9 DEF CallStep, LockStep

LEMMA OneNext ==
    ASSUME Typing, Reach, SerialInv, OnePerWallet, [Next]_vars PROVE OnePerWallet'
<1> USE DEF OnlyCall, walletVars, threadVars, flagVars
<1>1. ASSUME NEW c \in Workers, NewCall(c) PROVE OnePerWallet'
  <2>1. ASSUME NEW w \in Wallets, NEW on \in BOOLEAN, NEW opt \in LoadOptions,
               SetStaking(c, w, on, opt)
        PROVE  UNCHANGED <<tpc, twallet>>
    BY <2>1 DEF SetStaking
  <2>2. ASSUME NEW on \in BOOLEAN, SetNodeStaking(c, on) PROVE UNCHANGED <<tpc, twallet>>
    BY <2>2 DEF SetNodeStaking
  <2>3. ASSUME NEW w \in Wallets, LoadWallet(c, w) \/ UnloadGet(c, w)
        PROVE  UNCHANGED <<tpc, twallet>>
    BY <2>3 DEF LoadWallet, UnloadGet
  <2> QED BY <1>1, <2>1, <2>2, <2>3, OneKept, Zenon DEF NewCall
<1>2. ASSUME NEW t \in Threads, ThreadStep(t) PROVE OnePerWallet'
  <2>1. tpc[t] # "none" /\ twallet' = twallet /\ \E p \in ThreadPcs : tpc' = [tpc EXCEPT ![t] = p]
    BY <1>2, Zenon DEF ThreadStep, ThreadConnect, ThreadCheckUnloading, MinerInit, MinerLoop,
       MinerPassRests, MinerPassFails, MinerSleep, ThreadReturn, ThreadRelease, ThreadErase,
       OnlyThread, Move, ThreadPcs
  <2>2. \A u \in Threads : tpc'[u] # "none" => tpc[u] # "none"
    BY <2>1 DEF Typing, TypeOK
  <2> QED BY <2>1, <2>2, OneKept
<1>3. CASE Boot \/ RequestShutdown \/ ShutdownStep \/ UNCHANGED vars
  <2>1. CASE Boot \/ RequestShutdown \/ UNCHANGED vars
    BY <2>1, OneKept DEF Boot, RequestShutdown, OnlyPhase, vars
  <2>2. CASE InterruptHTTPServer \/ InterruptStakers \/ StopHTTPServer \/ DestroyStakeman
    BY <2>2, OneKept DEF InterruptHTTPServer, InterruptStakers, StopHTTPServer,
       DestroyStakeman, OnlyPhase
  <2>3. CASE StakemanGone \/ UnloadWallets
    BY <2>3, OneKept, Zenon DEF StakemanGone, UnloadWallets, UnloadGet, OnlyPhase
  <2> QED BY <1>3, <2>1, <2>2, <2>3 DEF ShutdownStep
<1> QED BY <1>1, <1>2, <1>3, OneCall DEF Next

\* With one call at a time a wallet never has two staking threads: a
\* StakeWalletAdd finds no entry only when the wallet's last thread was joined.
THEOREM OneStakerEach == SerialSpec => []OneThreadPerWallet
<1> DEFINE I == Typing /\ Reach /\ SerialInv /\ OnePerWallet
<1>1. Init => I
  <2>1. Init => OnePerWallet
    BY DEF Init, OnePerWallet
  <2> QED BY <2>1, SerialInit, TypeInit, ReachInit
<1>2. I /\ [SerialStep]_vars => I'
  <2>1. [SerialStep]_vars => [Next]_vars
    BY DEF SerialStep
  <2> QED BY <2>1, TypeNext, ReachNext, SerialNext, OneNext
<1>3. I => OneThreadPerWallet
  BY DEF OnePerWallet, OneThreadPerWallet, Staking
<1> QED BY <1>1, <1>2, <1>3, PTL DEF SerialSpec, SerialStep

\* Between the insertion and the end of the wait of an UnloadWallet.
Unloading == {"unloadFlag", "unloadNotify", "unloadReset", "unloadWait"}

\* A name in the unloading set is there for an UnloadWallet under way: it waits
\* until the name is gone.
Marked ==
    \A w \in unloadSet : \E c \in Callers : call[c].w = w /\ call[c].pc \in Unloading

\* Caller c's step marks nothing and does not end an unload that is waited for.
LEMMA MarkedKept ==
    ASSUME Marked, NEW c \in Callers, unloadSet' \subseteq unloadSet,
           \A d \in Callers \ {c} : call'[d] = call[d],
           call[c].pc \in Unloading /\ call[c].w \in unloadSet' =>
               call'[c].w = call[c].w /\ call'[c].pc \in Unloading
    PROVE  Marked'
<1> SUFFICES ASSUME NEW w \in unloadSet'
             PROVE  \E d \in Callers : call'[d].w = w /\ call'[d].pc \in Unloading
  BY DEF Marked
<1>1. PICK d \in Callers : call[d].w = w /\ call[d].pc \in Unloading
  BY DEF Marked
<1>2. CASE d = c
  BY <1>1, <1>2
<1>3. CASE d # c
  BY <1>1, <1>3
<1> QED BY <1>2, <1>3

LEMMA MarkedCall ==
    ASSUME Typing, Marked, NEW c \in Callers, CallStep(c)
    PROVE  Marked'
<1> USE DEF OnlyCall, walletVars, At, Goto
<1>a. call \in [Callers -> CallType]
  BY DEF Typing, TypeOK
<1>b. \A d \in Callers \ {c} : call'[d] = call[d]
  BY CallShape
<1>1. CASE UnloadInsert(c)
  <2>1. /\ unloadSet' = unloadSet \cup {call[c].w}
        /\ call[c].pc = "unloadInsert"
        /\ call'[c].w = call[c].w /\ call'[c].pc = "unloadFlag"
    BY <1>a, <1>1 DEF UnloadInsert, CallType
  <2> SUFFICES ASSUME NEW w \in unloadSet'
               PROVE  \E d \in Callers : call'[d].w = w /\ call'[d].pc \in Unloading
    BY DEF Marked
  <2>2. CASE w = call[c].w
    BY <2>1, <2>2 DEF Unloading
  <2>3. CASE w \in unloadSet
    <3>1. PICK d \in Callers : call[d].w = w /\ call[d].pc \in Unloading
      BY <2>3 DEF Marked
    <3>2. d # c
      BY <2>1, <3>1 DEF Unloading
    <3> QED BY <1>b, <3>1, <3>2
  <2> QED BY <2>1, <2>2, <2>3
<1>2. CASE UnloadFlag(c) \/ UnloadNotify(c)
  <2>1. /\ unloadSet' = unloadSet
        /\ call'[c].w = call[c].w /\ call'[c].pc \in Unloading
    BY <1>a, <1>2 DEF UnloadFlag, UnloadNotify, CallType, Unloading
  <2> QED BY <1>b, <2>1, MarkedKept
<1>3. CASE UnloadReset(c)
  <2>1. unloadSet' = unloadSet /\ call'[c].w = call[c].w /\ call'[c].pc = "unloadWait"
    BY <1>a, <1>3 DEF UnloadReset, DropRef, CallType
  <2> QED BY <1>b, <2>1, MarkedKept DEF Unloading
<1>4. CASE UnloadWait(c)
  BY <1>b, <1>4, MarkedKept DEF UnloadWait, Released
<1>5. CASE ReleaseErase(c)
  <2>1. unloadSet' \subseteq unloadSet /\ call'[c].w = call[c].w /\ call'[c].pc = call[c].pc
    BY <1>a, <1>5 DEF ReleaseErase, CallType
  <2> QED BY <1>b, <2>1, MarkedKept
<1>6. CASE ReturnDrop(c) \/ Return(c) \/ UpdateStakeSetting(c) \/ AddCheckActive(c)
  <2>1. unloadSet' = unloadSet /\ call[c].pc \notin Unloading
    BY <1>6, Zenon DEF ReturnDrop, Return, UpdateStakeSetting, AddCheckActive, Unloading
  <2> QED BY <1>b, <2>1, MarkedKept
<1>7. CASE AddGetWallet(c) \/ LockStep(c) \/ AddReplace(c)
  <2>1. CASE AddGetWallet(c) \/ AddAlreadyStaking(c) \/ AddReap(c) \/ AddReplace(c)
    BY <1>b, <2>1, MarkedKept DEF AddGetWallet, AddAlreadyStaking, AddReap, AddReplace, Unloading
  <2>2. CASE \E t \in Threads : AddNew(c, t)
    BY <1>b, <2>2, MarkedKept, Zenon DEF AddNew, Unloading
  <2>3. CASE StakeWalletRemove(c) \/ StopThreads(c)
    BY <1>b, <2>3, MarkedKept DEF StakeWalletRemove, StopThreads, Unloading
  <2> QED BY <1>7, <2>1, <2>2, <2>3 DEF LockStep
<1>8. CASE InterruptTaken(c) \/ JoinTaken(c) \/ SetStakingActive(c) \/ SetStakingArg(c)
  BY <1>b, <1>8, MarkedKept DEF InterruptTaken, JoinTaken, SetStakingActive, SetStakingArg, Unloading
<1>9. CASE Start(c) \/ InitWallets(c) \/ LaunchStakingThreads(c) \/ LaunchNext(c) \/ RemoveWallet(c)
  <2>1. CASE Start(c) \/ InitWallets(c) \/ RemoveWallet(c)
    BY <1>b, <2>1, MarkedKept DEF Start, InitWallets, RemoveWallet, Unloading
  <2>2. CASE LaunchStakingThreads(c) \/ LaunchNext(c)
    BY <1>b, <2>2, MarkedKept, Zenon DEF LaunchStakingThreads, LaunchNext, Unloading
  <2> QED BY <1>9, <2>1, <2>2
<1> QED BY <1>1, <1>2, <1>3, <1>4, <1>5, <1>6, <1>7, <1>8, <1>9 DEF CallStep

LEMMA MarkedNext ==
    ASSUME Typing, Marked, [Next]_vars PROVE Marked'
<1> USE DEF OnlyCall, walletVars
<1>a. call \in [Callers -> CallType] /\ Main \in Callers /\ Workers \subseteq Callers
  BY Disjoint DEF Typing, TypeOK
<1>1. ASSUME NEW c \in Workers, NewCall(c) PROVE Marked'
  <2>1. call[c].pc \notin Unloading /\ \A d \in Callers \ {c} : call'[d] = call[d]
    BY <1>1, NewCallShape DEF At, Unloading
  <2>2. ASSUME NEW w \in Wallets, NEW on \in BOOLEAN, NEW opt \in LoadOptions,
               SetStaking(c, w, on, opt)
        PROVE  unloadSet' = unloadSet
    BY <2>2 DEF SetStaking
  <2>3. ASSUME NEW on \in BOOLEAN, SetNodeStaking(c, on) PROVE unloadSet' = unloadSet
    BY <2>3 DEF SetNodeStaking
  <2>4. ASSUME NEW w \in Wallets, LoadWallet(c, w) \/ UnloadGet(c, w)
        PROVE  unloadSet' = unloadSet
    BY <2>4 DEF LoadWallet, UnloadGet
  <2>5. unloadSet' = unloadSet
    BY <1>1, <2>2, <2>3, <2>4 DEF NewCall
  <2> QED BY <1>a, <2>1, <2>5, MarkedKept
<1>2. ASSUME NEW t \in Threads, ThreadStep(t) PROVE Marked'
  <2>1. call' = call
    BY <1>2, ThreadShape
  <2>2. CASE ThreadErase(t)
    BY <2>1, <2>2, Zenon DEF ThreadErase, Marked
  <2>3. CASE ThreadRelease(t)
    BY <2>1, <2>3 DEF ThreadRelease, Marked
  <2>4. CASE unloadSet' = unloadSet
    BY <2>1, <2>4 DEF Marked
  <2> QED BY <1>2, <2>2, <2>3, <2>4, Zenon DEF ThreadStep, ThreadConnect, ThreadCheckUnloading,
             MinerInit, MinerLoop, MinerPassRests, MinerPassFails, MinerSleep, ThreadReturn,
             OnlyThread
<1>3. CASE Boot \/ RequestShutdown \/ ShutdownStep
  <2> USE DEF OnlyPhase
  <2>1. CASE RequestShutdown \/ InterruptHTTPServer
    BY <2>1 DEF RequestShutdown, InterruptHTTPServer, Marked
  <2>2. CASE InterruptStakers \/ StakemanGone
    BY <2>2 DEF InterruptStakers, StakemanGone, Marked
  <2>3. CASE Boot \/ StopHTTPServer \/ DestroyStakeman
    <3>1. /\ unloadSet' = unloadSet /\ call[Main].pc = "idle"
          /\ \A d \in Callers \ {Main} : call'[d] = call[d]
      BY <1>a, <2>3 DEF Boot, StopHTTPServer, DestroyStakeman, At
    <3> QED BY <1>a, <3>1, MarkedKept DEF Unloading
  <2>4. CASE UnloadWallets
    <3>1. /\ unloadSet' = unloadSet /\ call[Main].pc = "idle"
          /\ \A d \in Callers \ {Main} : call'[d] = call[d]
      BY <1>a, <2>4 DEF UnloadWallets, UnloadGet, At
    <3> QED BY <1>a, <3>1, MarkedKept DEF Unloading
  <2> QED BY <1>3, <2>1, <2>2, <2>3, <2>4 DEF ShutdownStep
<1>4. CASE UNCHANGED vars
  BY <1>4 DEF vars, Marked
<1> QED BY <1>1, <1>2, <1>3, <1>4, MarkedCall DEF Next

\* With one call at a time UnloadWallet's assert(it.second) never fires: a name
\* in the unloading set belongs to an unload that has not returned.
THEOREM MarkedOnce == SerialSpec => []UnloadMarksOnce
<1> DEFINE I == Typing /\ SerialInv /\ Marked
<1>1. Init => I
  <2>1. Init => Marked
    BY DEF Init, Marked
  <2> QED BY <2>1, SerialInit, TypeInit
<1>2. I /\ [SerialStep]_vars => I'
  <2>1. [SerialStep]_vars => [Next]_vars
    BY DEF SerialStep
  <2> QED BY <2>1, TypeNext, SerialNext, MarkedNext
<1>3. I => UnloadMarksOnce
  BY DEF SerialInv, Marked, UnloadMarksOnce, At, Unloading
<1> QED BY <1>1, <1>2, <1>3, PTL DEF SerialSpec, SerialStep

\* The wallets that a call will still come to when it launches threads.
Ahead(r) ==
    IF r.pc \in {"setArg", "start", "initWallets", "launchAll"} THEN Wallets
    ELSE IF r.pc \in {"add", "addGet", "addLock"} THEN {r.w} \cup r.todo
    ELSE IF r.pc \in {"launch", "addJoin"} THEN r.todo
    ELSE {}

\* A wallet that should have a staking thread and has none.
Lacks(w) == phase = "up" /\ active /\ w \in enable \cap loaded \cap CanStake /\ stakers[w] = None

\* What a call relies on: the switch has the value SetStakingActive gave it, and
\* threads are only stopped with the switch off or the wallet disabled.
FlagsOK(r) ==
    /\ r.pc = "setArg" => active = r.on
    /\ r.pc = "stop" /\ phase = "up" => ~active
    /\ r.pc = "remove" => r.w \notin enable

\* A wallet that lacks its thread is one that the call under way will launch.
Launching ==
    /\ enable \subseteq object
    /\ \A w \in Wallets : Lacks(w) => \E c \in Callers : w \in Ahead(call[c])
    /\ \A c \in Callers : FlagsOK(call[c])

\* Every step of a call but those that write enable, loaded or the switch.
LEMMA LaunchKept ==
    ASSUME Typing, SerialInv, Launching, NEW c \in Callers, CallStep(c),
           (enable \subseteq object)',
           \A w \in Wallets : Lacks(w)' /\ (Lacks(w) => w \in Ahead(call[c])) => w \in Ahead(call'[c]),
           FlagsOK(call[c])'
    PROVE  Launching'
<1>a. /\ \A d \in Callers \ {c} : At(d, "idle") /\ call'[d] = call[d]
      /\ phase' = phase
  BY CallShape DEF SerialInv
<1>1. \A w \in Wallets : Lacks(w) => w \in Ahead(call[c])
  BY <1>a, Zenon DEF Launching, Ahead, At
<1>2. \A d \in Callers \ {c} : FlagsOK(call[d])'
  BY <1>a DEF FlagsOK, At
<1> QED BY <1>1, <1>2, Zenon DEF Launching

LEMMA LaunchCall ==
    ASSUME Typing, Refs, SerialInv, Launching, NEW c \in Callers, CallStep(c)
    PROVE  Launching'
<1> USE DEF OnlyCall, walletVars, flagVars, At, Goto
<1>a. /\ call \in [Callers -> CallType] /\ stakers \in [Wallets -> Threads \cup {None}]
      /\ call[c] \in CallType /\ active \in BOOLEAN /\ call[c].on \in BOOLEAN
      /\ call[c].pc \in WalletPcs => call[c].w \in Wallets
      /\ call[c].todo \subseteq Wallets
      /\ loaded \subseteq Wallets /\ enable \subseteq Wallets
      /\ enable \subseteq object /\ loaded \subseteq object
      /\ phase' = phase
  BY CallShape, Zenon DEF Typing, TypeOK, CallOK, CallType, Launching, Refs
<1>f. FlagsOK(call[c])
  BY DEF Launching
\* Calls that neither launch nor stop anything.
<1>1. ASSUME UNCHANGED <<active, stakers>>, loaded' \subseteq loaded, enable' \subseteq enable,
             (enable \subseteq object)',
             Ahead(call[c]) \subseteq Ahead(call'[c]),
             call'[c].pc \notin {"setArg", "stop", "remove"}
      PROVE  Launching'
  <2>1. \A w \in Wallets : Lacks(w)' => Lacks(w)
    BY <1>a, <1>1 DEF Lacks
  <2>2. FlagsOK(call[c])'
    BY <1>1 DEF FlagsOK
  <2> QED BY <1>1, <2>1, <2>2, LaunchKept
\* Calls that are done with one wallet.
<1>2. ASSUME NEW v, UNCHANGED <<active, loaded, enable, object>>,
             \A w \in Wallets \ {v} : stakers'[w] = stakers[w],
             Ahead(call[c]) \subseteq Ahead(call'[c]) \cup {v},
             v \in Wallets => ~Lacks(v)',
             call'[c].pc \notin {"setArg", "stop", "remove"}
      PROVE  Launching'
  <2>1. \A w \in Wallets : Lacks(w)' => Lacks(w) /\ w # v
    BY <1>a, <1>2 DEF Lacks
  <2>2. FlagsOK(call[c])'
    BY <1>2 DEF FlagsOK
  <2>3. (enable \subseteq object)'
    BY <1>a, <1>2
  <2> QED BY <1>2, <2>1, <2>2, <2>3, LaunchKept, Zenon
\* Calls that go on to every loaded wallet, or that find the switch off.
<1>3. ASSUME enable' \subseteq object', UNCHANGED <<loaded, phase>>, ~active' \/ loaded \subseteq Ahead(call'[c]),
             FlagsOK(call[c])'
      PROVE  Launching'
  <2>1. \A w \in Wallets : Lacks(w)' => w \in Ahead(call'[c])
    BY <1>3 DEF Lacks
  <2> QED BY <1>3, <2>1, LaunchKept
<1>4. CASE ReleaseErase(c)
  <2>1. /\ call'[c].pc = call[c].pc /\ call'[c].w = call[c].w /\ call'[c].todo = call[c].todo
        /\ call'[c].on = call[c].on
        /\ UNCHANGED <<active, stakers, loaded, enable, object>>
    BY <1>a, <1>4 DEF ReleaseErase, CallType
  <2>2. FlagsOK(call[c])'
    BY <1>a, <1>f, <2>1 DEF FlagsOK
  <2>3. Ahead(call'[c]) = Ahead(call[c])
    BY <2>1, Zenon DEF Ahead
  <2>4. \A w \in Wallets : Lacks(w)' => Lacks(w)
    BY <1>a, <2>1 DEF Lacks
  <2> QED BY <1>a, <2>1, <2>2, <2>3, <2>4, LaunchKept, Zenon
<1>5. CASE ReturnDrop(c)
  <2>1. PICK w \in call[c].refs :
          LET left == call[c].refs \ {w}
          IN  DropRef(c, w, IF left = {} THEN IdleCall
                            ELSE [IdleCall EXCEPT !.pc = "return", !.refs = left])
    BY <1>5, Zenon DEF ReturnDrop
  <2>2. call'[c].pc \in {"idle", "return"}
    BY <1>a, <2>1 DEF DropRef, IdleCall
  <2>3. enable' \subseteq object' /\ enable' \subseteq enable
    BY <1>a, <2>1 DEF DropRef, Release
  <2>4. call[c].pc = "return" /\ UNCHANGED <<active, stakers, loaded>>
    BY <1>5, Zenon DEF ReturnDrop
  <2> QED BY <1>1, <2>2, <2>3, <2>4, Zenon DEF Ahead
<1>6. CASE Return(c) \/ UpdateStakeSetting(c)
  <2>1. /\ call[c].pc = "return" \/ (call[c].pc = "launch" /\ call[c].todo = {})
        /\ call'[c].pc \in {"idle", "return"}
        /\ UNCHANGED <<active, stakers, loaded, enable, object>>
    <3>1. CASE Return(c)
      BY <1>a, <3>1 DEF Return, IdleCall
    <3>2. CASE UpdateStakeSetting(c)
      <4>1. call'[c].pc = "return"
        BY <1>a, <3>2 DEF UpdateStakeSetting, IdleCall
      <4> QED BY <3>2, <4>1 DEF UpdateStakeSetting
    <3> QED BY <1>6, <3>1, <3>2
  <2>2. Ahead(call[c]) = {}
    BY <2>1, Zenon DEF Ahead
  <2> QED BY <1>1, <1>a, <2>1, <2>2
<1>7. CASE AddCheckActive(c)
  <2>1. /\ UNCHANGED <<active, stakers, loaded, enable, object, phase>> /\ call[c].pc = "add"
        /\ call'[c].w = call[c].w /\ call'[c].todo = call[c].todo
        /\ call'[c].pc = IF active THEN "addGet" ELSE "launch"
    BY <1>a, <1>7 DEF AddCheckActive, CallType
  <2>2. CASE active
    BY <1>1, <1>a, <2>1, <2>2, Zenon DEF Ahead
  <2>3. CASE ~active
    BY <1>3, <1>a, <2>1, <2>3 DEF FlagsOK
  <2> QED BY <2>2, <2>3
<1>8. CASE AddGetWallet(c)
  <2>0. PICK v : v = call[c].w
    OBVIOUS
  <2>1. /\ UNCHANGED <<active, stakers, loaded, enable, object, phase>> /\ call[c].pc = "addGet"
        /\ call'[c].w = call[c].w /\ call'[c].todo = call[c].todo
    BY <1>a, <1>8 DEF AddGetWallet, CallType
  <2>2. CASE call[c].w \in loaded /\ call[c].w \in enable
    <3>1. call'[c].pc = "addLock"
      BY <1>a, <1>8, <2>2 DEF AddGetWallet, CallType
    <3> QED BY <1>1, <1>a, <2>1, <3>1, Zenon DEF Ahead
  <2>3. CASE ~(call[c].w \in loaded /\ call[c].w \in enable)
    <3>1. call'[c].pc = "launch"
      BY <1>a, <1>8, <2>3 DEF AddGetWallet, CallType
    <3>2. ~Lacks(v)'
      BY <2>0, <2>1, <2>3 DEF Lacks
    <3>3. Ahead(call[c]) \subseteq Ahead(call'[c]) \cup {v}
      BY <2>0, <2>1, <3>1 DEF Ahead
    <3> QED BY <1>2, <2>1, <3>1, <3>2, <3>3
  <2> QED BY <2>2, <2>3
<1>9. CASE AddAlreadyStaking(c) \/ AddReap(c)
  <2>0. PICK v : v = call[c].w
    OBVIOUS
  <2>1. /\ UNCHANGED <<active, stakers, loaded, enable, object, phase>> /\ call[c].pc = "addLock"
        /\ call'[c].todo = call[c].todo
        /\ call'[c].pc \in {"launch", "addJoin"}
        /\ stakers[call[c].w] # None
    BY <1>a, <1>9 DEF AddAlreadyStaking, AddReap, CallType
  <2>2. ~Lacks(v)'
    BY <2>0, <2>1 DEF Lacks
  <2>3. Ahead(call[c]) \subseteq Ahead(call'[c]) \cup {v}
    BY <2>0, <2>1 DEF Ahead
  <2> QED BY <1>2, <2>1, <2>2, <2>3, Zenon
<1>10. ASSUME NEW t \in Threads, AddNew(c, t) PROVE Launching'
  <2>0. PICK v : v = call[c].w
    OBVIOUS
  <2>1. /\ UNCHANGED <<active, loaded, enable, object, phase>> /\ call[c].pc = "addLock"
        /\ call'[c].todo = call[c].todo /\ call'[c].pc = "launch"
        /\ call[c].w \in Wallets
        /\ stakers' = [stakers EXCEPT ![call[c].w] = t]
    BY <1>a, <1>10 DEF AddNew, Spawn, CallType, WalletPcs
  <2>2. ~Lacks(v)'
    BY <1>a, <2>0, <2>1, Disjoint DEF Lacks
  <2>3. Ahead(call[c]) \subseteq Ahead(call'[c]) \cup {v}
    BY <2>0, <2>1 DEF Ahead
  <2>4. \A w \in Wallets \ {v} : stakers'[w] = stakers[w]
    BY <1>a, <2>0, <2>1
  <2> QED BY <1>2, <2>1, <2>2, <2>3, <2>4, Zenon
<1>11. CASE AddReplace(c)
  <2>1. /\ UNCHANGED <<active, loaded, enable, object, phase>> /\ call[c].pc = "addJoin"
        /\ call'[c].todo = call[c].todo /\ call'[c].pc = "launch"
        /\ stakers' = [stakers EXCEPT ![call[c].w] = stakers[call[c].w]]
    BY <1>a, <1>11 DEF AddReplace, Spawn, CallType
  <2>2. stakers' = stakers
    BY <1>a, <2>1
  <2>3. Ahead(call[c]) \subseteq Ahead(call'[c])
    BY <2>1 DEF Ahead
  <2> QED BY <1>1, <1>a, <2>1, <2>2, <2>3
<1>12. CASE StakeWalletRemove(c)
  <2>0. PICK v : v = call[c].w
    OBVIOUS
  <2>1. /\ UNCHANGED <<active, loaded, enable, object, phase>> /\ call[c].pc = "remove"
        /\ call'[c].pc \in {"launch", "interrupt"}
        /\ stakers' = stakers \/ stakers' = [stakers EXCEPT ![call[c].w] = None]
    BY <1>a, <1>12 DEF StakeWalletRemove, CallType
  <2>2. ~Lacks(v)'
    BY <1>f, <2>0, <2>1 DEF Lacks, FlagsOK
  <2>3. Ahead(call[c]) = {}
    BY <2>1 DEF Ahead
  <2>4. \A w \in Wallets \ {v} : stakers'[w] = stakers[w]
    BY <1>a, <2>0, <2>1
  <2> QED BY <1>2, <2>1, <2>2, <2>3, <2>4
<1>13. CASE StopThreads(c)
  <2>1. /\ UNCHANGED <<active, loaded, enable, object, phase>> /\ call[c].pc = "stop"
        /\ call'[c].pc = "interrupt"
    BY <1>a, <1>13 DEF StopThreads, CallType
  <2>2. \A w \in Wallets : ~Lacks(w)'
    BY <1>f, <2>1 DEF Lacks, FlagsOK
  <2>3. FlagsOK(call[c])'
    BY <2>1 DEF FlagsOK
  <2> QED BY <1>a, <2>1, <2>2, <2>3, LaunchKept, Zenon
<1>14. CASE InterruptTaken(c) \/ JoinTaken(c)
  <2>1. /\ UNCHANGED <<active, stakers, loaded, enable, object>>
        /\ call[c].pc \in {"interrupt", "join"}
    BY <1>14 DEF InterruptTaken, JoinTaken
  <2>2. call'[c].pc \in {"join", "launch"}
    BY <1>a, <1>14 DEF InterruptTaken, JoinTaken, CallType
  <2>3. Ahead(call[c]) = {}
    BY <2>1 DEF Ahead
  <2> QED BY <1>1, <1>a, <2>1, <2>2, <2>3
<1>15. CASE SetStakingActive(c)
  <2>1. /\ UNCHANGED <<stakers, loaded, enable, object, phase>> /\ call'[c].on = call[c].on
        /\ active' = call[c].on /\ call[c].on \in BOOLEAN
        /\ call'[c].pc \in {"setArg", IF call[c].on THEN "start" ELSE "stop"}
    BY <1>a, <1>15 DEF SetStakingActive, StartOrStop, CallType
  <2>2. CASE call[c].on
    <3>1. FlagsOK(call[c])' /\ Ahead(call'[c]) = Wallets
      BY <2>1, <2>2 DEF FlagsOK, Ahead
    <3> QED BY <1>3, <1>a, <2>1, <3>1, Zenon
  <2>3. CASE ~call[c].on
    <3>1. FlagsOK(call[c])' /\ ~active'
      BY <2>1, <2>3 DEF FlagsOK
    <3> QED BY <1>3, <1>a, <2>1, <3>1, Zenon
  <2> QED BY <2>2, <2>3
<1>16. CASE SetStakingArg(c)
  <2>1. /\ UNCHANGED <<active, stakers, loaded, enable, object, phase>>
        /\ active = call[c].on
        /\ call'[c].pc = IF call[c].on THEN "start" ELSE "stop"
    BY <1>a, <1>f, <1>16 DEF SetStakingArg, StartOrStop, CallType, FlagsOK
  <2>2. CASE call[c].on
    <3>1. FlagsOK(call[c])' /\ Ahead(call'[c]) = Wallets
      BY <2>1, <2>2 DEF FlagsOK, Ahead
    <3> QED BY <1>3, <1>a, <2>1, <3>1, Zenon
  <2>3. CASE ~call[c].on
    <3>1. FlagsOK(call[c])' /\ ~active'
      BY <2>1, <2>3 DEF FlagsOK
    <3> QED BY <1>3, <1>a, <2>1, <3>1, Zenon
  <2> QED BY <2>2, <2>3
<1>17. CASE Start(c)
  <2>1. /\ UNCHANGED <<active, stakers, loaded, enable, object, phase>>
        /\ call'[c].pc = IF active THEN "initWallets" ELSE "launch"
    BY <1>a, <1>17 DEF Start, CallType
  <2>2. FlagsOK(call[c])' /\ (active => Ahead(call'[c]) = Wallets)
    BY <2>1 DEF FlagsOK, Ahead
  <2>3. CASE active
    BY <1>3, <1>a, <2>1, <2>2, <2>3, Zenon
  <2>4. CASE ~active
    BY <1>3, <1>a, <2>1, <2>2, <2>4, Zenon
  <2> QED BY <2>3, <2>4
<1>18. CASE InitWallets(c)
  <2>1. /\ UNCHANGED <<active, stakers, loaded, object, phase>>
        /\ call'[c].pc = "launchAll"
    BY <1>a, <1>18 DEF InitWallets, CallType
  <2>2. enable' \subseteq enable \cup loaded
    <3> DEFINE Reached == {i \in DOMAIN stakeSetting :
                             \A j \in 1..i : stakeSetting[j] \in loaded}
    <3>1. enable' = enable \cup ({stakeSetting[i] : i \in Reached} \cap CanStake)
      BY <1>18 DEF InitWallets
    <3>2. \A i \in Reached : stakeSetting[i] \in loaded
      OBVIOUS
    <3> QED BY <3>1, <3>2
  <2>3. FlagsOK(call[c])' /\ Ahead(call'[c]) = Wallets
    BY <2>1 DEF FlagsOK, Ahead
  <2> QED BY <1>3, <1>a, <2>1, <2>2, <2>3, Zenon
<1>19. CASE LaunchStakingThreads(c)
  <2>1. /\ UNCHANGED <<active, stakers, loaded, enable, object, phase>>
        /\ call'[c].pc = "launch" /\ call'[c].todo = loaded
    BY <1>a, <1>19 DEF LaunchStakingThreads, CallType
  <2>2. FlagsOK(call[c])' /\ Ahead(call'[c]) = loaded
    BY <2>1 DEF FlagsOK, Ahead
  <2> QED BY <1>3, <1>a, <2>1, <2>2, Zenon
<1>20. CASE LaunchNext(c)
  <2>1. PICK w \in call[c].todo :
          call' = [call EXCEPT ![c].todo = @ \ {w}, ![c].w = w,
                               ![c].pc = IF Launched(w) THEN "add" ELSE "launch"]
    BY <1>20, Zenon DEF LaunchNext
  <2>2. /\ UNCHANGED <<active, stakers, loaded, enable, object, phase>>
        /\ call[c].pc = "launch"
    BY <1>20, Zenon DEF LaunchNext
  <2>3. /\ call'[c].todo = call[c].todo \ {w} /\ call'[c].w = w
        /\ call'[c].pc = IF Launched(w) THEN "add" ELSE "launch"
    BY <1>a, <2>1 DEF CallType
  <2>4. CASE Launched(w)
    <3>1. call'[c].pc = "add"
      BY <2>3, <2>4
    <3>2. Ahead(call[c]) \subseteq Ahead(call'[c])
      BY <2>2, <2>3, <3>1 DEF Ahead
    <3> QED BY <1>1, <1>a, <2>2, <3>1, <3>2, Zenon
  <2>5. CASE ~Launched(w)
    <3>1. call'[c].pc = "launch"
      BY <2>3, <2>5
    <3>2. Ahead(call[c]) \subseteq Ahead(call'[c]) \cup {w}
      BY <2>2, <2>3, <3>1 DEF Ahead
    <3>3. ~Lacks(w)'
      BY <2>2, <2>5, Zenon DEF Lacks, Launched
    <3> QED BY <1>2, <2>2, <3>1, <3>2, <3>3, Zenon
  <2> QED BY <2>4, <2>5
<1>21. CASE RemoveWallet(c)
  <2>1. /\ UNCHANGED <<active, stakers, enable, object>> /\ loaded' \subseteq loaded
        /\ call[c].pc = "unloadRemove"
        /\ call'[c].pc \in {"unloadInsert", "return"}
    BY <1>a, <1>21 DEF RemoveWallet, CallType
  <2>2. Ahead(call[c]) = {}
    BY <2>1 DEF Ahead
  <2> QED BY <1>1, <1>a, <2>1, <2>2
<1>22. CASE UnloadInsert(c) \/ UnloadFlag(c) \/ UnloadNotify(c) \/ UnloadWait(c)
  <2>1. /\ UNCHANGED <<active, stakers, enable, object, loaded>>
        /\ call[c].pc \in {"unloadInsert", "unloadFlag", "unloadNotify", "unloadWait"}
        /\ call'[c].pc \in {"unloadFlag", "unloadNotify", "unloadReset", "return"}
    BY <1>a, <1>22 DEF UnloadInsert, UnloadFlag, UnloadNotify, UnloadWait, CallType
  <2>2. Ahead(call[c]) = {}
    BY <2>1 DEF Ahead
  <2> QED BY <1>1, <1>a, <2>1, <2>2, Zenon
<1>23. CASE UnloadReset(c)
  <2>1. /\ UNCHANGED <<active, stakers, loaded>> /\ call[c].pc = "unloadReset"
        /\ call'[c].pc = "unloadWait"
    BY <1>a, <1>23 DEF UnloadReset, DropRef, CallType
  <2>2. enable' \subseteq object' /\ enable' \subseteq enable
    BY <1>a, <1>23 DEF UnloadReset, DropRef, Release
  <2>3. Ahead(call[c]) = {}
    BY <2>1 DEF Ahead
  <2> QED BY <1>1, <2>1, <2>2, <2>3
<1> QED BY <1>4, <1>5, <1>6, <1>7, <1>8, <1>9, <1>10, <1>11, <1>12, <1>13, <1>14, <1>15,
           <1>16, <1>17, <1>18, <1>19, <1>20, <1>21, <1>22, <1>23 DEF CallStep, LockStep

LEMMA LaunchNew ==
    ASSUME Typing, Refs, SerialInv, Launching, NEW c \in Workers, NewCall(c), SerialStep
    PROVE  Launching'
<1> USE DEF OnlyCall, walletVars, flagVars
<1>a. /\ call \in [Callers -> CallType] /\ c \in Callers
      /\ stakers \in [Wallets -> Threads \cup {None}]
      /\ enable \subseteq object /\ loaded \subseteq object
      /\ At(c, "idle") /\ phase' = phase
      /\ \A d \in Callers \ {c} : call'[d] = call[d]
  BY NewCallShape, Disjoint, Zenon DEF Typing, TypeOK, Launching, Refs
<1>1. CASE call' = call
  <2>1. UNCHANGED <<active, stakers, enable>>
    <3>1. ASSUME NEW w \in Wallets, LoadWallet(c, w) PROVE UNCHANGED <<active, stakers, enable>>
      BY <3>1 DEF LoadWallet
    <3>2. ASSUME NEW on \in BOOLEAN, SetNodeStaking(c, on)
          PROVE  UNCHANGED <<active, stakers, enable>>
      BY <3>2 DEF SetNodeStaking
    <3>3. ASSUME NEW w \in Wallets, UnloadGet(c, w) PROVE UNCHANGED <<active, stakers, enable>>
      BY <3>3 DEF UnloadGet
    <3>4. ASSUME NEW w \in Wallets, NEW on \in BOOLEAN, NEW opt \in LoadOptions,
                 SetStaking(c, w, on, opt)
          PROVE  FALSE
      <4>1. call'[c].pc # "idle"
        BY <1>a, <3>4 DEF SetStaking, IdleCall
      <4> QED BY <1>1, <1>a, <4>1 DEF At
    <3> QED BY <3>1, <3>2, <3>3, <3>4 DEF NewCall
  <2>2. object \subseteq object' /\ loaded' \cap object \subseteq loaded
    <3>1. ASSUME NEW w \in Wallets, LoadWallet(c, w)
          PROVE  object \subseteq object' /\ loaded' \cap object \subseteq loaded
      BY <3>1 DEF LoadWallet
    <3>2. ASSUME NEW on \in BOOLEAN, SetNodeStaking(c, on)
          PROVE  object' = object /\ loaded' = loaded
      BY <3>2 DEF SetNodeStaking
    <3>3. ASSUME NEW w \in Wallets, UnloadGet(c, w) PROVE object' = object /\ loaded' = loaded
      BY <3>3 DEF UnloadGet
    <3>4. ASSUME NEW w \in Wallets, NEW on \in BOOLEAN, NEW opt \in LoadOptions,
                 SetStaking(c, w, on, opt)
          PROVE  object' = object /\ loaded' = loaded
      BY <3>4 DEF SetStaking
    <3> QED BY <3>1, <3>2, <3>3, <3>4 DEF NewCall
  <2>3. \A w \in Wallets : Lacks(w)' => Lacks(w)
    BY <1>a, <2>1, <2>2 DEF Lacks
  <2>4. \A d \in Callers : FlagsOK(call[d])'
    BY <1>1, <1>a, <2>1 DEF Launching, FlagsOK
  <2> QED BY <1>1, <1>a, <2>1, <2>2, <2>3, <2>4 DEF Launching
<1>2. CASE NewRequest
  <2>1. Quiet /\ phase # "boot"
    BY <1>2 DEF SerialStep
  <2>2. \A w \in Wallets : ~Lacks(w)
    BY <2>1 DEF Launching, Quiet, At, Ahead
  <2>3. \A d \in Callers \ {c} : FlagsOK(call[d])'
    BY <1>a, <2>1 DEF FlagsOK, Quiet, At
  <2>4. ASSUME NEW w \in Wallets, NEW on \in BOOLEAN, NEW opt \in LoadOptions,
               SetStaking(c, w, on, opt)
        PROVE  Launching'
    <3>1. /\ UNCHANGED <<active, stakers, loaded, object>> /\ w \in loaded
          /\ call'[c].w = w /\ call'[c].pc = IF on THEN "add" ELSE "remove"
          /\ enable' = IF on THEN enable \cup {w} ELSE enable \ {w}
      BY <1>a, <2>1, <2>4 DEF SetStaking, IdleCall
    <3>2. FlagsOK(call[c])'
      BY <3>1 DEF FlagsOK
    <3>3. \A v \in Wallets : Lacks(v)' => v = w /\ call'[c].pc = "add"
      BY <1>a, <2>2, <3>1, Zenon DEF Lacks
    <3>4. call'[c].pc = "add" => w \in Ahead(call'[c])
      BY <3>1 DEF Ahead
    <3> QED BY <1>a, <2>3, <3>1, <3>2, <3>3, <3>4, Zenon DEF Launching
  <2>5. ASSUME UNCHANGED <<active, stakers, loaded, object, enable>>,
               call'[c].pc \in {"idle", "setActive", "unloadRemove"}
        PROVE  Launching'
    <3>1. \A v \in Wallets : ~Lacks(v)'
      BY <1>a, <2>2, <2>5 DEF Lacks
    <3>2. FlagsOK(call[c])'
      BY <2>5 DEF FlagsOK
    <3> QED BY <1>a, <2>3, <2>5, <3>1, <3>2, Zenon DEF Launching
  <2>6. ASSUME NEW on \in BOOLEAN, SetNodeStaking(c, on) PROVE Launching'
    <3>1. UNCHANGED <<active, stakers, loaded, object, enable>>
      BY <2>6 DEF SetNodeStaking
    <3>2. call'[c].pc \in {"idle", "setActive"}
      <4>1. CASE call' = call
        BY <1>a, <4>1 DEF At
      <4>2. CASE call' = [call EXCEPT ![c] = [IdleCall EXCEPT !.pc = "setActive", !.on = on]]
        BY <1>a, <4>2 DEF IdleCall
      <4> QED BY <2>6, <4>1, <4>2 DEF SetNodeStaking
    <3> QED BY <2>5, <3>1, <3>2
  <2>7. ASSUME NEW w \in Wallets, UnloadGet(c, w) PROVE Launching'
    <3>1. /\ UNCHANGED <<active, stakers, loaded, object, enable>>
          /\ call'[c].pc = "unloadRemove"
      BY <1>a, <2>7 DEF UnloadGet, IdleCall
    <3> QED BY <2>5, <3>1
  <2>8. ASSUME NEW w \in Wallets, LoadWallet(c, w) PROVE Launching'
    BY <1>1, <2>8 DEF LoadWallet
  <2> QED BY <2>4, <2>6, <2>7, <2>8 DEF NewCall
<1> QED BY <1>1, <1>2, NewCallShape

LEMMA LaunchThread ==
    ASSUME Typing, Launching, NEW t \in Threads, ThreadStep(t)
    PROVE  Launching'
<1>a. UNCHANGED <<call, phase, stakers, loaded, active>>
  BY ThreadShape
<1>1. enable' \subseteq enable /\ (enable \subseteq object)'
  <2>0. enable \subseteq object
    BY DEF Launching
  <2>1. CASE ThreadRelease(t)
    BY <2>0, <2>1, Zenon DEF ThreadRelease, Release
  <2>2. CASE ThreadConnect(t) \/ ThreadReturn(t) \/ ThreadErase(t)
    BY <2>0, <2>2 DEF ThreadConnect, ThreadReturn, ThreadErase, walletVars
  <2>3. CASE OnlyThread
    BY <2>0, <2>3 DEF OnlyThread, walletVars
  <2> QED BY <2>1, <2>2, <2>3, Zenon DEF ThreadStep, ThreadCheckUnloading, MinerInit, MinerLoop,
             MinerPassRests, MinerPassFails, MinerSleep
<1>2. \A w \in Wallets : Lacks(w)' => Lacks(w)
  BY <1>a, <1>1 DEF Lacks
<1>3. \A d \in Callers : FlagsOK(call[d])'
  BY <1>a, <1>1 DEF Launching, FlagsOK
<1> QED BY <1>a, <1>1, <1>2, <1>3 DEF Launching

LEMMA LaunchMain ==
    ASSUME Typing, SerialInv, Launching, Boot \/ RequestShutdown \/ ShutdownStep
    PROVE  Launching'
<1> USE DEF OnlyCall, walletVars, flagVars, OnlyPhase
<1>a. /\ call \in [Callers -> CallType] /\ Main \in Callers /\ Callers = Workers \cup {Main}
      /\ \A d \in Workers : call'[d] = call[d]
      /\ enable \subseteq object
  BY MainShape, Disjoint, Zenon DEF Typing, TypeOK, Launching, Callers
<1>b. UNCHANGED <<active, stakers, loaded, object, enable>>
  <2>1. CASE Boot \/ RequestShutdown
    BY <2>1 DEF Boot, RequestShutdown
  <2>2. CASE InterruptHTTPServer \/ InterruptStakers
    BY <2>2 DEF InterruptHTTPServer, InterruptStakers
  <2>3. CASE StopHTTPServer \/ DestroyStakeman
    BY <2>3 DEF StopHTTPServer, DestroyStakeman
  <2>4. CASE StakemanGone
    BY <2>4 DEF StakemanGone
  <2>5. CASE UnloadWallets
    BY <2>5 DEF UnloadWallets, UnloadGet
  <2> QED BY <2>1, <2>2, <2>3, <2>4, <2>5 DEF ShutdownStep
<1>1. CASE Boot
  <2>1. phase = "boot" /\ call'[Main].pc = "initWallets"
    BY <1>a, <1>1 DEF Boot, IdleCall
  <2>2. \A d \in Workers : call[d].pc = "idle"
    BY <1>a, <2>1 DEF SerialInv, Quiet, At
  <2>3. \A d \in Callers : FlagsOK(call[d])'
    BY <1>a, <2>1, <2>2 DEF FlagsOK
  <2>4. Ahead(call'[Main]) = Wallets
    BY <2>1 DEF Ahead
  <2> QED BY <1>a, <1>b, <2>3, <2>4 DEF Launching
<1>2. CASE RequestShutdown \/ ShutdownStep
  <2>1. phase' # "up"
    <3>1. CASE RequestShutdown \/ InterruptHTTPServer
      BY <3>1 DEF RequestShutdown, InterruptHTTPServer
    <3>2. CASE InterruptStakers \/ StopHTTPServer
      BY <3>2 DEF InterruptStakers, StopHTTPServer
    <3>3. CASE DestroyStakeman \/ StakemanGone
      BY <3>3 DEF DestroyStakeman, StakemanGone
    <3>4. CASE UnloadWallets
      BY <3>4 DEF UnloadWallets, UnloadGet
    <3> QED BY <1>2, <3>1, <3>2, <3>3, <3>4 DEF ShutdownStep
  <2>2. call' = call \/ call'[Main].pc \in {"stop", "unloadRemove"}
    <3>1. CASE RequestShutdown \/ InterruptHTTPServer
      BY <3>1 DEF RequestShutdown, InterruptHTTPServer
    <3>2. CASE InterruptStakers \/ StakemanGone
      BY <3>2, Zenon DEF InterruptStakers, StakemanGone
    <3>3. CASE DestroyStakeman \/ StopHTTPServer
      BY <1>a, <3>3 DEF DestroyStakeman, StopHTTPServer, IdleCall
    <3>4. CASE UnloadWallets
      BY <1>a, <3>4 DEF UnloadWallets, UnloadGet, IdleCall
    <3> QED BY <1>2, <3>1, <3>2, <3>3, <3>4 DEF ShutdownStep
  <2>3. \A d \in Callers : FlagsOK(call[d])' 
    <3>1. ASSUME NEW d \in Callers, call'[d] = call[d] PROVE FlagsOK(call[d])'
      BY <1>b, <2>1, <3>1 DEF Launching, FlagsOK
    <3>2. CASE call'[Main].pc \in {"stop", "unloadRemove"}
      <4>1. FlagsOK(call[Main])'
        BY <2>1, <3>2 DEF FlagsOK
      <4> QED BY <1>a, <3>1, <4>1
    <3> QED BY <2>2, <3>1, <3>2
  <2>4. \A w \in Wallets : ~Lacks(w)'
    BY <2>1 DEF Lacks
  <2> QED BY <1>a, <1>b, <2>3, <2>4 DEF Launching
<1> QED BY <1>1, <1>2

LEMMA LaunchNextStep ==
    ASSUME Typing, Refs, SerialInv, Launching, [SerialStep]_vars PROVE Launching'
<1>1. CASE UNCHANGED vars
  <2>1. UNCHANGED <<active, stakers, loaded, object, enable, call, phase>>
    BY <1>1 DEF vars, walletVars, flagVars
  <2>2. \A w \in Wallets : Lacks(w)' => Lacks(w)
    BY <2>1 DEF Lacks
  <2>3. \A d \in Callers : FlagsOK(call[d])'
    BY <2>1 DEF Launching, FlagsOK
  <2> QED BY <2>1, <2>2, <2>3 DEF Launching
<1>2. CASE SerialStep
  BY <1>1, <1>2, LaunchCall, LaunchNew, LaunchThread, LaunchMain DEF SerialStep, Next
<1> QED BY <1>1, <1>2

\* With one call at a time, once every call has returned each loaded wallet that
\* is enabled has a staking thread: what setstaking reports as active is.
THEOREM EnabledHasStaker == SerialSpec => []EnabledWalletHasStaker
<1> DEFINE I == Typing /\ Reach /\ Refs /\ SerialInv /\ Launching
<1>1. Init => I
  <2>2. Init => Launching
    BY DEF Init, Launching, Lacks, FlagsOK, IdleCall
  <2> QED BY SerialInit, <2>2, TypeInit, ReachInit, RefsInit
<1>2. I /\ [SerialStep]_vars => I'
  <2>1. [SerialStep]_vars => [Next]_vars
    BY DEF SerialStep
  <2> QED BY <2>1, TypeNext, ReachNext, RefsNext, SerialNext, LaunchNextStep
<1>3. I => EnabledWalletHasStaker
  <2> SUFFICES ASSUME Typing, Launching, Quiet, phase = "up", active,
                      NEW w \in enable \cap loaded \cap CanStake, stakers[w] = None
               PROVE  FALSE
    BY DEF EnabledWalletHasStaker
  <2>1. w \in Wallets /\ Lacks(w)
    BY DEF Lacks, Typing, TypeOK
  <2> QED BY <2>1 DEF Launching, Quiet, At, Ahead
<1> QED BY <1>1, <1>2, <1>3, PTL DEF SerialSpec, SerialStep
=============================================================================
