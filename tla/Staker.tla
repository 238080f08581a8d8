------------------------------- MODULE Staker -------------------------------
(***************************************************************************)
(* The stake manager (CStakeman, staker.cpp), its staking threads          *)
(* (ThreadStaker and the control skeleton of PoSMiner, miner.cpp), the     *)
(* calls that start and stop them (the setstaking and staking RPCs), and   *)
(* the two lifecycles that race with them: loading and unloading a wallet  *)
(* (wallet.cpp), and the node's start and shutdown (init.cpp).             *)
(*                                                                         *)
(* A caller is a thread of the node that runs one operation at a time: an  *)
(* HTTP worker executing an RPC, or the main thread.  Every action is what *)
(* the code does between two points where another thread can interfere.    *)
(* A shared_ptr to a wallet is a member of a caller's refs, or is implied  *)
(* by a staking thread's program counter, or is vpwallets' own.            *)
(***************************************************************************)
EXTENDS Sequences, FiniteSets, Integers

CONSTANTS
    Wallets,        \* wallet names
    CanStake,       \* the wallets for which canStake() is true
    Workers,        \* HTTP worker threads
    Main,           \* the main thread
    Threads,        \* staking threads (std::thread objects), reused once joined
    None,
    Requests,       \* the RPCs that clients of the node call
    LoadOptions,    \* the load_on_startup values a setstaking may carry
    InitSettings    \* the -stake lists the node may start with

ASSUME StakerAssumption ==
    /\ CanStake \subseteq Wallets
    /\ Main \notin Workers
    /\ None \notin Wallets \cup Threads \cup Workers \cup {Main}
    /\ Threads \cap (Workers \cup {Main}) = {}
    /\ Wallets \cap (Workers \cup {Main}) = {}
    /\ Requests \subseteq {"setstaking", "staking", "loadwallet", "unloadwallet"}
    /\ LoadOptions \subseteq {"keep", "add", "remove"}
    /\ InitSettings \subseteq Seq(Wallets)

Callers == Workers \cup {Main}

VARIABLES
    loaded,         \* vpwallets: the loaded wallets
    object,         \* the wallets whose CWallet exists
    unloading,      \* m_unloading of each CWallet
    enable,         \* fEnableStaking of each CWallet
    unloadSet,      \* g_unloading_wallet_set
    stakeSetting,   \* the -stake list (settings.json)
    active,         \* fStakingActive
    argStaking,     \* the -staking argument
    stakers,        \* m_stakers: wallet name -> thread
    lock,           \* the caller holding cs_threadStakeMinterGroup across steps
    tpc,            \* where each staking thread is
    twallet,        \* the wallet each staking thread was started for
    subscribers,    \* threads whose slot is connected to NotifyUnload
    interrupt,      \* threads whose CThreadInterrupt flag is set
    call,           \* what each caller is executing
    phase           \* how far the node's start and shutdown have come

walletVars == <<loaded, object, unloading, unloadSet>>
threadVars == <<tpc, twallet, subscribers, interrupt>>
flagVars == <<active, argStaking, stakeSetting>>
vars == <<walletVars, threadVars, flagVars, enable, stakers, lock, call, phase>>

Phases == {"boot", "up", "requested", "closed", "interrupted", "stopping",
           "destroying", "gone"}

CallPcs == {"idle", "add", "addGet", "addLock", "addJoin", "remove",
            "stop", "interrupt", "join", "setActive", "setArg", "start",
            "initWallets", "launchAll", "launch", "return",
            "unloadRemove", "unloadInsert", "unloadFlag", "unloadNotify",
            "unloadReset", "unloadWait"}

ThreadPcs == {"none", "start", "connected", "init", "loop", "sync", "sleep",
              "stopping", "finished", "erasing", "exited"}

\* Positions at which a staking thread's callable still holds its wallet.
HoldsRef == {"start", "connected", "init", "loop", "sync", "sleep", "stopping",
             "finished"}

\* Positions inside PoSMiner's loop: the thread may search for a kernel.
Staking == {"loop", "sync", "sleep"}

\* *finished is set.
Finished(t) == tpc[t] \in {"finished", "erasing", "exited"}

IdleCall == [pc |-> "idle", w |-> None, on |-> FALSE, opt |-> "keep",
             refs |-> {}, join |-> {}, todo |-> {}, del |-> None]

CallType == [pc : CallPcs, w : Wallets \cup {None}, on : BOOLEAN,
             opt : {"keep", "add", "remove"}, refs : SUBSET Wallets,
             join : SUBSET Threads, todo : SUBSET Wallets,
             del : Wallets \cup {None}]

Init ==
    /\ loaded \in SUBSET Wallets
    /\ object = loaded
    /\ unloading = {}
    /\ enable = {}
    /\ unloadSet = {}
    /\ stakeSetting \in InitSettings
    /\ argStaking \in BOOLEAN
    /\ active = argStaking
    /\ stakers = [w \in Wallets |-> None]
    /\ lock = None
    /\ tpc = [t \in Threads |-> "none"]
    /\ twallet = [t \in Threads |-> None]
    /\ subscribers = {}
    /\ interrupt = {}
    /\ call = [c \in Callers |-> IdleCall]
    /\ phase = "boot"

\* ShutdownRequested()
ShutdownRequested == phase \notin {"boot", "up"}

\* The HTTP server hands out requests until InterruptHTTPServer().
RpcOpenMutant == phase \notin {"stopping", "destroying", "gone"}
RpcOpen == phase \in {"boot", "up", "requested"}

\* The scheduler, which drains the validation queue, stops after the staking
\* threads were joined.
SchedulerRuns == phase \notin {"destroying", "gone"}

At(c, p) == call[c].pc = p /\ call[c].del = None

Goto(c, p) == call' = [call EXCEPT ![c].pc = p]

\* Nothing but the caller's own position and locals changes.
OnlyCall == UNCHANGED <<walletVars, threadVars, flagVars, enable, stakers, lock, phase>>

-----------------------------------------------------------------------------
(* References to a wallet.  The last one to go deletes the CWallet and then, *)
(* in the same ReleaseWallet call, erases its name from the unloading set.   *)

RefHolders(w) == {c \in Callers : w \in call[c].refs}
                 \cup {t \in Threads : twallet[t] = w /\ tpc[t] \in HoldsRef}

LastRef(w, x) == w \notin loaded /\ RefHolders(w) \subseteq {x}

\* x lets go of w: the last reference deletes the CWallet and its fields.
Release(w, x) ==
    LET gone == IF LastRef(w, x) THEN {w} ELSE {}
    IN  /\ object' = object \ gone
        /\ unloading' = unloading \ gone
        /\ enable' = enable \ gone

\* Caller c lets go of w and continues as r.
DropRef(c, w, r) ==
    /\ call' = [call EXCEPT ![c] = [r EXCEPT !.del = IF LastRef(w, c) THEN w ELSE None]]
    /\ Release(w, c)

\* The rest of ReleaseWallet, on a caller.
ReleaseErase(c) ==
    /\ call[c].del # None
    /\ unloadSet' = unloadSet \ {call[c].del}
    /\ call' = [call EXCEPT ![c].del = None]
    /\ UNCHANGED <<loaded, object, unloading, threadVars, flagVars, enable,
                   stakers, lock, phase>>

\* An operation returns: its wallet references go one by one.
ReturnDrop(c) ==
    /\ At(c, "return")
    /\ \E w \in call[c].refs :
         LET left == call[c].refs \ {w}
         IN  DropRef(c, w, IF left = {} THEN IdleCall
                           ELSE [IdleCall EXCEPT !.pc = "return", !.refs = left])
    /\ UNCHANGED <<loaded, unloadSet, threadVars, flagVars, stakers, lock, phase>>

Return(c) ==
    /\ At(c, "return")
    /\ call[c].refs = {}
    /\ call' = [call EXCEPT ![c] = IdleCall]
    /\ OnlyCall

-----------------------------------------------------------------------------
(* The setstaking RPC.                                                       *)

\* It enables or disables the wallet, then calls the manager if there is one:
\* the RPC server is up before the manager is created.
SetStaking(c, w, on, opt) ==
    /\ RpcOpen /\ At(c, "idle")
    /\ w \in loaded \cap CanStake
    /\ enable' = IF on THEN enable \cup {w} ELSE enable \ {w}
    /\ call' = [call EXCEPT ![c] =
                  [IdleCall EXCEPT !.pc = IF phase = "boot" THEN "launch"
                                          ELSE IF on THEN "add" ELSE "remove",
                                   !.w = w, !.opt = opt, !.refs = {w}]]
    /\ UNCHANGED <<walletVars, threadVars, flagVars, stakers, lock, phase>>

InSetting(w) == \E i \in DOMAIN stakeSetting : stakeSetting[i] = w

\* The manager is done.  StakeWallet(): load_on_startup edits the persistent
\* -stake list.
UpdateStakeSetting(c) ==
    /\ At(c, "launch")
    /\ call[c].todo = {}
    /\ LET w == call[c].w
           Other(x) == x # w
       IN  stakeSetting' =
             CASE call[c].opt = "add" /\ ~InSetting(w) -> Append(stakeSetting, w)
               [] call[c].opt = "remove" -> SelectSeq(stakeSetting, Other)
               [] OTHER -> stakeSetting
    /\ call' = [call EXCEPT ![c] = [IdleCall EXCEPT !.pc = "return", !.refs = call[c].refs]]
    /\ UNCHANGED <<walletVars, threadVars, active, argStaking, enable, stakers,
                   lock, phase>>

-----------------------------------------------------------------------------
(* CStakeman::StakeWalletAdd.                                                *)

\* The switch is read before the lock is taken.
AddCheckActive(c) ==
    /\ At(c, "add")
    /\ Goto(c, IF active THEN "addGet" ELSE "launch")
    /\ OnlyCall

AddGetWallet(c) ==
    /\ At(c, "addGet")
    /\ LET w == call[c].w IN
       IF w \in loaded /\ w \in enable
       THEN call' = [call EXCEPT ![c].refs = @ \cup {w}, ![c].pc = "addLock"]
       ELSE Goto(c, "launch")
    /\ OnlyCall

\* Start thread t for caller c's wallet; its entry is made by the starter.
Spawn(c, t) ==
    /\ tpc' = [tpc EXCEPT ![t] = "start"]
    /\ twallet' = [twallet EXCEPT ![t] = call[c].w]
    /\ interrupt' = interrupt \ {t}
    /\ stakers' = [stakers EXCEPT ![call[c].w] = t]
    /\ Goto(c, "launch")

NoEntryMutant(w) == TRUE
NoEntry(w) == stakers[w] = None

\* A running thread has the entry: already staking.
AddAlreadyStaking(c) ==
    /\ At(c, "addLock") /\ lock = None
    /\ LET t == stakers[call[c].w] IN t # None /\ ~Finished(t)
    /\ Goto(c, "launch")
    /\ OnlyCall

AddNew(c, t) ==
    /\ At(c, "addLock") /\ lock = None
    /\ NoEntry(call[c].w) /\ tpc[t] = "none"
    /\ Spawn(c, t)
    /\ UNCHANGED <<walletVars, flagVars, subscribers, enable, lock, phase>>

\* The entry's thread has finished: join it with the lock held...
AddReap(c) ==
    /\ At(c, "addLock") /\ lock = None
    /\ LET t == stakers[call[c].w] IN t # None /\ Finished(t)
    /\ lock' = c
    /\ Goto(c, "addJoin")
    /\ UNCHANGED <<walletVars, threadVars, flagVars, enable, stakers, phase>>

\* ...and replace it.
UnlockMutant == UNCHANGED lock
Unlock == lock' = None

AddReplace(c) ==
    /\ At(c, "addJoin")
    /\ LET t == stakers[call[c].w] IN tpc[t] = "exited" /\ Spawn(c, t)
    /\ Unlock
    /\ UNCHANGED <<walletVars, flagVars, subscribers, enable, phase>>

-----------------------------------------------------------------------------
(* CStakeman::StakeWalletRemove and StopThreads: take the entries out under  *)
(* the lock, then interrupt and join with the lock released.                 *)

StakeWalletRemove(c) ==
    /\ At(c, "remove") /\ lock = None
    /\ LET w == call[c].w IN
       IF stakers[w] = None
       THEN Goto(c, "launch") /\ UNCHANGED stakers
       ELSE /\ call' = [call EXCEPT ![c].join = {stakers[w]}, ![c].pc = "interrupt"]
            /\ stakers' = [stakers EXCEPT ![w] = None]
    /\ UNCHANGED <<walletVars, threadVars, flagVars, enable, lock, phase>>

Staked == {stakers[w] : w \in Wallets} \ {None}

StopThreads(c) ==
    /\ At(c, "stop") /\ lock = None
    /\ call' = [call EXCEPT ![c].join = Staked, ![c].pc = "interrupt"]
    /\ stakers' = [w \in Wallets |-> None]
    /\ UNCHANGED <<walletVars, threadVars, flagVars, enable, lock, phase>>

InterruptTaken(c) ==
    /\ At(c, "interrupt")
    /\ interrupt' = interrupt \cup call[c].join
    /\ Goto(c, "join")
    /\ UNCHANGED <<walletVars, tpc, twallet, subscribers, flagVars, enable,
                   stakers, lock, phase>>

\* thread.join(): one staking thread is gone, and so is its std::thread.
JoinTaken(c) ==
    /\ At(c, "join")
    /\ IF call[c].join = {}
       THEN Goto(c, "launch") /\ UNCHANGED <<tpc, twallet, interrupt>>
       ELSE \E t \in call[c].join :
              /\ tpc[t] = "exited"
              /\ tpc' = [tpc EXCEPT ![t] = "none"]
              /\ twallet' = [twallet EXCEPT ![t] = None]
              /\ interrupt' = interrupt \ {t}
              /\ call' = [call EXCEPT ![c].join = @ \ {t}]
    /\ UNCHANGED <<walletVars, subscribers, flagVars, enable, stakers,
                   lock, phase>>

-----------------------------------------------------------------------------
(* The staking RPC, CStakeman::SetStakingActive and Start.                   *)

StartOrStop(c) == IF call[c].on THEN "start" ELSE "stop"

\* The argument is forced first; without wallets or a manager that is all.
SetNodeStaking(c, on) ==
    /\ RpcOpen /\ At(c, "idle")
    /\ argStaking' = on
    /\ IF loaded # {} /\ phase # "boot"
       THEN call' = [call EXCEPT ![c] = [IdleCall EXCEPT !.pc = "setActive", !.on = on]]
       ELSE UNCHANGED call
    /\ UNCHANGED <<walletVars, threadVars, active, stakeSetting, enable, stakers,
                   lock, phase>>

SetStakingActive(c) ==
    /\ At(c, "setActive")
    /\ active' = call[c].on
    /\ Goto(c, IF active = call[c].on THEN StartOrStop(c) ELSE "setArg")
    /\ UNCHANGED <<walletVars, threadVars, argStaking, stakeSetting, enable,
                   stakers, lock, phase>>

SetStakingArg(c) ==
    /\ At(c, "setArg")
    /\ argStaking' = call[c].on
    /\ Goto(c, StartOrStop(c))
    /\ UNCHANGED <<walletVars, threadVars, active, stakeSetting, enable, stakers,
                   lock, phase>>

Start(c) ==
    /\ At(c, "start")
    /\ Goto(c, IF active THEN "initWallets" ELSE "launch")
    /\ OnlyCall

\* -stake names are enabled in order, up to the first that is not loaded.
InitWallets(c) ==
    /\ At(c, "initWallets")
    /\ LET Reached == {i \in DOMAIN stakeSetting :
                         \A j \in 1..i : stakeSetting[j] \in loaded}
       IN  enable' = enable \cup ({stakeSetting[i] : i \in Reached} \cap CanStake)
    /\ Goto(c, "launchAll")
    /\ UNCHANGED <<walletVars, threadVars, flagVars, stakers, lock, phase>>

\* getStakingWallets() holds every loaded wallet until the loop ends.
LaunchStakingThreads(c) ==
    /\ At(c, "launchAll")
    /\ call' = [call EXCEPT ![c].refs = @ \cup loaded, ![c].todo = loaded,
                            ![c].pc = "launch"]
    /\ OnlyCall

\* getEnableStaking() and canStake()
LaunchedMutant(w) == InSetting(w)
Launched(w) == w \in enable \cap CanStake

LaunchNext(c) ==
    /\ At(c, "launch")
    /\ \E w \in call[c].todo :
         call' = [call EXCEPT ![c].todo = @ \ {w}, ![c].w = w,
                              ![c].pc = IF Launched(w) THEN "add" ELSE "launch"]
    /\ OnlyCall

-----------------------------------------------------------------------------
(* Loading and unloading a wallet.                                           *)

\* The database can be opened once the previous CWallet is gone.
LoadWallet(c, w) ==
    /\ RpcOpen /\ At(c, "idle")
    /\ w \notin object
    /\ object' = object \cup {w}
    /\ loaded' = loaded \cup {w}
    /\ UNCHANGED <<unloading, unloadSet, threadVars, flagVars, enable, stakers,
                   lock, call, phase>>

\* unloadwallet: GetWallet()...
UnloadGet(c, w) ==
    /\ At(c, "idle")
    /\ w \in loaded
    /\ call' = [call EXCEPT ![c] = [IdleCall EXCEPT !.pc = "unloadRemove", !.w = w,
                                                    !.refs = {w}]]
    /\ OnlyCall

\* ...RemoveWallet(), which another unloadwallet may have done already...
RemoveWallet(c) ==
    /\ At(c, "unloadRemove")
    /\ loaded' = loaded \ {call[c].w}
    /\ Goto(c, IF call[c].w \in loaded THEN "unloadInsert" ELSE "return")
    /\ UNCHANGED <<object, unloading, unloadSet, threadVars, flagVars, enable,
                   stakers, lock, phase>>

\* ...and UnloadWallet().
UnloadInsert(c) ==
    /\ At(c, "unloadInsert")
    /\ unloadSet' = unloadSet \cup {call[c].w}
    /\ Goto(c, "unloadFlag")
    /\ UNCHANGED <<loaded, object, unloading, threadVars, flagVars, enable,
                   stakers, lock, phase>>

UnloadFlag(c) ==
    /\ At(c, "unloadFlag")
    /\ unloading' = unloading \cup {call[c].w}
    /\ Goto(c, "unloadNotify")
    /\ UNCHANGED <<loaded, object, unloadSet, threadVars, flagVars, enable,
                   stakers, lock, phase>>

\* NotifyUnload(): each connected slot interrupts its thread.
UnloadNotify(c) ==
    /\ At(c, "unloadNotify")
    /\ interrupt' = interrupt \cup {t \in subscribers : twallet[t] = call[c].w}
    /\ Goto(c, "unloadReset")
    /\ UNCHANGED <<walletVars, tpc, twallet, subscribers, flagVars, enable,
                   stakers, lock, phase>>

UnloadReset(c) ==
    /\ At(c, "unloadReset")
    /\ DropRef(c, call[c].w, [call[c] EXCEPT !.pc = "unloadWait", !.refs = {}])
    /\ UNCHANGED <<loaded, unloadSet, threadVars, flagVars, stakers, lock, phase>>

ReleasedMutant(w) == TRUE
Released(w) == w \notin unloadSet

UnloadWait(c) ==
    /\ At(c, "unloadWait")
    /\ Released(call[c].w)
    /\ Goto(c, "return")
    /\ OnlyCall

-----------------------------------------------------------------------------
(* Staking threads: ThreadStaker around PoSMiner.                            *)

Move(t, p) == tpc' = [tpc EXCEPT ![t] = p]

\* Nothing but the thread's own position changes.
OnlyThread == UNCHANGED <<walletVars, twallet, subscribers, interrupt, flagVars,
                          enable, stakers, lock, call, phase>>

\* handleUnload()
ThreadConnect(t) ==
    /\ tpc[t] = "start"
    /\ Move(t, "connected")
    /\ subscribers' = subscribers \cup {t}
    /\ UNCHANGED <<walletVars, twallet, interrupt, flagVars, enable, stakers,
                   lock, call, phase>>

\* isUnloading(): the notification may already have been sent.
IsUnloadingMutant(w) == FALSE
IsUnloading(w) == w \in unloading

ThreadCheckUnloading(t) ==
    /\ tpc[t] = "connected"
    /\ Move(t, IF IsUnloading(twallet[t]) THEN "stopping" ELSE "init")
    /\ OnlyThread

\* PoSMiner up to its loop: a keypool that ran out throws, -staking=0 returns.
MinerInit(t) ==
    /\ tpc[t] = "init"
    /\ \/ Move(t, "stopping")
       \/ argStaking /\ Move(t, "loop")
    /\ OnlyThread

StopRequestedMutant(t) == ShutdownRequested
StopRequested(t) == ShutdownRequested \/ ~active \/ twallet[t] \notin enable

\* The loop condition, and the same test in each of the waiting loops, which
\* then sleep (locked wallet, no peers, initial download, synchronising).
MinerLoop(t) ==
    /\ tpc[t] = "loop"
    /\ IF StopRequested(t)
       THEN Move(t, "stopping")
       ELSE Move(t, "sync") \/ Move(t, "sleep")
    /\ OnlyThread

\* One pass after blockUntilSyncedToCurrentChain(), ending in a sleep.
MinerPassRests(t) ==
    /\ tpc[t] = "sync"
    /\ SchedulerRuns
    /\ Move(t, "sleep")
    /\ OnlyThread

\* A pass that ends without sleeping: the block could not be signed (continue),
\* or building it failed (return).
MinerPassFails(t) ==
    /\ tpc[t] = "sync"
    /\ SchedulerRuns
    /\ Move(t, "loop") \/ Move(t, "stopping")
    /\ OnlyThread

\* interrupt.sleep_for() returns false when interrupted.
MinerSleep(t) ==
    /\ tpc[t] = "sleep"
    /\ Move(t, IF t \in interrupt THEN "stopping" ELSE "loop")
    /\ OnlyThread

DisconnectMutant(t) == UNCHANGED subscribers
Disconnect(t) == subscribers' = subscribers \ {t}

\* ThreadStaker returns: its local handler disconnects the slot, and then
\* *finished = true.
ThreadReturn(t) ==
    /\ tpc[t] = "stopping"
    /\ Move(t, "finished")
    /\ Disconnect(t)
    /\ UNCHANGED <<walletVars, twallet, interrupt, flagVars, enable, stakers,
                   lock, call, phase>>

\* The callable goes, and with it the thread's reference to the wallet.
ThreadRelease(t) ==
    /\ tpc[t] = "finished"
    /\ Move(t, IF LastRef(twallet[t], t) THEN "erasing" ELSE "exited")
    /\ Release(twallet[t], t)
    /\ UNCHANGED <<loaded, unloadSet, twallet, subscribers, interrupt, flagVars,
                   stakers, lock, call, phase>>

ThreadErase(t) ==
    /\ tpc[t] = "erasing"
    /\ unloadSet' = unloadSet \ {twallet[t]}
    /\ Move(t, "exited")
    /\ UNCHANGED <<loaded, object, unloading, twallet, subscribers, interrupt,
                   flagVars, enable, stakers, lock, call, phase>>

-----------------------------------------------------------------------------
(* The main thread: AppInitMain's last step, Interrupt() and Shutdown().     *)

OnlyPhase == UNCHANGED <<walletVars, tpc, twallet, subscribers, flagVars, enable,
                         stakers, lock>>

\* CStakeman::Start(scheduler, options): no test of the switch here.
Boot ==
    /\ phase = "boot" /\ At(Main, "idle")
    /\ phase' = "up"
    /\ call' = [call EXCEPT ![Main] = [IdleCall EXCEPT !.pc = "initWallets"]]
    /\ OnlyPhase
    /\ UNCHANGED interrupt

RequestShutdown ==
    /\ phase = "up"
    /\ phase' = "requested"
    /\ OnlyPhase
    /\ UNCHANGED <<call, interrupt>>

InterruptHTTPServer ==
    /\ phase = "requested" /\ At(Main, "idle")
    /\ phase' = "closed"
    /\ OnlyPhase
    /\ UNCHANGED <<call, interrupt>>

\* CStakeman::Interrupt()
InterruptStakers ==
    /\ phase = "closed" /\ At(Main, "idle") /\ lock = None
    /\ phase' = "interrupted"
    /\ interrupt' = interrupt \cup Staked
    /\ OnlyPhase
    /\ UNCHANGED call

\* StopHTTPServer() joins the workers before the manager is stopped.
WorkersJoinedMutant == TRUE
WorkersJoined == \A c \in Workers : At(c, "idle")

StopHTTPServer ==
    /\ phase = "interrupted" /\ At(Main, "idle") /\ WorkersJoined
    /\ phase' = "stopping"
    /\ call' = [call EXCEPT ![Main] = [IdleCall EXCEPT !.pc = "stop"]]
    /\ OnlyPhase
    /\ UNCHANGED interrupt

\* The scheduler stops, then node.stakeman.reset(): ~CStakeman interrupts and
\* stops again.
DestroyStakeman ==
    /\ phase = "stopping" /\ At(Main, "idle") /\ lock = None
    /\ phase' = "destroying"
    /\ interrupt' = interrupt \cup Staked
    /\ call' = [call EXCEPT ![Main] = [IdleCall EXCEPT !.pc = "stop"]]
    /\ OnlyPhase

StakemanGone ==
    /\ phase = "destroying" /\ At(Main, "idle")
    /\ phase' = "gone"
    /\ OnlyPhase
    /\ UNCHANGED <<call, interrupt>>

\* UnloadWallets(), from chain_clients.clear()
UnloadWallets == phase = "gone" /\ \E w \in Wallets : UnloadGet(Main, w)

Terminated == phase = "gone" /\ At(Main, "idle") /\ loaded = {}

-----------------------------------------------------------------------------

\* Steps that take cs_threadStakeMinterGroup.
LockStep(c) ==
    \/ AddAlreadyStaking(c) \/ (\E t \in Threads : AddNew(c, t)) \/ AddReap(c)
    \/ StakeWalletRemove(c) \/ StopThreads(c)

\* One step of the operation that caller c is executing.
CallStep(c) ==
    \/ ReleaseErase(c) \/ ReturnDrop(c) \/ Return(c)
    \/ UpdateStakeSetting(c)
    \/ AddCheckActive(c) \/ AddGetWallet(c) \/ LockStep(c) \/ AddReplace(c)
    \/ InterruptTaken(c) \/ JoinTaken(c)
    \/ SetStakingActive(c) \/ SetStakingArg(c) \/ Start(c) \/ InitWallets(c)
    \/ LaunchStakingThreads(c) \/ LaunchNext(c)
    \/ RemoveWallet(c) \/ UnloadInsert(c) \/ UnloadFlag(c) \/ UnloadNotify(c)
    \/ UnloadReset(c) \/ UnloadWait(c)

\* A request arrives at worker c.
NewCall(c) ==
    \/ /\ "setstaking" \in Requests
       /\ \E w \in Wallets, on \in BOOLEAN, opt \in LoadOptions : SetStaking(c, w, on, opt)
    \/ "staking" \in Requests /\ \E on \in BOOLEAN : SetNodeStaking(c, on)
    \/ "loadwallet" \in Requests /\ \E w \in Wallets : LoadWallet(c, w)
    \/ "unloadwallet" \in Requests /\ RpcOpen /\ \E w \in Wallets : UnloadGet(c, w)

ThreadStep(t) ==
    \/ ThreadConnect(t) \/ ThreadCheckUnloading(t) \/ MinerInit(t) \/ MinerLoop(t)
    \/ MinerPassRests(t) \/ MinerPassFails(t) \/ MinerSleep(t)
    \/ ThreadReturn(t) \/ ThreadRelease(t) \/ ThreadErase(t)

ShutdownStep ==
    \/ InterruptHTTPServer \/ InterruptStakers \/ StopHTTPServer
    \/ DestroyStakeman \/ StakemanGone \/ UnloadWallets

Next ==
    \/ \E c \in Callers : CallStep(c)
    \/ \E c \in Workers : NewCall(c)
    \/ \E t \in Threads : ThreadStep(t)
    \/ Boot \/ RequestShutdown \/ ShutdownStep
    \/ Terminated /\ UNCHANGED vars

Spec == Init /\ [][Next]_vars

(***************************************************************************)
(* Fairness.  The operating system runs every thread: a caller finishes    *)
(* the operation it started, a staking thread goes on, and the main thread *)
(* shuts down once asked to.  Nobody is obliged to make a call.  Strong    *)
(* fairness is assumed twice: a caller is not kept out of the mutex        *)
(* forever by others that lock and release it, and a staking pass does not *)
(* fail to sign its block forever but sleeps in the end.                   *)
(***************************************************************************)
Fairness ==
    /\ \A c \in Callers : WF_vars(CallStep(c)) /\ SF_vars(LockStep(c))
    /\ \A t \in Threads : WF_vars(ThreadStep(t)) /\ SF_vars(MinerPassRests(t))
    /\ WF_vars(Boot)
    /\ WF_vars(ShutdownStep)

FairSpec == Spec /\ Fairness

Quiet == \A c \in Callers : At(c, "idle")

\* The same system with one call at a time: a request is only made when no
\* other operation is under way and the node is up.
NewRequest == \E c \in Workers : call[c].pc = "idle" /\ call'[c].pc # "idle"
SerialSpec == Init /\ [][Next /\ (NewRequest => Quiet /\ phase # "boot")]_vars

-----------------------------------------------------------------------------
(* Properties.                                                               *)

\* Every variable but the -stake list has its type, and the manager's mutex is
\* held across steps only by a StakeWalletAdd that joins the thread it replaces.
TypeOK ==
    /\ loaded \in SUBSET Wallets
    /\ object \in SUBSET Wallets
    /\ unloading \in SUBSET Wallets
    /\ enable \in SUBSET Wallets
    /\ unloadSet \in SUBSET Wallets
    /\ active \in BOOLEAN
    /\ argStaking \in BOOLEAN
    /\ stakers \in [Wallets -> Threads \cup {None}]
    /\ lock \in Callers \cup {None}
    /\ tpc \in [Threads -> ThreadPcs]
    /\ twallet \in [Threads -> Wallets \cup {None}]
    /\ subscribers \in SUBSET Threads
    /\ interrupt \in SUBSET Threads
    /\ call \in [Callers -> CallType]
    /\ phase \in Phases
    /\ \A c \in Callers : lock = c <=> call[c].pc = "addJoin"

\* The owners of a staking thread: whoever can still interrupt and join it.
Owners(t) == {w \in Wallets : stakers[w] = t}
             \cup {c \in Callers : t \in call[c].join}

\* No staking thread is left behind: a thread that was started and not joined
\* has exactly one owner, the map entry of its own wallet or the one operation
\* that took it out to join it ("only one of the two would ever be reachable
\* again for stopping", StakeWalletAdd), however adds, removes and stops
\* interleave; and nothing owns a thread that was joined.
EveryThreadReachable ==
    \A t \in Threads :
        IF tpc[t] = "none" THEN Owners(t) = {}
        ELSE \E o \in Wallets \cup Callers :
               Owners(t) = {o} /\ (o \in Wallets => o = twallet[t])

\* A slot connected to NotifyUnload belongs to a wallet that still exists:
\* ~CWallet's assert(NotifyUnload.empty()) never fires, whichever of the
\* unloading caller, another caller or the staking thread itself drops the
\* last reference (ThreadStaker's handler is disconnected before it).
SubscribersHaveWallet == \A t \in subscribers : twallet[t] \in object

\* The switch, the map and the lock are members of CStakeman that a staking
\* thread reads through a captured this: no thread outlives the manager.
NoThreadOutlivesManager == phase = "gone" => \A t \in Threads : tpc[t] = "none"

\* UnloadWallet's own assert(it.second): the name it marks is not marked yet.
UnloadMarksOnce == \A c \in Callers : At(c, "unloadInsert") => call[c].w \notin unloadSet

\* "One staking thread per wallet": no two threads of one wallet stake at once.
OneThreadPerWallet ==
    \A t, u \in Threads :
        t # u /\ tpc[t] \in Staking /\ tpc[u] \in Staking => twallet[t] # twallet[u]

\* Once every call has returned, a loaded wallet that setstaking reports as
\* enabled ("true:active") has a staking thread, running or finished by itself.
EnabledWalletHasStaker ==
    Quiet /\ phase = "up" /\ active =>
        \A w \in enable \cap loaded \cap CanStake : stakers[w] # None

\* unloadwallet returns: every staking thread lets go of the wallet, the one
\* that subscribes too late to hear NotifyUnload included.
UnloadReturns ==
    \A c \in Callers : call[c].pc = "unloadWait" ~> call[c].pc = "idle"

\* A requested shutdown completes: no staking thread keeps Stop() or the
\* unloading of the wallets waiting.
ShutdownCompletes == ShutdownRequested ~> Terminated

\* Switching staking off works without a further call: when all calls have
\* returned, the threads of a wallet that is not enabled (or of every wallet,
\* when the node's switch is off) leave the staking loop.
DisabledWalletStops ==
    \A t \in Threads :
        (Quiet /\ (~active \/ twallet[t] \notin enable))
            ~> (~Quiet \/ (active /\ twallet[t] \in enable) \/ tpc[t] \notin Staking)
=============================================================================
