---------------------------- MODULE ForcingProofs ----------------------------
(***************************************************************************)
(* Theorems about Forcing for every set of accounts, endpoints and         *)
(* processes.                                                              *)
(***************************************************************************)
EXTENDS Forcing, TLAPS

-----------------------------------------------------------------------------
(* The command table: ending a command, moving on and beginning one keep it  *)
(* well-formed.                                                              *)

LEMMA ExitType ==
    ASSUME NEW p \in Procs, RunOK, Exit(p)
    PROVE  RunOK'
BY DEF RunOK, CommandOK, Exit, Idle, Steps, Verbs, AddSteps, InstallSteps, RemoveSteps, Maybe

LEMMA InstallGoto ==
    ASSUME NEW p \in Procs, NEW step \in AddSteps \union InstallSteps, RunOK, Goto(p, step),
           run[p].at \in AddSteps \union InstallSteps
    PROVE  RunOK'
BY DEF RunOK, CommandOK, Goto, Steps, AddSteps, InstallSteps, RemoveSteps

LEMMA RemoveGoto ==
    ASSUME NEW p \in Procs, NEW step \in RemoveSteps \union {"purge"}, RunOK, Goto(p, step),
           run[p].at \in RemoveSteps
    PROVE  RunOK'
BY DEF RunOK, CommandOK, Goto, Steps, AddSteps, InstallSteps, RemoveSteps

LEMMA BeginType ==
    ASSUME NEW p \in Procs, NEW step \in Steps, NEW verb \in Verbs, NEW a \in Accounts,
           NEW e \in Maybe(Endpoints), RunOK, Begin(p, step, verb, a, e),
           CommandOK([at |-> step, verb |-> verb, acct |-> a, ep |-> e])
    PROVE  RunOK'
BY DEF RunOK, CommandOK, Begin, At, Steps, Verbs, AddSteps, InstallSteps, RemoveSteps, Maybe

\* The account, endpoint and verb of a command, by the step it is at.
LEMMA CommandType ==
    ASSUME NEW p \in Procs, RunOK
    PROVE  /\ run[p].at \in Steps
           /\ CommandOK(run[p])
           /\ run[p].ep \in Maybe(Endpoints)
BY DEF RunOK

-----------------------------------------------------------------------------
(* Type correctness, one lemma per group of steps.                           *)

LEMMA AddTypes ==
    ASSUME NEW p \in Procs, TypeOK, Command(p) \/ AddStep(p)
    PROVE  TypeOK'
<1> USE DEF TypeOK
<1>1. CASE Command(p)
  <2>1. CASE \E a \in Accounts : StartRm(p, a)
    <3>1. PICK a \in Accounts : StartRm(p, a)  BY <2>1
    <3>2. RunOK'
      BY <3>1, BeginType DEF StartRm, CommandOK, Steps, RemoveSteps, AddSteps, InstallSteps, Verbs, Maybe
    <3>3. DiskOK' /\ LiveOK' /\ PastOK'
      BY <3>1 DEF StartRm, Begin, DiskOK, LiveOK, PastOK, disk, live
    <3> QED BY <3>2, <3>3
  <2>2. CASE \E a \in Accounts, e \in Endpoints : StartAdd(p, a, e) \/ StartUpdate(p, a, e)
    <3>1. PICK a \in Accounts, e \in Endpoints : StartAdd(p, a, e) \/ StartUpdate(p, a, e)
      BY <2>2
    <3>2. RunOK'
      BY <3>1, BeginType
         DEF StartAdd, StartUpdate, CommandOK, Steps, RemoveSteps, AddSteps, InstallSteps, Verbs, Maybe
    <3>3. DiskOK' /\ LiveOK' /\ PastOK'
      BY <3>1 DEF StartAdd, StartUpdate, Begin, DiskOK, LiveOK, PastOK, disk, live
    <3> QED BY <3>2, <3>3
  <2> QED BY <1>1, <2>1, <2>2 DEF Command
<1>2. CASE AddStep(p)
  <2>1. RunOK'
    <3>1. CASE ProvisionHalf(p) \/ RefuseAdd(p)
      BY <3>1, ExitType DEF ProvisionHalf, RefuseAdd
    <3>2. CASE Provision(p)
      BY <3>2, InstallGoto DEF Provision, At, AddSteps
    <3>3. CASE SeedHome(p) \/ BuildConfig(p)
      BY <3>3, InstallGoto DEF SeedHome, BuildConfig, At, AddSteps, InstallSteps
    <3> QED BY <1>2, <3>1, <3>2, <3>3 DEF AddStep
  <2>2. DiskOK' /\ LiveOK' /\ PastOK'
    BY <1>2, CommandType DEF CommandOK, At, AddSteps, AddStep, Provision, ProvisionHalf, SeedHome, BuildConfig, RefuseAdd,
                DiskOK, LiveOK, PastOK, disk, live, past
  <2> QED BY <2>1, <2>2
<1> QED BY <1>1, <1>2

LEMMA InstallTypes ==
    ASSUME NEW p \in Procs, TypeOK, InstallStep(p)
    PROVE  TypeOK'
<1> USE DEF TypeOK
<1>1. RunOK'
  <2>1. CASE LoaderWriteFails(p) \/ Finish(p) \/ StartFails(p)
    BY <2>1, ExitType DEF LoaderWriteFails, Finish, StartFails
  <2>2. CASE WriteLedger(p) \/ ApplyBaseline(p) \/ ApplyRules(p) \/ WriteEnv(p)
             \/ WriteBaseFile(p)
    BY <2>2, InstallGoto
       DEF WriteLedger, ApplyBaseline, ApplyRules, WriteEnv, WriteBaseFile, At, InstallSteps
  <2>3. CASE WriteTemplate(p) \/ EnableLoader(p) \/ EnableShim(p) \/ StartShim(p)
    BY <2>3, InstallGoto
       DEF WriteTemplate, EnableLoader, EnableShim, StartShim, At, InstallSteps
  <2>4. CASE WriteRuleFile(p) \/ WriteLoader(p)
    BY <2>4, InstallGoto DEF WriteRuleFile, WriteLoader, AfterUnits, At, InstallSteps
  <2> QED BY <2>1, <2>2, <2>3, <2>4 DEF InstallStep
<1> USE CommandType DEF CommandOK, At, InstallSteps
<1>2. CASE WriteLedger(p) \/ WriteEnv(p) \/ WriteBaseFile(p) \/ WriteRuleFile(p)
  BY <1>1, <1>2 DEF WriteLedger, WriteEnv, WriteBaseFile, WriteRuleFile,
                    DiskOK, LiveOK, PastOK, live, past, Maybe, Torn, FileState
<1>3. CASE WriteTemplate(p) \/ WriteLoader(p) \/ LoaderWriteFails(p)
           \/ EnableLoader(p) \/ EnableShim(p)
  BY <1>1, <1>3 DEF WriteTemplate, WriteLoader, LoaderWriteFails, EnableLoader, EnableShim,
                    DiskOK, LiveOK, PastOK, live, past, FileState
<1>4. CASE ApplyBaseline(p) \/ ApplyRules(p) \/ StartShim(p)
  BY <1>1, <1>4 DEF ApplyBaseline, ApplyRules, StartShim,
                    DiskOK, LiveOK, PastOK, disk, past, Maybe
<1>5. CASE Finish(p) \/ StartFails(p)
  BY <1>1, <1>5 DEF Finish, StartFails, DiskOK, LiveOK, PastOK, disk, live, past
<1> QED BY <1>2, <1>3, <1>4, <1>5 DEF InstallStep

LEMMA RemoveTypes ==
    ASSUME NEW p \in Procs, TypeOK, RemoveStep(p)
    PROVE  TypeOK'
<1> USE DEF TypeOK
<1>1. RunOK'
  <2>1. CASE Purge(p)
    BY <2>1, ExitType DEF Purge
  <2>2. CASE StopShim(p) \/ StopRefused(p) \/ DisableShim(p) \/ DeleteRules(p)
             \/ DeleteBaseline(p) \/ RemoveEnv(p)
    BY <2>2, RemoveGoto DEF StopShim, StopRefused, DisableShim, DeleteRules, DeleteBaseline,
                            RemoveEnv, At, RemoveSteps
  <2>3. CASE RemoveRuleFile(p) \/ RemoveBaseFile(p) \/ RemoveLedger(p) \/ LastCheck(p)
             \/ DisableLoader(p) \/ RemoveTemplate(p) \/ RemoveLoader(p)
    BY <2>3, RemoveGoto DEF RemoveRuleFile, RemoveBaseFile, RemoveLedger, LastCheck,
                            DisableLoader, RemoveTemplate, RemoveLoader, At, RemoveSteps
  <2> QED BY <2>1, <2>2, <2>3 DEF RemoveStep
<1> USE CommandType DEF CommandOK, At, RemoveSteps
<1>2. CASE StopShim(p) \/ DeleteRules(p) \/ DeleteBaseline(p)
  BY <1>1, <1>2 DEF StopShim, DeleteRules, DeleteBaseline,
                    DiskOK, LiveOK, PastOK, disk, past, Maybe
<1>3. CASE RemoveEnv(p) \/ RemoveRuleFile(p) \/ RemoveBaseFile(p) \/ RemoveLedger(p)
  BY <1>1, <1>3 DEF RemoveEnv, RemoveRuleFile, RemoveBaseFile, RemoveLedger,
                    DiskOK, LiveOK, PastOK, live, past, Maybe, Torn, FileState
<1>4. CASE DisableShim(p) \/ DisableLoader(p) \/ RemoveTemplate(p) \/ RemoveLoader(p)
  BY <1>1, <1>4 DEF DisableShim, DisableLoader, RemoveTemplate, RemoveLoader,
                    DiskOK, LiveOK, PastOK, live, past, FileState
<1>5. CASE Purge(p)
  BY <1>1, <1>5 DEF Purge, DiskOK, LiveOK, PastOK, live, past
<1>6. CASE StopRefused(p) \/ LastCheck(p)
  BY <1>1, <1>6 DEF StopRefused, LastCheck, DiskOK, LiveOK, PastOK, disk, live, past
<1> QED BY <1>2, <1>3, <1>4, <1>5, <1>6 DEF RemoveStep

LEMMA FaultTypes ==
    ASSUME NEW p \in Procs, TypeOK, FaultStep(p)
    PROVE  TypeOK'
<1> USE DEF TypeOK
<1>1. RunOK'
  <2>1. CASE StepError(p)
    BY <2>1, ExitType, RemoveGoto DEF StepError
  <2>2. CASE Kill(p) \/ TornFile(p) \/ TornLink(p)
    BY <2>2, ExitType DEF Kill, TornFile, TornLink
  <2>3. CASE UsersChange(p)
    BY <2>3 DEF UsersChange, RunOK
  <2> QED BY <2>1, <2>2, <2>3 DEF FaultStep
<1> USE CommandType DEF CommandOK, At
<1>2. CASE StepError(p) \/ Kill(p)
  BY <1>1, <1>2 DEF StepError, Kill, DiskOK, LiveOK, PastOK, disk, live, past
<1>3. CASE TornFile(p)
  BY <1>1, <1>3 DEF TornFile, DiskOK, LiveOK, PastOK, live, past, Torn, FileState
<1>4. CASE TornLink(p)
  BY <1>1, <1>4 DEF TornLink, DiskOK, LiveOK, PastOK, live, past
<1>5. CASE UsersChange(p)
  <2>1. PICK users \in {"none", "half", "pair"} :
              passwd' = [passwd EXCEPT ![run[p].acct] = users]
    BY <1>5 DEF UsersChange
  <2>2. DiskOK'
    BY <1>5, <2>1 DEF UsersChange, DiskOK
  <2> QED
    BY <1>1, <1>5, <2>2 DEF UsersChange, LiveOK, PastOK, live, past
<1> QED BY <1>2, <1>3, <1>4, <1>5 DEF FaultStep

LEMMA HostTypes ==
    ASSUME TypeOK, Host
    PROVE  TypeOK'
<1> USE DEF TypeOK
<1>1. CASE Reboot
  BY <1>1 DEF Reboot, DiskOK, LiveOK, RunOK, CommandOK, PastOK, disk, past, Idle, Steps, Maybe,
              AddSteps, InstallSteps, RemoveSteps
<1>2. CASE Boot
  BY <1>2 DEF Boot, DiskOK, LiveOK, RunOK, CommandOK, PastOK, disk, past, Maybe, Torn
<1>3. ASSUME NEW a \in Accounts, ShimStart(a) \/ ShimExit(a)
      PROVE  TypeOK'
  BY <1>3 DEF ShimStart, ShimExit, DiskOK, LiveOK, RunOK, CommandOK, PastOK, disk, past, Maybe
<1> QED BY <1>1, <1>2, <1>3 DEF Host

\* Every variable keeps its type, whatever commands, faults and boots interleave.
THEOREM TypeCorrect == Spec => []TypeOK
<1>1. Init => TypeOK
  <2> SUFFICES ASSUME Init PROVE TypeOK
    OBVIOUS
  <2>1. DiskOK
    BY DEF Init, DiskOK, Maybe, Torn, FileState
  <2>2. LiveOK /\ PastOK
    BY DEF Init, LiveOK, PastOK, Maybe
  <2>3. RunOK
    BY DEF Init, RunOK, CommandOK, Idle, Steps, Verbs, AddSteps, InstallSteps, RemoveSteps, Maybe
  <2> QED BY <2>1, <2>2, <2>3 DEF TypeOK
<1>2. TypeOK /\ [Next]_vars => TypeOK'
  <2> SUFFICES ASSUME TypeOK, [Next]_vars PROVE TypeOK'
    OBVIOUS
  <2>1. ASSUME NEW p \in Procs,
               Command(p) \/ AddStep(p) \/ InstallStep(p) \/ RemoveStep(p) \/ FaultStep(p)
        PROVE  TypeOK'
    BY <2>1, AddTypes, InstallTypes, RemoveTypes, FaultTypes
  <2>2. CASE UNCHANGED vars
    BY <2>2 DEF TypeOK, DiskOK, LiveOK, RunOK, CommandOK, PastOK, vars, disk, live, past
  <2> QED BY <2>1, <2>2, HostTypes DEF Next
<1> QED BY <1>1, <1>2, PTL DEF Spec

-----------------------------------------------------------------------------
(* AddedStayForced, when rm runs alone and no write is cut short.            *)

\* No other command runs while an rm does; adds and updates overlap in any way,
\* also two of one account.
RmAlone == \A p, q \in Procs : run[p].verb = "rm" /\ run[q].at # "idle" => p = q

\* A file write or a link replacement happens or does not.
NoTornWrites == "tornFile" \notin Faults /\ "tornLink" \notin Faults

Kept == TypeOK /\ ForcingKept

LEMMA KeptByAdd ==
    ASSUME RmAlone, RmAlone', NEW p \in Procs, Kept, Command(p) \/ AddStep(p)
    PROVE  ForcingKept'
<1> USE CommandType DEF Kept, TypeOK, RunOK, CommandOK, RmAlone, ForcingKept, AddedKept,
        InstallKept, TeardownKept, DeclaredKept, HasForcedAccounts, Rests, Removing, At,
        AddSteps, InstallSteps, RemoveSteps
<1>1. CASE \E a \in Accounts : StartRm(p, a)
  BY <1>1 DEF StartRm, Begin, PastOK, disk, live
<1>2. CASE \E a \in Accounts, e \in Endpoints : StartAdd(p, a, e) \/ StartUpdate(p, a, e)
  BY <1>2 DEF StartAdd, StartUpdate, Begin, disk, live
<1>3a. CASE Provision(p)
  BY <1>3a, SMTT(30) DEF Provision, Goto, Exit, Idle, live, past, PastOK
<1>3b. CASE ProvisionHalf(p)
  BY <1>3b, SMTT(30) DEF ProvisionHalf, Goto, Exit, Idle, live, past, PastOK
<1>4. CASE SeedHome(p) \/ BuildConfig(p) \/ RefuseAdd(p)
  BY <1>4 DEF SeedHome, BuildConfig, RefuseAdd, Goto, Exit, Idle, disk, live, past
<1> QED BY <1>1, <1>2, <1>3a, <1>3b, <1>4 DEF Command, AddStep

LEMMA KeptByInstall ==
    ASSUME RmAlone, RmAlone', NoTornWrites, NEW p \in Procs, Kept, InstallStep(p)
    PROVE  ForcingKept'
<1> USE CommandType DEF Kept, TypeOK, RunOK, CommandOK, RmAlone, ForcingKept, AddedKept,
        InstallKept, TeardownKept, DeclaredKept, HasForcedAccounts, Rests, Removing, At,
        AddSteps, InstallSteps, RemoveSteps
<1>0. run[p].at \in InstallSteps /\ \A q \in Procs : run[q].verb # "rm"
  BY DEF InstallStep, WriteLedger, ApplyBaseline, ApplyRules, WriteEnv, WriteBaseFile, WriteRuleFile,
         WriteTemplate, WriteLoader, LoaderWriteFails, EnableLoader, EnableShim, StartShim, Finish,
         StartFails
<1>1. CASE WriteLedger(p) \/ WriteEnv(p)
  BY <1>0, <1>1 DEF WriteLedger, WriteEnv, Goto, live, past
<1>2. CASE ApplyBaseline(p) \/ ApplyRules(p)
  BY <1>0, <1>2 DEF ApplyBaseline, ApplyRules, Goto, disk, past
<1>3. CASE WriteBaseFile(p)
  BY <1>3 DEF WriteBaseFile, Goto, live, past, DiskOK
<1>4. CASE WriteRuleFile(p)
  BY <1>4 DEF WriteRuleFile, AfterUnits, Goto, live, past, DiskOK
<1>5a. CASE WriteTemplate(p)
  BY <1>0, <1>5a, SMTT(30) DEF WriteTemplate, AfterUnits, Goto, live, past
<1>5b. CASE WriteLoader(p)
  BY <1>0, <1>5b, SMTT(30) DEF WriteLoader, AfterUnits, Goto, live, past
<1>6. CASE LoaderWriteFails(p)
  BY <1>6 DEF LoaderWriteFails, NoTornWrites, Exit, Idle, live, past
<1>7. CASE EnableLoader(p) \/ EnableShim(p)
  BY <1>7 DEF EnableLoader, EnableShim, Goto, live, past
<1>8. CASE StartShim(p)
  BY <1>8 DEF StartShim, Goto, disk, past
<1>9a. CASE Finish(p)
  BY <1>9a, SMTT(30) DEF Finish, Exit, Idle, disk, live, past, PastOK
<1>9b. CASE StartFails(p)
  BY <1>9b, SMTT(30) DEF StartFails, Exit, Idle, disk, live, past, PastOK
<1> QED BY <1>1, <1>2, <1>3, <1>4, <1>5a, <1>5b, <1>6, <1>7, <1>8, <1>9a, <1>9b DEF InstallStep

LEMMA KeptByRemove ==
    ASSUME RmAlone, RmAlone', NEW p \in Procs, Kept, RemoveStep(p)
    PROVE  ForcingKept'
<1> USE CommandType DEF Kept, TypeOK, RunOK, CommandOK, RmAlone, ForcingKept, AddedKept,
        InstallKept, TeardownKept, DeclaredKept, HasForcedAccounts, Rests, Removing, At,
        AddSteps, InstallSteps, RemoveSteps
<1>1. CASE StopShim(p) \/ DeleteRules(p) \/ DeleteBaseline(p)
  BY <1>1 DEF StopShim, DeleteRules, DeleteBaseline, Goto, disk, past
<1>2. CASE StopRefused(p) \/ LastCheck(p)
  BY <1>2 DEF StopRefused, LastCheck, Goto, disk, live, past
<1>3. CASE DisableShim(p) \/ RemoveEnv(p) \/ RemoveLedger(p)
  BY <1>3 DEF DisableShim, RemoveEnv, RemoveLedger, Goto, live, past
<1>4. CASE RemoveRuleFile(p) \/ RemoveBaseFile(p)
  BY <1>4 DEF RemoveRuleFile, RemoveBaseFile, Goto, live, past, DiskOK
<1>5. CASE DisableLoader(p) \/ RemoveTemplate(p) \/ RemoveLoader(p)
  BY <1>5 DEF DisableLoader, RemoveTemplate, RemoveLoader, Goto, live, past
<1>6. CASE Purge(p)
  BY <1>6 DEF Purge, Exit, Idle, live, past
<1> QED BY <1>1, <1>2, <1>3, <1>4, <1>5, <1>6 DEF RemoveStep

LEMMA KeptByFaults ==
    ASSUME RmAlone, RmAlone', NoTornWrites, NEW p \in Procs, Kept, FaultStep(p)
    PROVE  ForcingKept'
<1> USE CommandType DEF Kept, TypeOK, RunOK, CommandOK, RmAlone, ForcingKept, AddedKept,
        InstallKept, TeardownKept, DeclaredKept, HasForcedAccounts, Rests, Removing, At,
        AddSteps, InstallSteps, RemoveSteps
<1>1. CASE StepError(p)
  BY <1>1 DEF StepError, Goto, Exit, Idle, disk, live, past
<1>2. CASE Kill(p)
  BY <1>2 DEF Kill, Exit, Idle, disk, live, past
<1>3. CASE UsersChange(p)
  BY <1>3 DEF UsersChange, live, past
<1>4. ~TornFile(p) /\ ~TornLink(p)
  BY DEF NoTornWrites, TornFile, TornLink
<1> QED BY <1>1, <1>2, <1>3, <1>4 DEF FaultStep

LEMMA KeptByHost ==
    ASSUME Kept, Host
    PROVE  ForcingKept'
<1> USE CommandType DEF Kept, TypeOK, RunOK, CommandOK, RmAlone, ForcingKept, AddedKept,
        InstallKept, TeardownKept, DeclaredKept, HasForcedAccounts, Rests, Removing, At,
        AddSteps, InstallSteps, RemoveSteps
<1>1. CASE Reboot
  BY <1>1 DEF Reboot, Idle, disk, past
<1>2. CASE Boot
  BY <1>2 DEF Boot, disk, past
<1>3. ASSUME NEW a \in Accounts, ShimStart(a) \/ ShimExit(a)
      PROVE  ForcingKept'
  BY <1>3 DEF ShimStart, ShimExit, disk, past
<1> QED BY <1>1, <1>2, <1>3 DEF Host

\* The inductive invariant: the three supports of an added account's deny (its
\* loaded table, the file, the enabled loader) stand at every moment.
THEOREM SupportsStand ==
    ASSUME NoTornWrites
    PROVE  Spec /\ []RmAlone => []ForcingKept
<1>1. Init => ForcingKept
  BY DEF Init, ForcingKept, AddedKept, InstallKept, TeardownKept, DeclaredKept, Idle, InstallSteps
<1>2. TypeOK /\ ForcingKept /\ RmAlone /\ RmAlone' /\ [Next]_vars => ForcingKept'
  <2> SUFFICES ASSUME RmAlone, RmAlone', Kept, [Next]_vars PROVE ForcingKept'
    BY DEF Kept
  <2>1. ASSUME NEW p \in Procs,
               Command(p) \/ AddStep(p) \/ InstallStep(p) \/ RemoveStep(p) \/ FaultStep(p)
        PROVE  ForcingKept'
    BY <2>1, KeptByAdd, KeptByInstall, KeptByRemove, KeptByFaults
  <2>2. CASE UNCHANGED vars
    BY <2>2 DEF Kept, ForcingKept, AddedKept, InstallKept, TeardownKept, DeclaredKept,
                HasForcedAccounts, Rests, Removing, vars, disk, live, past
  <2> QED BY <2>1, <2>2, KeptByHost DEF Next
<1> QED BY <1>1, <1>2, TypeCorrect, PTL DEF Spec

\* An account `add` reported as forced has no direct egress, live or after any
\* boot, until an rm of it begins: for every set of accounts and endpoints, any
\* failing or killed command and any number of reboots, as long as
\* rm runs alone and no write is cut short.
THEOREM AddedAreForced ==
    ASSUME NoTornWrites
    PROVE  Spec /\ []RmAlone => []AddedStayForced
<1>1. ForcingKept => AddedStayForced
  BY DEF ForcingKept, AddedKept, AddedStayForced, Direct, Denied
<1> QED BY <1>1, SupportsStand, PTL

-----------------------------------------------------------------------------
(* OnlyRmLifts: for overlapping commands and every fault.                    *)

\* Nothing runs for account a and nothing was told to.
Stopped(a) == a \notin started /\ shimRun[a] = NoEndpoint

\* No command runs before the loader's turn at boot, and nothing is loaded or
\* started yet.
DownAtBoot ==
    /\ \A p \in Procs : run[p].at # "idle" => phase = "up"
    /\ phase = "early" =>
          \A a \in Accounts : a \notin liveBase /\ liveRules[a] = NoEndpoint /\ Stopped(a)

LEMMA DownByCommands ==
    ASSUME NEW p \in Procs, TypeOK, DownAtBoot, Command(p) \/ AddStep(p)
    PROVE  DownAtBoot'
<1> USE DEF DownAtBoot, Stopped, TypeOK, RunOK, At
<1>1. CASE Command(p)
  BY <1>1 DEF Command, StartRm, StartAdd, StartUpdate, Begin, disk, live
<1>2. CASE AddStep(p)
  BY <1>2 DEF AddStep, Provision, ProvisionHalf, SeedHome, BuildConfig, RefuseAdd,
              Goto, Exit, Idle, disk, live
<1> QED BY <1>1, <1>2

LEMMA DownByInstall ==
    ASSUME NEW p \in Procs, TypeOK, DownAtBoot, InstallStep(p)
    PROVE  DownAtBoot'
<1> USE DEF DownAtBoot, Stopped, TypeOK, RunOK, At
<1>1. CASE WriteLedger(p) \/ WriteEnv(p) \/ WriteBaseFile(p) \/ WriteRuleFile(p) \/ WriteTemplate(p)
  BY <1>1 DEF WriteLedger, WriteEnv, WriteBaseFile, WriteRuleFile, WriteTemplate, Goto, live
<1>2. CASE WriteLoader(p) \/ LoaderWriteFails(p) \/ EnableLoader(p) \/ EnableShim(p)
  BY <1>2 DEF WriteLoader, LoaderWriteFails, EnableLoader, EnableShim, Goto, Exit, Idle, live
<1>3. CASE ApplyBaseline(p) \/ ApplyRules(p) \/ StartShim(p)
  BY <1>3 DEF ApplyBaseline, ApplyRules, StartShim, Goto, LiveOK
<1>4. CASE Finish(p) \/ StartFails(p)
  BY <1>4 DEF Finish, StartFails, Exit, Idle, live
<1> QED BY <1>1, <1>2, <1>3, <1>4 DEF InstallStep

LEMMA DownByRemove ==
    ASSUME NEW p \in Procs, TypeOK, DownAtBoot, RemoveStep(p) \/ FaultStep(p)
    PROVE  DownAtBoot'
<1> USE DEF DownAtBoot, Stopped, TypeOK, RunOK, At
<1>1. CASE StopShim(p) \/ DeleteRules(p) \/ DeleteBaseline(p)
  BY <1>1 DEF StopShim, DeleteRules, DeleteBaseline, Goto, LiveOK
<1>2. CASE StopRefused(p) \/ DisableShim(p) \/ LastCheck(p) \/ DisableLoader(p)
  BY <1>2 DEF StopRefused, DisableShim, LastCheck, DisableLoader, Goto, live
<1>3. CASE RemoveEnv(p) \/ RemoveRuleFile(p) \/ RemoveBaseFile(p) \/ RemoveLedger(p)
  BY <1>3 DEF RemoveEnv, RemoveRuleFile, RemoveBaseFile, RemoveLedger, Goto, live
<1>4. CASE RemoveTemplate(p) \/ RemoveLoader(p) \/ Purge(p)
  BY <1>4 DEF RemoveTemplate, RemoveLoader, Purge, Goto, Exit, Idle, live
<1>5. CASE FaultStep(p)
  BY <1>5 DEF FaultStep, StepError, Kill, TornFile, TornLink, UsersChange, Goto, Exit, Idle, live,
              AddSteps, InstallSteps, RemoveSteps
<1> QED BY <1>1, <1>2, <1>3, <1>4, <1>5 DEF RemoveStep

\* Between a reboot and the loader's turn no command runs, no table is loaded and
\* no shim is started, for every interleaving and every fault.
THEOREM DownStands == Spec => []DownAtBoot
<1>1. Init => DownAtBoot
  BY DEF Init, DownAtBoot, Idle
<1>2. TypeOK /\ DownAtBoot /\ [Next]_vars => DownAtBoot'
  <2> SUFFICES ASSUME TypeOK, DownAtBoot, [Next]_vars PROVE DownAtBoot'
    OBVIOUS
  <2>1. ASSUME NEW p \in Procs,
               Command(p) \/ AddStep(p) \/ InstallStep(p) \/ RemoveStep(p) \/ FaultStep(p)
        PROVE  DownAtBoot'
    BY <2>1, DownByCommands, DownByInstall, DownByRemove
  <2>2. CASE Reboot \/ Boot
    BY <2>2 DEF Reboot, Boot, DownAtBoot, Stopped, Idle
  <2>3. ASSUME NEW a \in Accounts, ShimStart(a) \/ ShimExit(a)
        PROVE  DownAtBoot'
    BY <2>3 DEF ShimStart, ShimExit, DownAtBoot, Stopped, TypeOK, LiveOK
  <2>4. CASE UNCHANGED vars
    BY <2>4 DEF DownAtBoot, Stopped, vars, live
  <2> QED BY <2>1, <2>2, <2>3, <2>4 DEF Next, Host
<1> QED BY <1>1, <1>2, TypeCorrect, PTL DEF Spec

\* No step takes a deny away from an account that no rm works on.
LEMMA LiftStep ==
    ASSUME TypeOK, DownAtBoot, [Next]_vars, phase' = "up",
           NEW a \in Accounts, Denied(a), ~Removing(a)
    PROVE  Denied(a)'
<1> USE DEF Denied
<1>1. ASSUME NEW p \in Procs, Command(p) \/ AddStep(p)
      PROVE  Denied(a)'
  BY <1>1 DEF Command, StartRm, StartAdd, StartUpdate, AddStep, Provision, ProvisionHalf,
              SeedHome, BuildConfig, RefuseAdd, live
<1>2. ASSUME NEW p \in Procs, InstallStep(p)
      PROVE  Denied(a)'
  <2>1. CASE ApplyRules(p)
    BY <2>1, CommandType, NoneAssumption
       DEF ApplyRules, At, CommandOK, InstallSteps, TypeOK, LiveOK
  <2>2. CASE ~ApplyRules(p)
    BY <1>2, <2>2 DEF InstallStep, WriteLedger, ApplyBaseline, WriteEnv, WriteBaseFile,
          WriteRuleFile, WriteTemplate, WriteLoader, LoaderWriteFails, EnableLoader, EnableShim,
          StartShim, Finish, StartFails, live
  <2> QED BY <2>1, <2>2
<1>3. ASSUME NEW p \in Procs, RemoveStep(p)
      PROVE  Denied(a)'
  <2>1. CASE DeleteRules(p) \/ DeleteBaseline(p)
    <3>1. run[p].acct # a
      BY <2>1, CommandType DEF DeleteRules, DeleteBaseline, At, CommandOK, RemoveSteps, Removing, TypeOK
    <3> QED BY <2>1, <3>1 DEF DeleteRules, DeleteBaseline, TypeOK, LiveOK
  <2>2. CASE ~(DeleteRules(p) \/ DeleteBaseline(p))
    BY <1>3, <2>2 DEF RemoveStep, StopShim, StopRefused, DisableShim, RemoveEnv, RemoveRuleFile,
          RemoveBaseFile, RemoveLedger, LastCheck, DisableLoader, RemoveTemplate, RemoveLoader,
          Purge, live
  <2> QED BY <2>1, <2>2
<1>4. ASSUME NEW p \in Procs, FaultStep(p)
      PROVE  Denied(a)'
  BY <1>4 DEF FaultStep, StepError, Kill, TornFile, TornLink, UsersChange, live
<1>5. CASE Host
  <2>1. ~Reboot /\ ~Boot
    BY DEF Reboot, Boot, DownAtBoot
  <2> QED BY <1>5, <2>1 DEF Host, ShimStart, ShimExit
<1>6. CASE UNCHANGED vars
  BY <1>6 DEF vars, live
<1> QED BY <1>1, <1>2, <1>3, <1>4, <1>5, <1>6 DEF Next

\* Only a step of an rm of that account, or a reboot, takes an account's last
\* deny away: an add or update never does, whatever fails or is killed in it and
\* however many commands overlap.
THEOREM OnlyRmLiftsHolds == Spec => OnlyRmLifts
<1>1. TypeOK /\ DownAtBoot /\ [Next]_vars
         => [\A a \in Accounts : Denied(a) /\ ~Removing(a) /\ phase' = "up" => Denied(a)']_vars
  BY LiftStep
<1> QED BY <1>1, TypeCorrect, DownStands, PTL DEF Spec, OnlyRmLifts

-----------------------------------------------------------------------------
(* Where a command stands: the steps an install reaches once it has done     *)
(* something, and what a removal has stopped.                                *)

Recorded   == InstallSteps \ {"ledger"}
Applied    == Recorded \ {"baseline", "apply"}
Configured == Applied \ {"env"}
Resting    == Configured \ {"basefile"}
Persisted  == Resting \ {"rulefile"}

\* No two commands in progress work on one account.
Apart ==
    \A p, q \in Procs :
        run[p].at # "idle" /\ run[q].at # "idle" /\ run[p].acct = run[q].acct => p = q

\* No other command works on the account an rm works on.
RmOwnsAccount ==
    \A p, q \in Procs :
        /\ run[p].verb = "rm" /\ run[p].at # "idle"
        /\ run[q].at # "idle" /\ run[q].acct = run[p].acct
        => p = q

LEMMA ApartOwns == ASSUME Apart PROVE RmOwnsAccount
BY DEF Apart, RmOwnsAccount

LEMMA AloneOwns == ASSUME RmAlone PROVE RmOwnsAccount
BY DEF RmAlone, RmOwnsAccount

\* From its second step on an rm has stopped its account's shim, and from its
\* third the shim is not linked either.
StoppedByRm ==
    \A p \in Procs :
        LET c == run[p] IN
        /\ c.at \in RemoveSteps \ {"stop"} => Stopped(c.acct)
        /\ c.at \in RemoveSteps \ {"stop", "disableShim"} => c.acct \notin shimWants

LEMMA StoppedByAdd ==
    ASSUME RmOwnsAccount, RmOwnsAccount', NEW p \in Procs, TypeOK, StoppedByRm, Command(p) \/ AddStep(p) \/ InstallStep(p)
    PROVE  StoppedByRm'
<1> USE CommandType DEF StoppedByRm, Stopped, TypeOK, RunOK, CommandOK, RmOwnsAccount, At,
        AddSteps, InstallSteps, RemoveSteps
<1>1. CASE Command(p)
  BY <1>1 DEF Command, StartRm, StartAdd, StartUpdate, Begin, disk, live
<1>2. CASE AddStep(p)
  BY <1>2 DEF AddStep, Provision, ProvisionHalf, SeedHome, BuildConfig, RefuseAdd,
              Goto, Exit, Idle, disk, live
<1>3. CASE InstallStep(p)
  <2>1. CASE WriteLedger(p) \/ WriteEnv(p) \/ WriteBaseFile(p) \/ WriteRuleFile(p) \/ WriteTemplate(p)
    BY <2>1 DEF WriteLedger, WriteEnv, WriteBaseFile, WriteRuleFile, WriteTemplate, AfterUnits, Goto, live
  <2>2. CASE WriteLoader(p) \/ LoaderWriteFails(p) \/ EnableLoader(p) \/ EnableShim(p)
    BY <2>2 DEF WriteLoader, LoaderWriteFails, EnableLoader, EnableShim, AfterUnits, Goto, Exit, Idle, live
  <2>3. CASE ApplyBaseline(p) \/ ApplyRules(p) \/ Finish(p) \/ StartFails(p)
    BY <2>3 DEF ApplyBaseline, ApplyRules, Finish, StartFails, Goto, Exit, Idle, disk, live
  <2>4. CASE StartShim(p)
    <3>1. \A q \in Procs : run[q].at \in RemoveSteps => run[q].acct # run[p].acct
      BY <2>4 DEF StartShim
    <3> QED BY <2>4, <3>1 DEF StartShim, Goto, disk, LiveOK
  <2> QED BY <1>3, <2>1, <2>2, <2>3, <2>4 DEF InstallStep
<1> QED BY <1>1, <1>2, <1>3

LEMMA StoppedByRemove ==
    ASSUME RmOwnsAccount, RmOwnsAccount', NEW p \in Procs, TypeOK, StoppedByRm, RemoveStep(p) \/ FaultStep(p)
    PROVE  StoppedByRm'
<1> USE CommandType DEF StoppedByRm, Stopped, TypeOK, RunOK, CommandOK, RmOwnsAccount, At,
        AddSteps, InstallSteps, RemoveSteps
<1>1. CASE StopShim(p) \/ DeleteRules(p) \/ DeleteBaseline(p)
  BY <1>1 DEF StopShim, DeleteRules, DeleteBaseline, Goto, disk, LiveOK
<1>2. CASE StopRefused(p) \/ DisableShim(p) \/ LastCheck(p) \/ DisableLoader(p)
  BY <1>2 DEF StopRefused, DisableShim, LastCheck, DisableLoader, Goto, disk, live
<1>3. CASE RemoveEnv(p) \/ RemoveRuleFile(p) \/ RemoveBaseFile(p) \/ RemoveLedger(p)
  BY <1>3 DEF RemoveEnv, RemoveRuleFile, RemoveBaseFile, RemoveLedger, Goto, live
<1>4. CASE RemoveTemplate(p) \/ RemoveLoader(p) \/ Purge(p)
  BY <1>4 DEF RemoveTemplate, RemoveLoader, Purge, Goto, Exit, Idle, live
<1>5. CASE StepError(p) \/ Kill(p)
  BY <1>5 DEF StepError, Kill, Goto, Exit, Idle, disk, live
<1>6. CASE TornFile(p) \/ TornLink(p)
  BY <1>6 DEF TornFile, TornLink, Exit, Idle, live
<1>7. CASE UsersChange(p)
  BY <1>7 DEF UsersChange, disk, live
<1> QED BY <1>1, <1>2, <1>3, <1>4, <1>5, <1>6, <1>7 DEF RemoveStep, FaultStep

\* An rm never goes on to its deletions with the shim still started, whatever
\* fails: Remove stops at its first error.
THEOREM StopStands == Spec /\ []RmOwnsAccount => []StoppedByRm
<1>1. Init => StoppedByRm
  BY DEF Init, StoppedByRm, Idle, RemoveSteps
<1>2. TypeOK /\ DownAtBoot /\ StoppedByRm /\ RmOwnsAccount /\ RmOwnsAccount' /\ [Next]_vars => StoppedByRm'
  <2> SUFFICES ASSUME RmOwnsAccount, RmOwnsAccount', TypeOK, DownAtBoot, StoppedByRm, [Next]_vars PROVE StoppedByRm'
    OBVIOUS
  <2>1. ASSUME NEW p \in Procs,
               Command(p) \/ AddStep(p) \/ InstallStep(p) \/ RemoveStep(p) \/ FaultStep(p)
        PROVE  StoppedByRm'
    BY <2>1, StoppedByAdd, StoppedByRemove
  <2>2. CASE Reboot \/ Boot
    BY <2>2 DEF Reboot, Boot, DownAtBoot, StoppedByRm, Idle, RemoveSteps
  <2>3. ASSUME NEW a \in Accounts, ShimStart(a) \/ ShimExit(a)
        PROVE  StoppedByRm'
    BY <2>3, CommandType
       DEF ShimStart, ShimExit, StoppedByRm, Stopped, TypeOK, LiveOK, CommandOK, RemoveSteps,
           AddSteps, InstallSteps, disk
  <2>4. CASE UNCHANGED vars
    BY <2>4 DEF StoppedByRm, Stopped, vars, disk, live
  <2> QED BY <2>1, <2>2, <2>3, <2>4 DEF Next, Host
<1> QED BY <1>1, <1>2, TypeCorrect, DownStands, PTL DEF Spec

-----------------------------------------------------------------------------
(* ShimHasRules, when rm runs alone and no write is cut short.               *)

\* A shim that runs or may be restarted has its table loaded; a shim the next
\* boot starts has an intact rule file and an enabled loader to load it.
RulesKept ==
    /\ \A a \in Accounts : ~Stopped(a) => liveRules[a] # NoEndpoint
    /\ \A a \in shimWants : loaderWants /\ loader = "ok" /\ ruleFile[a] \in Endpoints
    /\ \A p \in Procs :
        LET c == run[p] IN
        /\ c.at \in Applied   => liveRules[c.acct] # NoEndpoint
        /\ c.at \in Persisted => ruleFile[c.acct] \in Endpoints

ServedKept == TypeOK /\ ForcingKept /\ DownAtBoot /\ StoppedByRm /\ RulesKept

LEMMA ServedByAdd ==
    ASSUME RmAlone, RmAlone', NEW p \in Procs, ServedKept, Command(p) \/ AddStep(p)
    PROVE  RulesKept'
<1> USE CommandType DEF ServedKept, RulesKept, Stopped, TypeOK, RunOK, CommandOK, RmAlone, At,
        Recorded, Applied, Configured, Resting, Persisted, AddSteps, InstallSteps, RemoveSteps
<1>1. CASE Command(p)
  BY <1>1 DEF Command, StartRm, StartAdd, StartUpdate, Begin, disk, live
<1>2. CASE AddStep(p)
  BY <1>2 DEF AddStep, Provision, ProvisionHalf, SeedHome, BuildConfig, RefuseAdd,
              Goto, Exit, Idle, disk, live
<1> QED BY <1>1, <1>2

LEMMA ServedByInstall ==
    ASSUME RmAlone, RmAlone', NoTornWrites, NEW p \in Procs, ServedKept, InstallStep(p)
    PROVE  RulesKept'
<1> USE CommandType, NoneAssumption
    DEF ServedKept, RulesKept, Stopped, TypeOK, RunOK, CommandOK, RmAlone, At,
        Recorded, Applied, Configured, Resting, Persisted, AddSteps, InstallSteps, RemoveSteps
<1>1. CASE WriteLedger(p) \/ WriteEnv(p) \/ WriteBaseFile(p) \/ WriteTemplate(p) \/ WriteLoader(p)
  BY <1>1 DEF WriteLedger, WriteEnv, WriteBaseFile, WriteTemplate, WriteLoader, AfterUnits, Goto, live
<1>2. CASE WriteRuleFile(p)
  BY <1>2 DEF WriteRuleFile, AfterUnits, Goto, live, DiskOK
<1>3. CASE LoaderWriteFails(p)
  BY <1>3 DEF LoaderWriteFails, NoTornWrites, Exit, Idle, live
<1>4. CASE EnableLoader(p) \/ EnableShim(p)
  BY <1>4 DEF EnableLoader, EnableShim, Goto, live, ForcingKept, InstallKept
<1>5. CASE ApplyBaseline(p) \/ ApplyRules(p)
  BY <1>5 DEF ApplyBaseline, ApplyRules, Goto, disk, LiveOK
<1>6. CASE StartShim(p)
  BY <1>6 DEF StartShim, Goto, disk, LiveOK
<1>7. CASE Finish(p) \/ StartFails(p)
  BY <1>7 DEF Finish, StartFails, Exit, Idle, disk, live
<1> QED BY <1>1, <1>2, <1>3, <1>4, <1>5, <1>6, <1>7 DEF InstallStep

LEMMA ServedByRemove ==
    ASSUME RmAlone, RmAlone', NEW p \in Procs, ServedKept, RemoveStep(p)
    PROVE  RulesKept'
<1> USE CommandType
    DEF ServedKept, RulesKept, StoppedByRm, Stopped, TypeOK, RunOK, CommandOK, RmAlone, At,
        Recorded, Applied, Configured, Resting, Persisted, AddSteps, InstallSteps, RemoveSteps
<1>1. CASE StopShim(p) \/ DeleteRules(p) \/ DeleteBaseline(p)
  BY <1>1 DEF StopShim, DeleteRules, DeleteBaseline, Goto, disk, LiveOK
<1>2. CASE StopRefused(p) \/ LastCheck(p)
  BY <1>2 DEF StopRefused, LastCheck, Goto, disk, live
<1>3. CASE DisableShim(p) \/ RemoveEnv(p) \/ RemoveLedger(p) \/ RemoveBaseFile(p)
  BY <1>3 DEF DisableShim, RemoveEnv, RemoveLedger, RemoveBaseFile, Goto, live
<1>4. CASE RemoveRuleFile(p)
  BY <1>4 DEF RemoveRuleFile, Goto, live, DiskOK
<1>5. CASE DisableLoader(p) \/ RemoveTemplate(p) \/ RemoveLoader(p)
  <2>1. shimWants = {}
    BY <1>5, NoneAssumption DEF DisableLoader, RemoveTemplate, RemoveLoader, ForcingKept, TeardownKept,
              HasForcedAccounts, DiskOK
  <2> QED BY <1>5, <2>1 DEF DisableLoader, RemoveTemplate, RemoveLoader, Goto, live
<1>6. CASE Purge(p)
  BY <1>6 DEF Purge, Exit, Idle, live
<1> QED BY <1>1, <1>2, <1>3, <1>4, <1>5, <1>6 DEF RemoveStep

LEMMA ServedByFaults ==
    ASSUME RmAlone, RmAlone', NoTornWrites, NEW p \in Procs, ServedKept, FaultStep(p)
    PROVE  RulesKept'
<1> USE CommandType DEF ServedKept, RulesKept, Stopped, TypeOK, RunOK, CommandOK, RmAlone, At,
        Recorded, Applied, Configured, Resting, Persisted, AddSteps, InstallSteps, RemoveSteps
<1>1. CASE StepError(p) \/ Kill(p)
  BY <1>1 DEF StepError, Kill, Goto, Exit, Idle, disk, live
<1>2. CASE UsersChange(p)
  BY <1>2 DEF UsersChange, live, past
<1>3. ~TornFile(p) /\ ~TornLink(p)
  BY DEF NoTornWrites, TornFile, TornLink
<1> QED BY <1>1, <1>2, <1>3 DEF FaultStep

LEMMA ServedByHost ==
    ASSUME ServedKept, Host
    PROVE  RulesKept'
<1> USE NoneAssumption
    DEF ServedKept, RulesKept, DownAtBoot, Stopped, TypeOK, RunOK, At,
        Recorded, Applied, Configured, Resting, Persisted, InstallSteps
<1>1. CASE Reboot
  BY <1>1 DEF Reboot, Idle, disk
<1>2. CASE Boot
  BY <1>2 DEF Boot, disk, DiskOK
<1>3. ASSUME NEW a \in Accounts, ShimStart(a) \/ ShimExit(a)
      PROVE  RulesKept'
  BY <1>3 DEF ShimStart, ShimExit, LiveOK, disk
<1> QED BY <1>1, <1>2, <1>3 DEF Host

\* The rules outlive the shim: a shim that runs, may be restarted or comes back
\* at the next boot has its forcing table, loaded or on disk.
THEOREM RulesStand ==
    ASSUME NoTornWrites
    PROVE  Spec /\ []RmAlone => []RulesKept
<1>1. Init => RulesKept
  BY DEF Init, RulesKept, Stopped, Idle, Recorded, Applied, Configured, Resting, Persisted, InstallSteps
<1>2. TypeOK /\ ForcingKept /\ DownAtBoot /\ StoppedByRm /\ RulesKept /\ RmAlone /\ RmAlone' /\ [Next]_vars => RulesKept'
  <2> SUFFICES ASSUME RmAlone, RmAlone', ServedKept, [Next]_vars PROVE RulesKept'
    BY DEF ServedKept
  <2>1. ASSUME NEW p \in Procs,
               Command(p) \/ AddStep(p) \/ InstallStep(p) \/ RemoveStep(p) \/ FaultStep(p)
        PROVE  RulesKept'
    BY <2>1, ServedByAdd, ServedByInstall, ServedByRemove, ServedByFaults
  <2>2. CASE UNCHANGED vars
    BY <2>2 DEF ServedKept, RulesKept, Stopped, vars, disk, live
  <2> QED BY <2>1, <2>2, ServedByHost DEF Next
<1> QED BY <1>1, <1>2, AloneOwns, TypeCorrect, SupportsStand, DownStands, StopStands, PTL DEF Spec

\* A running shim has its account's forcing table loaded, also while rm deletes
\* both and after every boot, for every set of accounts and endpoints.
THEOREM ShimsHaveRules ==
    ASSUME NoTornWrites
    PROVE  Spec /\ []RmAlone => []ShimHasRules
<1>1. RulesKept => ShimHasRules
  BY DEF RulesKept, ShimHasRules, Stopped
<1> QED BY <1>1, RulesStand, PTL

-----------------------------------------------------------------------------
(* SettledAgree, when no two commands work on one account, under every fault.*)

\* What a command has made agree by the step it is at.  An account without a
\* record has no shim, so the shim an add starts reads the env file it wrote.
AgreeKept ==
    /\ SettledAgree
    /\ \A a \in Accounts : ledger[a] = NoEndpoint => Stopped(a) /\ a \notin shimWants
    /\ \A p \in Procs :
        LET c == run[p] IN
        /\ c.at # "idle" => c.acct \notin settled
        /\ c.verb = "add" /\ c.at \in AddSteps \union {"ledger"} => ledger[c.acct] = NoEndpoint
        /\ c.verb = "add" /\ c.at \in InstallSteps \ {"wait"} => Stopped(c.acct)
        /\ c.at \in Recorded   => ledger[c.acct] = c.ep
        /\ c.at \in Applied    => liveRules[c.acct] = c.ep
        /\ c.at \in Configured => envFile[c.acct] = c.ep
        /\ c.at \in Resting    => baseFile[c.acct] = "ok"
        /\ c.at \in Persisted  => ruleFile[c.acct] = c.ep
        /\ c.at = "wait" => shimRun[c.acct] \in {c.ep, NoEndpoint}

AgreedKept == TypeOK /\ DownAtBoot /\ StoppedByRm /\ AgreeKept

LEMMA AgreedByAdd ==
    ASSUME Apart, Apart', NEW p \in Procs, AgreedKept, Command(p) \/ AddStep(p)
    PROVE  AgreeKept'
<1> USE CommandType, NoneAssumption
    DEF AgreedKept, AgreeKept, SettledAgree, Stopped, TypeOK, RunOK, CommandOK, Apart, At,
        Recorded, Applied, Configured, Resting, Persisted, AddSteps, InstallSteps, RemoveSteps
<1>1. CASE \E a \in Accounts : StartRm(p, a)
  BY <1>1 DEF StartRm, Begin, PastOK, disk, live
<1>2. CASE \E a \in Accounts, e \in Endpoints : StartAdd(p, a, e) \/ StartUpdate(p, a, e)
  BY <1>2 DEF StartAdd, StartUpdate, Begin, PastOK, disk, live
<1>3a. CASE Provision(p)
  BY <1>3a, SMTT(30) DEF Provision, Goto, Exit, Idle, disk, live, past
<1>3b. CASE ProvisionHalf(p)
  BY <1>3b, SMTT(30) DEF ProvisionHalf, Goto, Exit, Idle, disk, live, past
<1>3c. CASE SeedHome(p)
  BY <1>3c, SMTT(30) DEF SeedHome, Goto, Exit, Idle, disk, live, past
<1>3d. CASE BuildConfig(p)
  BY <1>3d, SMTT(30) DEF BuildConfig, Goto, Exit, Idle, disk, live, past
<1>3e. CASE RefuseAdd(p)
  BY <1>3e, SMTT(30) DEF RefuseAdd, Goto, Exit, Idle, disk, live, past
<1> QED BY <1>1, <1>2, <1>3a, <1>3b, <1>3c, <1>3d, <1>3e DEF Command, AddStep

LEMMA AgreedByInstall ==
    ASSUME Apart, Apart', NEW p \in Procs, AgreedKept, InstallStep(p)
    PROVE  AgreeKept'
<1> USE CommandType, NoneAssumption
    DEF AgreedKept, AgreeKept, SettledAgree, Stopped, TypeOK, RunOK, CommandOK, Apart, At,
        Recorded, Applied, Configured, Resting, Persisted, AddSteps, InstallSteps, RemoveSteps
<1>1. CASE WriteLedger(p)
  BY <1>1 DEF WriteLedger, Goto, live, past, DiskOK, PastOK
<1>2a. CASE WriteEnv(p)
  BY <1>2a, SMTT(30) DEF WriteEnv, Goto, live, past, DiskOK, PastOK
<1>2b. CASE WriteBaseFile(p)
  BY <1>2b, SMTT(30) DEF WriteBaseFile, Goto, live, past, DiskOK, PastOK
<1>3. CASE WriteRuleFile(p)
  BY <1>3 DEF WriteRuleFile, AfterUnits, Goto, live, past, DiskOK, PastOK
<1>4. CASE WriteTemplate(p) \/ WriteLoader(p) \/ LoaderWriteFails(p)
  BY <1>4 DEF WriteTemplate, WriteLoader, LoaderWriteFails, AfterUnits, Goto, Exit, Idle, live, past
<1>5. CASE EnableLoader(p) \/ EnableShim(p)
  BY <1>5 DEF EnableLoader, EnableShim, Goto, live, past
<1>6. CASE ApplyBaseline(p) \/ ApplyRules(p)
  BY <1>6 DEF ApplyBaseline, ApplyRules, Goto, disk, past, LiveOK, PastOK
<1>7. CASE StartShim(p)
  BY <1>7, SMTT(30) DEF StartShim, Goto, disk, past, LiveOK, PastOK
<1>8a. CASE Finish(p)
  BY <1>8a, SMTT(30) DEF Finish, Exit, Idle, disk, live, past, PastOK
<1>8b. CASE StartFails(p)
  BY <1>8b, SMTT(30) DEF StartFails, Exit, Idle, disk, live, past, PastOK
<1> QED BY <1>1, <1>2a, <1>2b, <1>3, <1>4, <1>5, <1>6, <1>7, <1>8a, <1>8b DEF InstallStep

LEMMA AgreedByRemove ==
    ASSUME Apart, Apart', NEW p \in Procs, AgreedKept, RemoveStep(p)
    PROVE  AgreeKept'
<1> USE CommandType, NoneAssumption
    DEF AgreedKept, AgreeKept, SettledAgree, Stopped, TypeOK, RunOK, CommandOK, Apart, At,
        Recorded, Applied, Configured, Resting, Persisted, AddSteps, InstallSteps, RemoveSteps
<1>1a. CASE StopShim(p)
  BY <1>1a, SMTT(30) DEF StopShim, Goto, disk, past, LiveOK, PastOK
<1>1b. CASE DeleteRules(p)
  BY <1>1b, SMTT(30) DEF DeleteRules, Goto, disk, past, LiveOK, PastOK
<1>1c. CASE DeleteBaseline(p)
  BY <1>1c, SMTT(30) DEF DeleteBaseline, Goto, disk, past, LiveOK, PastOK
<1>2a. CASE StopRefused(p)
  BY <1>2a, SMTT(30) DEF StopRefused, Goto, disk, live, past
<1>2b. CASE LastCheck(p)
  BY <1>2b, SMTT(30) DEF LastCheck, Goto, disk, live, past
<1>3a. CASE DisableShim(p)
  BY <1>3a, SMTT(30) DEF DisableShim, Goto, live, past, DiskOK, PastOK
<1>3b. CASE RemoveEnv(p)
  BY <1>3b, SMTT(30) DEF RemoveEnv, Goto, live, past, DiskOK, PastOK
<1>3c. CASE RemoveRuleFile(p)
  BY <1>3c, SMTT(30) DEF RemoveRuleFile, Goto, live, past, DiskOK, PastOK
<1>3d. CASE RemoveBaseFile(p)
  BY <1>3d, SMTT(30) DEF RemoveBaseFile, Goto, live, past, DiskOK, PastOK
<1>4. CASE RemoveLedger(p)
  BY <1>4, SMTT(30) DEF RemoveLedger, StoppedByRm, Goto, live, past, DiskOK, PastOK
<1>5. CASE DisableLoader(p) \/ RemoveTemplate(p) \/ RemoveLoader(p)
  BY <1>5 DEF DisableLoader, RemoveTemplate, RemoveLoader, Goto, live, past
<1>6. CASE Purge(p)
  BY <1>6 DEF Purge, Exit, Idle, live, past
<1> QED BY <1>1a, <1>1b, <1>1c, <1>2a, <1>2b, <1>3a, <1>3b, <1>3c, <1>3d, <1>4, <1>5, <1>6 DEF RemoveStep

LEMMA AgreedByFaults ==
    ASSUME Apart, Apart', NEW p \in Procs, AgreedKept, FaultStep(p)
    PROVE  AgreeKept'
<1> USE CommandType, NoneAssumption
    DEF AgreedKept, AgreeKept, SettledAgree, Stopped, TypeOK, RunOK, CommandOK, Apart, At,
        Recorded, Applied, Configured, Resting, Persisted, AddSteps, InstallSteps, RemoveSteps
<1>1a. CASE StepError(p)
  BY <1>1a, SMTT(30) DEF StepError, Goto, Exit, Idle, disk, live, past
<1>1b. CASE Kill(p)
  BY <1>1b, SMTT(30) DEF Kill, Goto, Exit, Idle, disk, live, past
<1>2. CASE TornFile(p)
  BY <1>2, SMTT(30) DEF TornFile, Exit, Idle, live, past, DiskOK, PastOK
<1>3. CASE TornLink(p)
  BY <1>3 DEF TornLink, Exit, Idle, live, past
<1>4. CASE UsersChange(p)
  BY <1>4 DEF UsersChange, live, past
<1> QED BY <1>1a, <1>1b, <1>2, <1>3, <1>4 DEF FaultStep

LEMMA AgreedByHost ==
    ASSUME AgreedKept, Host
    PROVE  AgreeKept'
<1> USE CommandType, NoneAssumption
    DEF AgreedKept, AgreeKept, SettledAgree, Stopped, TypeOK, RunOK, CommandOK, Apart, At,
        Recorded, Applied, Configured, Resting, Persisted, AddSteps, InstallSteps, RemoveSteps
<1>1. CASE Reboot
  BY <1>1 DEF Reboot, DownAtBoot, Idle, disk, past, PastOK
<1>2. CASE Boot
  BY <1>2 DEF Boot, DownAtBoot, disk, past, DiskOK, PastOK
<1>3. ASSUME NEW a \in Accounts, ShimStart(a) \/ ShimExit(a)
      PROVE  AgreeKept'
  BY <1>3 DEF ShimStart, ShimExit, LiveOK, PastOK, disk, past
<1> QED BY <1>1, <1>2, <1>3 DEF Host

\* The inductive form of SettledAgree: what each step of an add or update has
\* brought into agreement stays so until the command ends.
THEOREM AgreementStands == Spec /\ []Apart => []AgreeKept
<1>1. Init => AgreeKept
  BY DEF Init, AgreeKept, SettledAgree, Stopped, Idle, AddSteps, InstallSteps, Recorded, Applied,
         Configured, Resting, Persisted
<1>2. TypeOK /\ DownAtBoot /\ StoppedByRm /\ AgreeKept /\ Apart /\ Apart' /\ [Next]_vars => AgreeKept'
  <2> SUFFICES ASSUME Apart, Apart', AgreedKept, [Next]_vars PROVE AgreeKept'
    BY DEF AgreedKept
  <2>1. ASSUME NEW p \in Procs,
               Command(p) \/ AddStep(p) \/ InstallStep(p) \/ RemoveStep(p) \/ FaultStep(p)
        PROVE  AgreeKept'
    BY <2>1, AgreedByAdd, AgreedByInstall, AgreedByRemove, AgreedByFaults
  <2>2. CASE UNCHANGED vars
    BY <2>2 DEF AgreedKept, AgreeKept, SettledAgree, Stopped, vars, disk, live, past
  <2> QED BY <2>1, <2>2, AgreedByHost DEF Next
<1> QED BY <1>1, <1>2, ApartOwns, TypeCorrect, DownStands, StopStands, PTL DEF Spec

\* After a command that succeeded, and until the next one of that account, the
\* record, the env file, both forms of the forcing table and the running shim name
\* one endpoint, through every fault and boot and every other account's commands.
THEOREM SettledAccountsAgree == Spec /\ []Apart => []SettledAgree
<1>1. AgreeKept => SettledAgree
  BY DEF AgreeKept
<1> QED BY <1>1, AgreementStands, PTL

-----------------------------------------------------------------------------
(* AddedShimReturns, when rm runs alone, writes are whole and a              *)
(* step fails only by its process being killed.                              *)

NoStepErrors == "error" \notin Faults

\* What an add has put in place of what its shim needs at the next boot.
ReturnsKept ==
    /\ AddedShimReturns
    /\ HostOwned => template = "ok"
    /\ \A p \in Procs :
        LET c == run[p] IN
        /\ c.verb = "add" /\ c.at \in Persisted \ {"template"} => template = "ok"
        /\ c.verb = "add" /\ c.at \in {"start", "wait"} => c.acct \in shimWants
        /\ c.at \in Configured => envFile[c.acct] \in Endpoints

ComeBackKept == TypeOK /\ ForcingKept /\ ReturnsKept

LEMMA ReturnsByAdd ==
    ASSUME RmAlone, RmAlone', NEW p \in Procs, ComeBackKept, Command(p) \/ AddStep(p)
    PROVE  ReturnsKept'
<1> USE CommandType, NoneAssumption
    DEF ComeBackKept, ReturnsKept, AddedShimReturns, TypeOK, RunOK, CommandOK, RmAlone, At,
        Recorded, Applied, Configured, Resting, Persisted, AddSteps, InstallSteps, RemoveSteps
<1>1. CASE \E a \in Accounts : StartRm(p, a)
  BY <1>1 DEF StartRm, Begin, PastOK, disk, live
<1>2. CASE \E a \in Accounts, e \in Endpoints : StartAdd(p, a, e) \/ StartUpdate(p, a, e)
  BY <1>2 DEF StartAdd, StartUpdate, Begin, disk, live
<1>3a. CASE Provision(p)
  BY <1>3a, SMTT(30) DEF Provision, Goto, Exit, Idle, disk, live, past
<1>3b. CASE ProvisionHalf(p)
  BY <1>3b, SMTT(30) DEF ProvisionHalf, Goto, Exit, Idle, disk, live, past
<1>3c. CASE SeedHome(p)
  BY <1>3c, SMTT(30) DEF SeedHome, Goto, Exit, Idle, disk, live, past
<1>3d. CASE BuildConfig(p)
  BY <1>3d, SMTT(30) DEF BuildConfig, Goto, Exit, Idle, disk, live, past
<1>3e. CASE RefuseAdd(p)
  BY <1>3e, SMTT(30) DEF RefuseAdd, Goto, Exit, Idle, disk, live, past
<1> QED BY <1>1, <1>2, <1>3a, <1>3b, <1>3c, <1>3d, <1>3e DEF Command, AddStep

LEMMA ReturnsByInstall ==
    ASSUME RmAlone, RmAlone', NoStepErrors, NEW p \in Procs, ComeBackKept, InstallStep(p)
    PROVE  ReturnsKept'
<1> USE CommandType, NoneAssumption
    DEF ComeBackKept, ReturnsKept, AddedShimReturns, TypeOK, RunOK, CommandOK, RmAlone, At,
        Recorded, Applied, Configured, Resting, Persisted, AddSteps, InstallSteps, RemoveSteps
<1>1. CASE WriteLedger(p) \/ WriteBaseFile(p) \/ WriteTemplate(p) \/ WriteLoader(p)
  BY <1>1 DEF WriteLedger, WriteBaseFile, WriteTemplate, WriteLoader, AfterUnits, Goto, live, past
<1>2. CASE WriteRuleFile(p)
  BY <1>2, HostOwnedAssumption DEF WriteRuleFile, AfterUnits, Goto, live, past
<1>3. CASE WriteEnv(p)
  BY <1>3 DEF WriteEnv, Goto, live, past, DiskOK
<1>4a. CASE EnableLoader(p)
  BY <1>4a, SMTT(30) DEF EnableLoader, Goto, live, past
<1>4b. CASE EnableShim(p)
  BY <1>4b, SMTT(30) DEF EnableShim, Goto, live, past
<1>5. CASE ApplyBaseline(p) \/ ApplyRules(p) \/ StartShim(p)
  BY <1>5 DEF ApplyBaseline, ApplyRules, StartShim, Goto, disk, past
<1>6. CASE Finish(p) \/ StartFails(p)
  BY <1>6 DEF Finish, StartFails, Exit, Idle, disk, live, past, PastOK
<1>7. ~LoaderWriteFails(p)
  BY DEF LoaderWriteFails, NoStepErrors
<1> QED BY <1>1, <1>2, <1>3, <1>4a, <1>4b, <1>5, <1>6, <1>7 DEF InstallStep

LEMMA ReturnsByRemove ==
    ASSUME RmAlone, RmAlone', NEW p \in Procs, ComeBackKept, RemoveStep(p)
    PROVE  ReturnsKept'
<1> USE CommandType, NoneAssumption
    DEF ComeBackKept, ReturnsKept, AddedShimReturns, TypeOK, RunOK, CommandOK, RmAlone, At,
        Recorded, Applied, Configured, Resting, Persisted, AddSteps, InstallSteps, RemoveSteps
<1>a. run[p].verb = "rm" /\ promise[run[p].acct] # "add"
  BY DEF RemoveStep, StopShim, StopRefused, DisableShim, DeleteRules, DeleteBaseline, RemoveEnv,
         RemoveRuleFile, RemoveBaseFile, RemoveLedger, LastCheck, DisableLoader, RemoveTemplate,
         RemoveLoader, Purge, ForcingKept, AddedKept, Removing
<1>1. CASE StopShim(p) \/ DeleteRules(p) \/ DeleteBaseline(p)
  BY <1>1 DEF StopShim, DeleteRules, DeleteBaseline, Goto, disk, past
<1>2. CASE StopRefused(p) \/ LastCheck(p)
  BY <1>2 DEF StopRefused, LastCheck, Goto, disk, live, past
<1>3. CASE DisableShim(p)
  BY <1>3, <1>a DEF DisableShim, Goto, live, past
<1>4. CASE RemoveEnv(p)
  BY <1>4, <1>a DEF RemoveEnv, Goto, live, past, DiskOK
<1>5. CASE RemoveRuleFile(p) \/ RemoveBaseFile(p) \/ RemoveLedger(p)
  BY <1>5 DEF RemoveRuleFile, RemoveBaseFile, RemoveLedger, Goto, live, past
<1>6. CASE RemoveTemplate(p)
  <2>1. \A a \in Accounts : promise[a] # "add"
    BY <1>6 DEF RemoveTemplate, ForcingKept, TeardownKept, AddedKept, Rests, HasForcedAccounts
  <2> QED BY <1>6, <2>1 DEF RemoveTemplate, Goto, live, past
<1>7. CASE DisableLoader(p) \/ RemoveLoader(p)
  BY <1>7 DEF DisableLoader, RemoveLoader, Goto, live, past
<1>8. CASE Purge(p)
  BY <1>8 DEF Purge, Exit, Idle, live, past
<1> QED BY <1>1, <1>2, <1>3, <1>4, <1>5, <1>6, <1>7, <1>8 DEF RemoveStep

LEMMA ReturnsByFaults ==
    ASSUME RmAlone, RmAlone', NoTornWrites, NEW p \in Procs, ComeBackKept, FaultStep(p)
    PROVE  ReturnsKept'
<1> USE CommandType, NoneAssumption
    DEF ComeBackKept, ReturnsKept, AddedShimReturns, TypeOK, RunOK, CommandOK, RmAlone, At,
        Recorded, Applied, Configured, Resting, Persisted, AddSteps, InstallSteps, RemoveSteps
<1>1. CASE StepError(p) \/ Kill(p)
  BY <1>1 DEF StepError, Kill, Goto, Exit, Idle, disk, live, past
<1>2. CASE UsersChange(p)
  BY <1>2 DEF UsersChange, live, past
<1>3. ~TornFile(p) /\ ~TornLink(p)
  BY DEF NoTornWrites, TornFile, TornLink
<1> QED BY <1>1, <1>2, <1>3 DEF FaultStep

\* What an added shim needs at the next boot stands through every other
\* account's commands.
THEOREM ReturnStands ==
    ASSUME NoTornWrites, NoStepErrors
    PROVE  Spec /\ []RmAlone => []ReturnsKept
<1>1. Init => ReturnsKept
  BY DEF Init, ReturnsKept, AddedShimReturns, Idle, Recorded, Applied, Configured, Resting,
         Persisted, InstallSteps
<1>2. TypeOK /\ ForcingKept /\ ReturnsKept /\ RmAlone /\ RmAlone' /\ [Next]_vars => ReturnsKept'
  <2> SUFFICES ASSUME RmAlone, RmAlone', ComeBackKept, [Next]_vars PROVE ReturnsKept'
    BY DEF ComeBackKept
  <2>1. ASSUME NEW p \in Procs,
               Command(p) \/ AddStep(p) \/ InstallStep(p) \/ RemoveStep(p) \/ FaultStep(p)
        PROVE  ReturnsKept'
    BY <2>1, ReturnsByAdd, ReturnsByInstall, ReturnsByRemove, ReturnsByFaults
  <2>2. CASE Host
    BY <2>2 DEF Host, Reboot, Boot, ShimStart, ShimExit, ComeBackKept, ReturnsKept,
                AddedShimReturns, Idle, disk, past, Recorded, Applied, Configured, Resting,
                Persisted, InstallSteps
  <2>3. CASE UNCHANGED vars
    BY <2>3 DEF ComeBackKept, ReturnsKept, AddedShimReturns, vars, disk, live, past
  <2> QED BY <2>1, <2>2, <2>3 DEF Next
<1> QED BY <1>1, <1>2, TypeCorrect, SupportsStand, PTL DEF Spec

\* An added account's shim has its link, its template and its env file for the
\* next boot, however often any command is killed and the host restarts.
THEOREM AddedShimsReturn ==
    ASSUME NoTornWrites, NoStepErrors
    PROVE  Spec /\ []RmAlone => []AddedShimReturns
<1>1. ReturnsKept => AddedShimReturns
  BY DEF ReturnsKept
<1> QED BY <1>1, ReturnStands, PTL

-----------------------------------------------------------------------------
(* AddMends, when commands do not overlap.                                   *)

\* At most one command is in progress.
OneAtATime == \A p, q \in Procs : run[p].at # "idle" /\ run[q].at # "idle" => p = q

\* What a command has repaired of the shared loader by the step it is at.
MendKept ==
    /\ HostOwned => loader = "ok"
    /\ \A p \in Procs :
         LET c == run[p] IN
         /\ HostOwned => c.at \notin {"template", "loader", "rmLoader"}
         /\ c.at \in {"enableLoader", "enableShim", "start", "wait"} => loader = "ok"
         /\ c.at \in {"enableLoader", "enableShim"} => c.verb = "add"
         /\ c.verb = "add" /\ c.at \in {"enableShim", "start", "wait"} => loaderWants

LEMMA MendByAdd ==
    ASSUME OneAtATime', TypeOK, MendKept, NEW p \in Procs, Command(p) \/ AddStep(p)
    PROVE  MendKept'
<1> USE DEF MendKept, TypeOK, RunOK, At
<1>1. CASE \E a \in Accounts : StartRm(p, a)
  BY <1>1 DEF StartRm, Begin, disk, live
<1>2. CASE \E a \in Accounts, e \in Endpoints : StartAdd(p, a, e) \/ StartUpdate(p, a, e)
  BY <1>2 DEF StartAdd, StartUpdate, Begin, disk, live
<1>3. CASE AddStep(p)
  BY <1>3 DEF AddStep, Provision, ProvisionHalf, SeedHome, BuildConfig, RefuseAdd, Goto, Exit,
              Idle, disk, live, past
<1> QED BY <1>1, <1>2, <1>3 DEF Command

LEMMA MendByInstall ==
    ASSUME OneAtATime, TypeOK, MendKept, NEW p \in Procs, InstallStep(p)
    PROVE  MendKept'
<1> USE CommandType DEF MendKept, TypeOK, RunOK, CommandOK, At, OneAtATime, AddSteps, InstallSteps
<1>1. CASE WriteLedger(p) \/ WriteEnv(p) \/ WriteBaseFile(p)
  BY <1>1 DEF WriteLedger, WriteEnv, WriteBaseFile, Goto, live, past
<1>2. CASE ApplyBaseline(p) \/ ApplyRules(p)
  BY <1>2 DEF ApplyBaseline, ApplyRules, Goto, disk, past
<1>3. CASE WriteRuleFile(p) \/ WriteTemplate(p) \/ WriteLoader(p)
  BY <1>3 DEF WriteRuleFile, WriteTemplate, WriteLoader, AfterUnits, Goto, live, past
<1>4. CASE LoaderWriteFails(p)
  BY <1>4 DEF LoaderWriteFails, Exit, Idle, live, past
<1>5. CASE EnableLoader(p) \/ EnableShim(p)
  BY <1>5 DEF EnableLoader, EnableShim, Goto, live, past
<1>6. CASE StartShim(p)
  BY <1>6 DEF StartShim, Goto, disk, past
<1>7. CASE Finish(p) \/ StartFails(p)
  BY <1>7 DEF Finish, StartFails, Exit, Idle, disk, live, past
<1> QED BY <1>1, <1>2, <1>3, <1>4, <1>5, <1>6, <1>7 DEF InstallStep

LEMMA MendByRemove ==
    ASSUME OneAtATime, TypeOK, MendKept, NEW p \in Procs, RemoveStep(p)
    PROVE  MendKept'
<1> USE CommandType DEF MendKept, TypeOK, RunOK, CommandOK, At, OneAtATime, AddSteps, InstallSteps,
        RemoveSteps
<1>1. CASE StopShim(p) \/ StopRefused(p) \/ DeleteRules(p) \/ DeleteBaseline(p) \/ LastCheck(p)
  BY <1>1 DEF StopShim, StopRefused, DeleteRules, DeleteBaseline, LastCheck, Goto, disk, live, past
<1>2. CASE DisableShim(p) \/ RemoveEnv(p) \/ RemoveRuleFile(p) \/ RemoveBaseFile(p) \/ RemoveLedger(p)
  BY <1>2 DEF DisableShim, RemoveEnv, RemoveRuleFile, RemoveBaseFile, RemoveLedger, Goto, live, past
<1>3. CASE DisableLoader(p) \/ RemoveTemplate(p) \/ RemoveLoader(p)
  BY <1>3 DEF DisableLoader, RemoveTemplate, RemoveLoader, Goto, live, past
<1>4. CASE Purge(p)
  BY <1>4 DEF Purge, Exit, Idle, live, past
<1> QED BY <1>1, <1>2, <1>3, <1>4 DEF RemoveStep

LEMMA MendByFaults ==
    ASSUME OneAtATime, TypeOK, MendKept, NEW p \in Procs, FaultStep(p)
    PROVE  MendKept'
<1> USE DEF MendKept, TypeOK, RunOK, At, OneAtATime
<1>1. CASE StepError(p) \/ Kill(p)
  BY <1>1 DEF StepError, Kill, Goto, Exit, Idle, AddSteps, InstallSteps, RemoveSteps, disk, live, past
<1>2. CASE TornFile(p)
  BY <1>2 DEF TornFile, Exit, Idle, live, past
<1>3. CASE TornLink(p)
  BY <1>3 DEF TornLink, Exit, Idle, live, past
<1>4. CASE UsersChange(p)
  BY <1>4 DEF UsersChange, live
<1> QED BY <1>1, <1>2, <1>3, <1>4 DEF FaultStep

THEOREM MendStands == Spec /\ []OneAtATime => []MendKept
<1>1. Init => MendKept
  BY DEF Init, MendKept, Idle
<1>2. TypeOK /\ MendKept /\ OneAtATime /\ OneAtATime' /\ [Next]_vars => MendKept'
  <2> SUFFICES ASSUME TypeOK, MendKept, OneAtATime, OneAtATime', [Next]_vars PROVE MendKept'
    OBVIOUS
  <2>1. ASSUME NEW p \in Procs,
               Command(p) \/ AddStep(p) \/ InstallStep(p) \/ RemoveStep(p) \/ FaultStep(p)
        PROVE  MendKept'
    BY <2>1, MendByAdd, MendByInstall, MendByRemove, MendByFaults
  <2>2. CASE Host
    BY <2>2 DEF Host, Reboot, Boot, ShimStart, ShimExit, MendKept, Idle, disk, past
  <2>3. CASE UNCHANGED vars
    BY <2>3 DEF MendKept, vars, disk, live
  <2> QED BY <2>1, <2>2, <2>3 DEF Next
<1> QED BY <1>1, <1>2, TypeCorrect, PTL DEF Spec

\* If commands do not overlap, an add that succeeds leaves the loader and its link
\* whole, for every account whose own file is intact, whatever had been cut
\* short before; an update that succeeds leaves the loader whole.
THEOREM AddMendsHolds == Spec /\ []OneAtATime => AddMends
<1>1. MendKept /\ [Next]_vars
         => [\A p \in Procs :
               At(p, "wait") /\ run[p].acct \in settled' \ settled =>
                 /\ loader = "ok"
                 /\ run[p].verb = "add" => \A a \in Accounts : baseFile[a] = "ok" => Rests(a)]_vars
  BY DEF MendKept, At, Rests
<1> QED BY <1>1, MendStands, PTL DEF Spec, AddMends

=============================================================================
