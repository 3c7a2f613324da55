------------------------------- MODULE Forcing -------------------------------
(***************************************************************************)
(* The lifecycle of forced accounts: `anonctl add`, `update` and `rm` as   *)
(* the step sequences of main.go, internal/forcing and internal/systemd,   *)
(* over what survives a reboot (accounts, ledger, unit files, links, rule  *)
(* files) and what does not (loaded nft tables, running shims).            *)
(*                                                                         *)
(* One action is one external effect, in the order the code issues them.   *)
(* A command keeps nothing between two steps but its arguments, takes no   *)
(* lock, and undoes nothing when it fails, with one exception (the loader  *)
(* unit write).  Any number of commands may run at once.                   *)
(***************************************************************************)
EXTENDS Naturals, FiniteSets

CONSTANTS
    Accounts,       \* account names an operator may use
    Endpoints,      \* socks5h endpoints an account can be pointed at
    Procs,          \* anonctl processes that may run at the same time
    HostOwned,      \* TRUE: the host declares the two shared unit files
    Faults,         \* environment: which of AllFaults may happen
    NoAccount, NoEndpoint

AllFaults ==
    { "error",      \* a step fails without effect and its error path runs
      "kill",       \* the process disappears between two steps
      "reboot",     \* the host restarts between two steps
      "shimExit",   \* a running shim process dies
      "tornFile",   \* os.WriteFile stops after truncating the file
      "tornLink",   \* a symlink is removed and not created again
      "users" }     \* the users of an account change while an add waits

ASSUME FaultsAssumption    == Faults \subseteq AllFaults
ASSUME HostOwnedAssumption == HostOwned \in BOOLEAN
ASSUME NoneAssumption      == NoAccount \notin Accounts /\ NoEndpoint \notin Endpoints

VARIABLES
    \* ----- what is on disk
    passwd,         \* [Accounts -> {"none", "half", "pair"}]: login and shim users
    ledger,         \* the account record: its endpoint, or NoEndpoint
    envFile,        \* the shim's EnvironmentFile: endpoint, NoEndpoint or "torn"
    baseFile,       \* <account>.baseline.nft: "absent", "torn" or "ok"
    ruleFile,       \* <account>.nft: endpoint, NoEndpoint or "torn"
    template,       \* the shared @-template unit: "absent", "torn" or "ok"
    loader,         \* the shared early-boot loader unit: same values
    loaderWants,    \* is the loader's enablement symlink there?
    shimWants,      \* accounts whose shim instance has its enablement symlink
    \* ----- what a reboot clears
    phase,          \* "early": before the loader's turn at boot; "up" after it
    liveBase,       \* accounts whose baseline default-deny table is loaded
    liveRules,      \* the loaded forcing table: its endpoint, or NoEndpoint
    started,        \* shim instances systemd was told to keep running
    shimRun,        \* the running shim's endpoint, or NoEndpoint
    run,            \* the commands in progress, one record per process
    \* ----- history, for the properties only
    promise,        \* the most anonctl has told of an account since its last rm
    settled,        \* accounts whose last command succeeded, with no other since
    alone           \* processes whose command has had its account to itself

disk  == <<passwd, ledger, envFile, baseFile, ruleFile,
           template, loader, loaderWants, shimWants>>
live  == <<phase, liveBase, liveRules, started, shimRun>>
past  == <<promise, settled, alone>>
vars  == <<disk, live, run, past>>

-----------------------------------------------------------------------------
(* Commands and their steps. *)

Verbs == {"add", "update", "rm"}

\* Steps of runAdd before forcing.Install, and the steps Install and
\* Reconfigure are made of, in the order they run.
AddSteps     == {"provision", "seed", "config"}
InstallSteps == {"ledger", "baseline", "apply", "env", "basefile", "rulefile",
                 "template", "loader", "enableLoader", "enableShim", "start", "wait"}
\* Steps of forcing.Remove, then of the rest of runRm.
RemoveSteps  == {"stop", "disableShim", "nftDelete", "nftDeleteBase",
                 "rmEnv", "rmRule", "rmBase", "rmLedger", "lastCheck",
                 "disableLoader", "rmTemplate", "rmLoader"}
Steps == {"idle"} \union AddSteps \union InstallSteps \union RemoveSteps \union {"purge"}

Idle == [at |-> "idle", verb |-> "none", acct |-> NoAccount, ep |-> NoEndpoint]

Maybe(S)  == S \union {NoEndpoint}
Torn(S)   == S \union {"torn"}
FileState == {"absent", "torn", "ok"}

DiskOK ==
    /\ passwd    \in [Accounts -> {"none", "half", "pair"}]
    /\ ledger    \in [Accounts -> Maybe(Endpoints)]
    /\ envFile   \in [Accounts -> Torn(Maybe(Endpoints))]
    /\ baseFile  \in [Accounts -> FileState]
    /\ ruleFile  \in [Accounts -> Torn(Maybe(Endpoints))]
    /\ template  \in FileState
    /\ loader    \in FileState
    /\ loaderWants \in BOOLEAN
    /\ shimWants \subseteq Accounts

LiveOK ==
    /\ phase     \in {"early", "up"}
    /\ liveBase  \subseteq Accounts
    /\ liveRules \in [Accounts -> Maybe(Endpoints)]
    /\ started   \subseteq Accounts
    /\ shimRun   \in [Accounts -> Maybe(Endpoints)]

CommandOK(c) ==
    /\ c.at # "idle" => c.acct \in Accounts
    /\ c.at \in AddSteps \union InstallSteps => c.ep \in Endpoints /\ c.verb \in {"add", "update"}
    /\ c.at \in RemoveSteps \union {"purge"} => c.verb = "rm"

RunOK ==
    /\ run \in [Procs -> [at: Steps, verb: Verbs \union {"none"},
                          acct: Accounts \union {NoAccount}, ep: Maybe(Endpoints)]]
    /\ \A p \in Procs : CommandOK(run[p])

PastOK ==
    /\ promise   \in [Accounts -> {"none", "update", "add"}]
    /\ settled   \subseteq Accounts
    /\ alone     \subseteq Procs

TypeOK == DiskOK /\ LiveOK /\ RunOK /\ PastOK

\* A fresh host.  Accounts may exist already (declared by the host or left by
\* an `rm` that did not purge); nothing of anonctl's does, except the shared
\* units of a host that declares them.
Init ==
    /\ passwd \in [Accounts -> {"none", "pair"}]
    /\ ledger    = [a \in Accounts |-> NoEndpoint]
    /\ envFile   = [a \in Accounts |-> NoEndpoint]
    /\ baseFile  = [a \in Accounts |-> "absent"]
    /\ ruleFile  = [a \in Accounts |-> NoEndpoint]
    /\ template  = IF HostOwned THEN "ok" ELSE "absent"
    /\ loader    = IF HostOwned THEN "ok" ELSE "absent"
    /\ loaderWants = FALSE
    /\ shimWants = {}
    /\ phase     = "up"
    /\ liveBase  = {}
    /\ liveRules = [a \in Accounts |-> NoEndpoint]
    /\ started   = {}
    /\ shimRun   = [a \in Accounts |-> NoEndpoint]
    /\ run       = [p \in Procs |-> Idle]
    /\ promise   = [a \in Accounts |-> "none"]
    /\ settled   = {}
    /\ alone     = {}

\* p is at this step of its command / moves on / ends its command.
At(p, step)   == run[p].at = step
Goto(p, step) == run' = [run EXCEPT ![p].at = step]
Exit(p)       == run' = [run EXCEPT ![p] = Idle]

\* Some command works on account a.
Busy(a) == \E p \in Procs : run[p].acct = a

\* p begins a command on account a.
Begin(p, step, verb, a, e) ==
    /\ At(p, "idle")
    /\ phase = "up"
    /\ run' = [run EXCEPT ![p] = [at |-> step, verb |-> verb, acct |-> a, ep |-> e]]
    /\ settled' = settled \ {a}
    /\ alone' = {q \in alone : q # p /\ run[q].acct # a}
                \union (IF Busy(a) THEN {} ELSE {p})

-----------------------------------------------------------------------------
(* `anonctl add`, up to forcing.Install. *)

\* The ledger gate and the half-a-pair check; the endpoint is chosen, which may
\* wait for the operator.
StartAdd(p, a, e) ==
    /\ ledger[a] = NoEndpoint
    /\ passwd[a] # "half"
    /\ Begin(p, "provision", "add", a, e)
    /\ UNCHANGED <<disk, live, promise>>

\* The pair is looked at again, then provision.Add creates what is missing; it
\* is a no-op for accounts that exist (adoption).  A home is seeded only for an
\* account this run created.
Provision(p) ==
    LET a == run[p].acct IN
    /\ At(p, "provision")
    /\ passwd[a] # "half"
    /\ passwd' = [passwd EXCEPT ![a] = "pair"]
    /\ Goto(p, IF passwd[a] = "none" THEN "seed" ELSE "config")
    /\ UNCHANGED <<ledger, envFile, baseFile, ruleFile, template, loader,
                   loaderWants, shimWants, live, past>>

\* The login user was created and the shim user was not.
ProvisionHalf(p) ==
    LET a == run[p].acct IN
    /\ "error" \in Faults
    /\ At(p, "provision")
    /\ passwd[a] = "none"
    /\ passwd' = [passwd EXCEPT ![a] = "half"]
    /\ Exit(p)
    /\ UNCHANGED <<ledger, envFile, baseFile, ruleFile, template, loader,
                   loaderWants, shimWants, live, past>>

SeedHome(p) ==
    /\ At(p, "seed")
    /\ Goto(p, "config")
    /\ UNCHANGED <<disk, live, past>>

\* buildConfig reads both uids back, so it needs the pair.
BuildConfig(p) ==
    /\ At(p, "config")
    /\ passwd[run[p].acct] = "pair"
    /\ Goto(p, "ledger")
    /\ UNCHANGED <<disk, live, past>>

\* Half a pair met before provision.Add, or uids that cannot be read back.
RefuseAdd(p) ==
    /\ \/ At(p, "provision") /\ passwd[run[p].acct] = "half"
       \/ At(p, "config") /\ passwd[run[p].acct] # "pair"
    /\ Exit(p)
    /\ UNCHANGED <<disk, live, past>>

-----------------------------------------------------------------------------
(* forcing.Install (verb "add") and forcing.Reconfigure (verb "update").     *)
(* Both write the record, load both tables, persist three files, rewrite the *)
(* shared units; only Install creates the enablement links.                  *)

\* runUpdate needs the record and nothing else.
StartUpdate(p, a, e) ==
    /\ ledger[a] # NoEndpoint
    /\ Begin(p, "ledger", "update", a, e)
    /\ UNCHANGED <<disk, live, promise>>

WriteLedger(p) ==
    /\ At(p, "ledger")
    /\ ledger' = [ledger EXCEPT ![run[p].acct] = run[p].ep]
    /\ Goto(p, "baseline")
    /\ UNCHANGED <<passwd, envFile, baseFile, ruleFile, template, loader,
                   loaderWants, shimWants, live, past>>

\* One nft transaction each: the table is replaced, never missing.
ApplyBaseline(p) ==
    /\ At(p, "baseline")
    /\ liveBase' = liveBase \union {run[p].acct}
    /\ Goto(p, "apply")
    /\ UNCHANGED <<disk, phase, liveRules, started, shimRun, past>>

ApplyRules(p) ==
    /\ At(p, "apply")
    /\ liveRules' = [liveRules EXCEPT ![run[p].acct] = run[p].ep]
    /\ Goto(p, "env")
    /\ UNCHANGED <<disk, phase, liveBase, started, shimRun, past>>

\* SystemdStore.WriteAccount: env file, baseline file, forcing file.
\* Faulty variants: the shim is handed the account's name; an env file that is
\* already there is left alone.
WriteEnvName(p) ==
    /\ At(p, "env")
    /\ envFile' = [envFile EXCEPT ![run[p].acct] = run[p].acct]
    /\ Goto(p, "basefile")
    /\ UNCHANGED <<passwd, ledger, baseFile, ruleFile, template, loader,
                   loaderWants, shimWants, live, past>>

WriteEnvOnce(p) ==
    /\ At(p, "env")
    /\ envFile' = [envFile EXCEPT ![run[p].acct] = IF @ = NoEndpoint THEN run[p].ep ELSE @]
    /\ Goto(p, "basefile")
    /\ UNCHANGED <<passwd, ledger, baseFile, ruleFile, template, loader,
                   loaderWants, shimWants, live, past>>

WriteEnv(p) ==
    /\ At(p, "env")
    /\ envFile' = [envFile EXCEPT ![run[p].acct] = run[p].ep]
    /\ Goto(p, "basefile")
    /\ UNCHANGED <<passwd, ledger, baseFile, ruleFile, template, loader,
                   loaderWants, shimWants, live, past>>

WriteBaseFile(p) ==
    /\ At(p, "basefile")
    /\ baseFile' = [baseFile EXCEPT ![run[p].acct] = "ok"]
    /\ Goto(p, "rulefile")
    /\ UNCHANGED <<passwd, ledger, envFile, ruleFile, template, loader,
                   loaderWants, shimWants, live, past>>

\* Faulty variant: add goes straight to its own instance's link.
AfterUnitsNoLoader(p) == IF run[p].verb = "add" THEN "enableShim" ELSE "start"

\* What follows the shared units: Install enables, Reconfigure restarts.
AfterUnits(p) == IF run[p].verb = "add" THEN "enableLoader" ELSE "start"

WriteRuleFile(p) ==
    /\ At(p, "rulefile")
    /\ ruleFile' = [ruleFile EXCEPT ![run[p].acct] = run[p].ep]
    /\ Goto(p, IF HostOwned THEN AfterUnits(p) ELSE "template")
    /\ UNCHANGED <<passwd, ledger, envFile, baseFile, template, loader,
                   loaderWants, shimWants, live, past>>

\* SystemdStore.InstallCommon: the template, then the loader.
WriteTemplate(p) ==
    /\ At(p, "template")
    /\ template' = "ok"
    /\ Goto(p, "loader")
    /\ UNCHANGED <<passwd, ledger, envFile, baseFile, ruleFile, loader,
                   loaderWants, shimWants, live, past>>

\* Faulty variant: a loader that is already there is left alone.
WriteLoaderOnce(p) ==
    /\ At(p, "loader")
    /\ loader' = IF loader = "absent" THEN "ok" ELSE loader
    /\ Goto(p, AfterUnits(p))
    /\ UNCHANGED <<passwd, ledger, envFile, baseFile, ruleFile, template,
                   loaderWants, shimWants, live, past>>

WriteLoader(p) ==
    /\ At(p, "loader")
    /\ loader' = "ok"
    /\ Goto(p, AfterUnits(p))
    /\ UNCHANGED <<passwd, ledger, envFile, baseFile, ruleFile, template,
                   loaderWants, shimWants, live, past>>

\* The error path of the loader write removes the template again; the loader
\* is as it was, or cut short.
LoaderWriteFails(p) ==
    /\ "error" \in Faults
    /\ At(p, "loader")
    /\ loader' \in {loader} \union (IF "tornFile" \in Faults THEN {"torn"} ELSE {})
    /\ template' = "absent"
    /\ Exit(p)
    /\ UNCHANGED <<passwd, ledger, envFile, baseFile, ruleFile,
                   loaderWants, shimWants, live, past>>

EnableLoader(p) ==
    /\ At(p, "enableLoader")
    /\ loaderWants' = TRUE
    /\ Goto(p, "enableShim")
    /\ UNCHANGED <<passwd, ledger, envFile, baseFile, ruleFile, template, loader,
                   shimWants, live, past>>

EnableShim(p) ==
    /\ At(p, "enableShim")
    /\ shimWants' = shimWants \union {run[p].acct}
    /\ Goto(p, "start")
    /\ UNCHANGED <<passwd, ledger, envFile, baseFile, ruleFile, template, loader,
                   loaderWants, live, past>>

\* daemon-reload, then StartNow (a no-op on a running instance) or RestartNow.
\* The legacy sweep of an install finds nothing to move.
StartShim(p) ==
    LET a == run[p].acct IN
    /\ At(p, "start")
    /\ template = "ok"
    /\ started' = started \union {a}
    /\ shimRun' = IF run[p].verb = "update" THEN [shimRun EXCEPT ![a] = NoEndpoint]
                                            ELSE shimRun
    /\ Goto(p, "wait")
    /\ UNCHANGED <<disk, phase, liveBase, liveRules, past>>

\* The shim is active and the command reports success.  An update of an added
\* account takes nothing back of what add promised.
Finish(p) ==
    LET a == run[p].acct IN
    /\ At(p, "wait")
    /\ shimRun[a] # NoEndpoint
    /\ Exit(p)
    /\ promise' = IF p \in alone /\ promise[a] # "add"
                  THEN [promise EXCEPT ![a] = run[p].verb] ELSE promise
    /\ settled' = IF p \in alone THEN settled \union {a} ELSE settled
    /\ UNCHANGED <<disk, live, alone>>

\* Faulty variant: a start that fails rolls the loaded tables back.
StartFailsRollback(p) ==
    LET a == run[p].acct IN
    /\ \/ At(p, "start") /\ template # "ok"
       \/ At(p, "wait") /\ shimRun[a] = NoEndpoint
    /\ liveBase' = liveBase \ {a}
    /\ liveRules' = [liveRules EXCEPT ![a] = NoEndpoint]
    /\ Exit(p)
    /\ UNCHANGED <<disk, phase, started, shimRun, past>>

\* The template is gone, or the shim is not active within shimStartTimeout.
StartFails(p) ==
    /\ \/ At(p, "start") /\ template # "ok"
       \/ At(p, "wait") /\ shimRun[run[p].acct] = NoEndpoint
    /\ Exit(p)
    /\ UNCHANGED <<disk, live, past>>

-----------------------------------------------------------------------------
(* forcing.Remove and the rest of runRm. *)

\* rm has no gate: it runs on any name.  From here on nothing is promised.
StartRm(p, a) ==
    /\ Begin(p, "stop", "rm", a, NoEndpoint)
    /\ promise' = [promise EXCEPT ![a] = "none"]
    /\ UNCHANGED <<disk, live>>

\* Faulty variant: the process is killed, the instance stays started.
StopShimKill(p) ==
    /\ At(p, "stop")
    /\ shimRun' = [shimRun EXCEPT ![run[p].acct] = NoEndpoint]
    /\ Goto(p, "disableShim")
    /\ UNCHANGED <<disk, phase, liveBase, liveRules, started, past>>

StopShim(p) ==
    /\ At(p, "stop")
    /\ started' = started \ {run[p].acct}
    /\ shimRun' = [shimRun EXCEPT ![run[p].acct] = NoEndpoint]
    /\ Goto(p, "disableShim")
    /\ UNCHANGED <<disk, phase, liveBase, liveRules, past>>

\* systemctl may refuse to stop an instance it has no unit file for; Remove
\* returns, and runRm goes on.
StopRefused(p) ==
    /\ At(p, "stop")
    /\ template = "absent"
    /\ run[p].acct \notin started
    /\ Goto(p, "purge")
    /\ UNCHANGED <<disk, live, past>>

DisableShim(p) ==
    /\ At(p, "disableShim")
    /\ shimWants' = shimWants \ {run[p].acct}
    /\ Goto(p, "nftDelete")
    /\ UNCHANGED <<passwd, ledger, envFile, baseFile, ruleFile, template, loader,
                   loaderWants, live, past>>

\* The error of either nft delete is dropped: the table may stay.
DeleteRules(p) ==
    LET a == run[p].acct IN
    /\ At(p, "nftDelete")
    /\ \/ liveRules' = [liveRules EXCEPT ![a] = NoEndpoint]
       \/ "error" \in Faults /\ UNCHANGED liveRules
    /\ Goto(p, "nftDeleteBase")
    /\ UNCHANGED <<disk, phase, liveBase, started, shimRun, past>>

DeleteBaseline(p) ==
    /\ At(p, "nftDeleteBase")
    /\ \/ liveBase' = liveBase \ {run[p].acct}
       \/ "error" \in Faults /\ UNCHANGED liveBase
    /\ Goto(p, "rmEnv")
    /\ UNCHANGED <<disk, phase, liveRules, started, shimRun, past>>

\* SystemdStore.RemoveAccount: env file, forcing file, baseline file.
RemoveEnv(p) ==
    /\ At(p, "rmEnv")
    /\ envFile' = [envFile EXCEPT ![run[p].acct] = NoEndpoint]
    /\ Goto(p, "rmRule")
    /\ UNCHANGED <<passwd, ledger, baseFile, ruleFile, template, loader,
                   loaderWants, shimWants, live, past>>

RemoveRuleFile(p) ==
    /\ At(p, "rmRule")
    /\ ruleFile' = [ruleFile EXCEPT ![run[p].acct] = NoEndpoint]
    /\ Goto(p, "rmBase")
    /\ UNCHANGED <<passwd, ledger, envFile, baseFile, template, loader,
                   loaderWants, shimWants, live, past>>

RemoveBaseFile(p) ==
    /\ At(p, "rmBase")
    /\ baseFile' = [baseFile EXCEPT ![run[p].acct] = "absent"]
    /\ Goto(p, "rmLedger")
    /\ UNCHANGED <<passwd, ledger, envFile, ruleFile, template, loader,
                   loaderWants, shimWants, live, past>>

RemoveLedger(p) ==
    /\ At(p, "rmLedger")
    /\ ledger' = [ledger EXCEPT ![run[p].acct] = NoEndpoint]
    /\ Goto(p, "lastCheck")
    /\ UNCHANGED <<passwd, envFile, baseFile, ruleFile, template, loader,
                   loaderWants, shimWants, live, past>>

\* Faulty variant: the loader is kept only while every account is forced.
HasForcedAccountsAll ==
    \A a \in Accounts : baseFile[a] # "absent" \/ ruleFile[a] # NoEndpoint

\* Any *.nft file in the rules directory, whatever it holds.
HasForcedAccounts ==
    \E a \in Accounts : baseFile[a] # "absent" \/ ruleFile[a] # NoEndpoint

LastCheck(p) ==
    /\ At(p, "lastCheck")
    /\ Goto(p, IF HasForcedAccounts THEN "purge" ELSE "disableLoader")
    /\ UNCHANGED <<disk, live, past>>

\* Remove drops the link, and RemoveCommon drops it once more before the files.
DisableLoader(p) ==
    /\ At(p, "disableLoader")
    /\ loaderWants' = FALSE
    /\ Goto(p, "rmTemplate")
    /\ UNCHANGED <<passwd, ledger, envFile, baseFile, ruleFile, template, loader,
                   shimWants, live, past>>

RemoveTemplate(p) ==
    /\ At(p, "rmTemplate")
    /\ loaderWants' = FALSE
    /\ template' = IF HostOwned THEN template ELSE "absent"
    /\ Goto(p, IF HostOwned THEN "purge" ELSE "rmLoader")
    /\ UNCHANGED <<passwd, ledger, envFile, baseFile, ruleFile, loader,
                   shimWants, live, past>>

RemoveLoader(p) ==
    /\ At(p, "rmLoader")
    /\ loader' = "absent"
    /\ Goto(p, "purge")
    /\ UNCHANGED <<passwd, ledger, envFile, baseFile, ruleFile, template,
                   loaderWants, shimWants, live, past>>

\* Whatever Remove returned, runRm goes on to provision.Rm: with --purge-account
\* it deletes the users (perhaps only one of them), without it it leaves them.
Purge(p) ==
    LET a == run[p].acct IN
    /\ At(p, "purge")
    /\ \E left \in {"none", passwd[a]} \union
                   (IF "error" \in Faults /\ passwd[a] # "none" THEN {"half"} ELSE {}) :
          passwd' = [passwd EXCEPT ![a] = left]
    /\ Exit(p)
    /\ UNCHANGED <<ledger, envFile, baseFile, ruleFile, template, loader,
                   loaderWants, shimWants, live, past>>

-----------------------------------------------------------------------------
(* Failures. *)

\* A step fails without effect.  Install and Reconfigure return at once and
\* undo nothing (the loader write has its own error path above, the ignored
\* nft errors theirs); Remove returns and runRm goes on.
StepError(p) ==
    /\ "error" \in Faults
    /\ \/ run[p].at \in (AddSteps \union InstallSteps) \ {"loader"} /\ Exit(p)
       \/ run[p].at = "purge" /\ Exit(p)
       \/ run[p].at \in RemoveSteps \ {"nftDelete", "nftDeleteBase"} /\ Goto(p, "purge")
    /\ UNCHANGED <<disk, live, past>>

Kill(p) ==
    /\ "kill" \in Faults
    /\ run[p].at # "idle"
    /\ Exit(p)
    /\ UNCHANGED <<disk, live, past>>

\* os.WriteFile truncated its file and the command ended before it was full.
TornFile(p) ==
    LET a == run[p].acct IN
    /\ "tornFile" \in Faults
    /\ \/ /\ At(p, "env")
          /\ envFile' = [envFile EXCEPT ![a] = "torn"]
          /\ UNCHANGED <<baseFile, ruleFile, template, loader>>
       \/ /\ At(p, "basefile")
          /\ baseFile' = [baseFile EXCEPT ![a] = "torn"]
          /\ UNCHANGED <<envFile, ruleFile, template, loader>>
       \/ /\ At(p, "rulefile")
          /\ ruleFile' = [ruleFile EXCEPT ![a] = "torn"]
          /\ UNCHANGED <<envFile, baseFile, template, loader>>
       \/ /\ At(p, "template")
          /\ template' = "torn"
          /\ UNCHANGED <<envFile, baseFile, ruleFile, loader>>
       \/ /\ At(p, "loader") /\ "kill" \in Faults
          /\ loader' = "torn"
          /\ UNCHANGED <<envFile, baseFile, ruleFile, template>>
    /\ Exit(p)
    /\ UNCHANGED <<passwd, ledger, loaderWants, shimWants, live, past>>

\* EnableUnit removed the old symlink and did not create the new one.
TornLink(p) ==
    /\ "tornLink" \in Faults
    /\ \/ At(p, "enableLoader") /\ loaderWants' = FALSE /\ UNCHANGED shimWants
       \/ At(p, "enableShim") /\ shimWants' = shimWants \ {run[p].acct}
                              /\ UNCHANGED loaderWants
    /\ Exit(p)
    /\ UNCHANGED <<passwd, ledger, envFile, baseFile, ruleFile, template, loader,
                   live, past>>

\* The host's activation or an operator creates or deletes the users an add is about
\* to look at (runAdd: "the window in which the pair could change").
UsersChange(p) ==
    /\ "users" \in Faults
    /\ run[p].at \in AddSteps
    /\ \E users \in {"none", "half", "pair"} :
          passwd' = [passwd EXCEPT ![run[p].acct] = users]
    /\ UNCHANGED <<ledger, envFile, baseFile, ruleFile, template, loader,
                   loaderWants, shimWants, live, run, past>>

-----------------------------------------------------------------------------
(* The host: reboot, the generated units at boot, systemd's supervision.     *)

Reboot ==
    /\ "reboot" \in Faults
    /\ phase = "up"
    /\ phase'     = "early"
    /\ liveBase'  = {}
    /\ liveRules' = [a \in Accounts |-> NoEndpoint]
    /\ started'   = {}
    /\ shimRun'   = [a \in Accounts |-> NoEndpoint]
    /\ run'       = [p \in Procs |-> Idle]
    /\ UNCHANGED <<disk, past>>

\* Faulty variant: nothing pulls the shim instances in at boot.
BootNoShims ==
    LET runs == loaderWants /\ loader = "ok" IN
    /\ phase = "early"
    /\ phase'     = "up"
    /\ liveBase'  = {a \in Accounts : runs /\ baseFile[a] = "ok"}
    /\ liveRules' = [a \in Accounts |-> IF runs /\ ruleFile[a] \in Endpoints
                                        THEN ruleFile[a] ELSE NoEndpoint]
    /\ UNCHANGED <<disk, started, shimRun, run, past>>

\* The loader unit, if it is linked and readable, loads every intact rule file
\* before the network is up; multi-user.target then starts the linked shims.
Boot ==
    LET runs == loaderWants /\ loader = "ok" IN
    /\ phase = "early"
    /\ phase'     = "up"
    /\ liveBase'  = {a \in Accounts : runs /\ baseFile[a] = "ok"}
    /\ liveRules' = [a \in Accounts |-> IF runs /\ ruleFile[a] \in Endpoints
                                        THEN ruleFile[a] ELSE NoEndpoint]
    /\ started'   = {a \in shimWants : template = "ok"}
    /\ UNCHANGED <<disk, shimRun, run, past>>

\* systemd starts an instance, or restarts one that exited, from its env file.
ShimStart(a) ==
    /\ a \in started
    /\ shimRun[a] = NoEndpoint
    /\ envFile[a] \in Endpoints
    /\ shimRun' = [shimRun EXCEPT ![a] = envFile[a]]
    /\ UNCHANGED <<disk, phase, liveBase, liveRules, started, run, past>>

ShimExit(a) ==
    /\ "shimExit" \in Faults
    /\ shimRun[a] # NoEndpoint
    /\ shimRun' = [shimRun EXCEPT ![a] = NoEndpoint]
    /\ UNCHANGED <<disk, phase, liveBase, liveRules, started, run, past>>

-----------------------------------------------------------------------------
AddStep(p) ==
    \/ Provision(p) \/ ProvisionHalf(p) \/ SeedHome(p) \/ BuildConfig(p) \/ RefuseAdd(p)

InstallStep(p) ==
    \/ WriteLedger(p) \/ ApplyBaseline(p) \/ ApplyRules(p)
    \/ WriteEnv(p) \/ WriteBaseFile(p) \/ WriteRuleFile(p)
    \/ WriteTemplate(p) \/ WriteLoader(p) \/ LoaderWriteFails(p)
    \/ EnableLoader(p) \/ EnableShim(p) \/ StartShim(p) \/ Finish(p) \/ StartFails(p)

RemoveStep(p) ==
    \/ StopShim(p) \/ StopRefused(p) \/ DisableShim(p)
    \/ DeleteRules(p) \/ DeleteBaseline(p)
    \/ RemoveEnv(p) \/ RemoveRuleFile(p) \/ RemoveBaseFile(p) \/ RemoveLedger(p)
    \/ LastCheck(p) \/ DisableLoader(p) \/ RemoveTemplate(p) \/ RemoveLoader(p)
    \/ Purge(p)

FaultStep(p) == StepError(p) \/ Kill(p) \/ TornFile(p) \/ TornLink(p) \/ UsersChange(p)

Command(p) ==
    \E a \in Accounts : \/ StartRm(p, a)
                        \/ \E e \in Endpoints : StartAdd(p, a, e) \/ StartUpdate(p, a, e)

Host == Reboot \/ Boot \/ \E a \in Accounts : ShimStart(a) \/ ShimExit(a)

Next ==
    \/ \E p \in Procs : \/ Command(p) \/ AddStep(p) \/ InstallStep(p)
                        \/ RemoveStep(p) \/ FaultStep(p)
    \/ Host

Spec == Init /\ [][Next]_vars

\* systemd runs what it was told to run: the boot sequence goes on, and a
\* started instance is (re)started (Restart=on-failure, RestartSec=2).
Fairness == WF_vars(Boot) /\ \A a \in Accounts : WF_vars(ShimStart(a))

LiveSpec == Spec /\ Fairness

-----------------------------------------------------------------------------
(* Properties. *)

Exists(a) == passwd[a] # "none"

\* One loaded table is enough: either one ends in a drop for the account's uid.
Denied(a) == a \in liveBase \/ liveRules[a] # NoEndpoint

\* The account can send traffic past the shim with the host's address.
Direct(a) == phase = "up" /\ Exists(a) /\ ~Denied(a)

\* An account `add` reported as forced never has direct egress again, through
\* failed updates, other accounts' commands and reboots, until it is rm'ed: the
\* boot invariant (CONTEXT.md, "at no point during boot does the anon UID have
\* direct egress").
AddedStayForced == \A a \in Accounts : promise[a] = "add" => ~Direct(a)

\* The same for an account whose `update` reported "re-applied fail-closed, no
\* leak window", whatever its `add` had reported before.
UpdatedStayForced == \A a \in Accounts : promise[a] = "update" => ~Direct(a)

\* A running shim always has its account's forcing table loaded, also while rm
\* takes both away and after every boot (forcing.Remove: "so it is not left
\* running against rules we are about to delete").
ShimHasRules ==
    \A a \in Accounts : shimRun[a] # NoEndpoint => liveRules[a] # NoEndpoint

\* After a command that succeeded, the record, the env file, the persisted and
\* the loaded forcing table and the running shim name one endpoint (nftParams:
\* "the live rules and the persisted rule file ... can never diverge").
SettledAgree ==
    \A a \in settled :
        /\ ledger[a] # NoEndpoint
        /\ envFile[a] = ledger[a]
        /\ ruleFile[a] = ledger[a]
        /\ baseFile[a] = "ok"
        /\ liveRules[a] \in {ledger[a], NoEndpoint}
        /\ shimRun[a] \in {ledger[a], NoEndpoint}

\* An added account's shim has all it needs to come back at the next boot,
\* whatever other accounts' commands run into (README.md: the "per-account shim
\* unit [does] persist across reboots").
AddedShimReturns ==
    \A a \in Accounts : promise[a] = "add" =>
        a \in shimWants /\ template = "ok" /\ envFile[a] \in Endpoints

\* Some command is tearing account a down.
Removing(a) == \E p \in Procs : run[p].verb = "rm" /\ run[p].acct = a

\* No step but one of an rm of that account, or a reboot, takes an account's last
\* deny away (README.md: "`update` has no leak window").
OnlyRmLifts ==
    [][\A a \in Accounts : Denied(a) /\ ~Removing(a) /\ phase' = "up" => Denied(a)']_vars

\* The next boot will load a's resting deny before the network is up.
Rests(a) == loaderWants /\ loader = "ok" /\ baseFile[a] = "ok"

\* While commands do not overlap: whatever tore the shared loader or took its link
\* away, the next add that succeeds, of any account, makes the next boot load the
\* deny of every account whose own file is intact (InstallCommon writes the loader
\* again, EnableUnit makes its link again).  An update mends the loader only.
AddMends ==
    [][\A p \in Procs :
         At(p, "wait") /\ run[p].acct \in settled' \ settled =>
             /\ loader = "ok"
             /\ run[p].verb = "add" => \A a \in Accounts : baseFile[a] = "ok" => Rests(a)]_vars

\* An added account's shim is never down for good: while the host stays up and
\* the account is not rm'ed it comes up, after a boot, an exit or a restart.
ShimComesBack ==
    \A a \in Accounts :
        (phase = "up" /\ promise[a] = "add")
            ~> (shimRun[a] # NoEndpoint \/ phase = "early" \/ promise[a] # "add")

-----------------------------------------------------------------------------
(* Why AddedStayForced holds when rm runs alone and no write is cut short:    *)
(* an invariant of the disk and of the commands in progress.                 *)

\* What add promised is on disk, is loaded, and nobody is taking it away.
AddedKept ==
    \A a \in Accounts : promise[a] = "add" =>
        Rests(a) /\ (phase = "up" => a \in liveBase) /\ ~Removing(a)

\* What a command in progress has achieved by the step it is at.
InstallKept ==
    \A p \in Procs :
        LET c == run[p] IN
        /\ c.at # "idle" => phase = "up"
        /\ c.at \in InstallSteps \ {"ledger", "baseline"} => c.acct \in liveBase
        /\ c.at \in InstallSteps \ {"ledger", "baseline", "apply", "env", "basefile"}
              => baseFile[c.acct] = "ok"
        /\ c.at \in {"enableLoader", "enableShim"} => c.verb = "add"
        /\ c.verb = "add" /\ c.at \in {"enableLoader", "enableShim", "start", "wait"}
              => loader = "ok"
        /\ c.verb = "add" /\ c.at \in {"enableShim", "start", "wait"} => loaderWants

\* The shared units are taken down only when no account has a rule file.
TeardownKept ==
    \A p \in Procs : run[p].at \in {"disableLoader", "rmTemplate", "rmLoader"}
                        => ~HasForcedAccounts

\* A declared loader unit is never touched.
DeclaredKept ==
    HostOwned => loader = "ok" /\ \A p \in Procs : run[p].at \notin {"template", "loader", "rmLoader"}

\* Each of an added account's deny's three supports survives every step: the
\* loaded table, its file, and the unit and link that load it at boot.
ForcingKept == AddedKept /\ InstallKept /\ TeardownKept /\ DeclaredKept

=============================================================================
