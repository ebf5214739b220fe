------------------------------ MODULE MCRequests ------------------------------
(***************************************************************************)
(* Five components that share nothing modelled here, in one run: workflow  *)
(* templates, the migrations, the reload of the configuration, the watch of*)
(* an execution and the tasks put into it.  A behaviour moves one of them. *)
(***************************************************************************)
EXTENDS WorkflowTemplate, Migration, ConfigReload, ExecutionWatch, Injection

VARIABLE focus      \* the component that moves

requestsVars == <<flowVars, migVars, cfgVars, wchVars, injVars, focus>>

(* No two namespaces have the same kind of repository.  The names of the    *)
(* namespaces do not matter to the migrations, so one choice stands for all.*)
Kinds == CHOOSE f \in [MigSpaces -> Repositories] : \A n, m \in MigSpaces : f[n] = f[m] => n = m

RequestsInit ==
    /\ focus \in {"templates", "migrations", "config", "watch", "tasks"}
    /\ FlowInit /\ MigInit /\ ReloadInit /\ WatchInit /\ InjectionInit
    /\ focus # "watch" => wchPhase = "Pending"
    /\ focus # "tasks" => /\ injKind = "cron" /\ injExit = <<>> /\ injSidecars = <<>>
                          /\ ~injMounts /\ Len(injDag) = 1
    /\ migRepository = Kinds
    /\ focus # "migrations" => migOld = 0 /\ \A n \in MigSpaces : migSpace[n] = "None"

RequestsNext ==
    /\ \/ focus = "templates" /\ FlowNext /\ UNCHANGED <<migVars, cfgVars, wchVars, injVars>>
       \/ focus = "migrations" /\ MigNext /\ UNCHANGED <<flowVars, cfgVars, wchVars, injVars>>
       \/ focus = "config" /\ ReloadNext /\ UNCHANGED <<flowVars, migVars, wchVars, injVars>>
       \/ focus = "watch" /\ WatchNext /\ UNCHANGED <<flowVars, migVars, cfgVars, injVars>>
       \/ focus = "tasks" /\ InjectionNext /\ UNCHANGED <<flowVars, migVars, cfgVars, wchVars>>
    /\ UNCHANGED focus

(* The fairness of the specifications.                                      *)
RequestsSpec ==
    /\ RequestsInit
    /\ [][RequestsNext]_requestsVars
    /\ \A h \in FlowHandlers : WF_flowVars(focus = "templates" /\ FlowAdvance(h))
    /\ WF_cfgVars(focus = "config" /\ ReloadLoop)
    /\ WF_cfgVars(focus = "config" /\ BeginServing)
    /\ WF_cfgVars(focus = "config" /\ ReloadInformer)
    /\ WF_wchVars(focus = "watch" /\ WatchGoroutine)

(* The types of the five components.                                       *)
RequestsTypeOK == FlowTypeOK /\ MigTypeOK /\ ReloadTypeOK /\ WatchTypeOK /\ InjectionTypeOK

(* Converges, where the configuration is what moves.                        *)
ServerConverges == focus = "config" => Converges
=============================================================================
