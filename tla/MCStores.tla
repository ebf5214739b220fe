------------------------------- MODULE MCStores -------------------------------
(***************************************************************************)
(* Five components that share nothing modelled here, in one run: workspace *)
(* templates, cron workflows, secrets, labels and metrics.  A behaviour    *)
(* moves one of them.                                                      *)
(***************************************************************************)
EXTENDS WorkspaceTemplate, CronWorkflow, Secret, Labels, Metrics, TLC

VARIABLE focus      \* the component that moves

storesVars == <<tplVars, cronVars, secVars, labVars, metVars, focus>>

StoresInit ==
    /\ focus \in {"templates", "crons", "secret", "labels", "metrics"}
    /\ TplInit /\ CronInit /\ SecretInit /\ LabelsInit /\ MetInit
    /\ focus # "secret" => secData = {}
    /\ focus # "labels" => labRow = [n \in LabelSpaces |-> NoLabels]

StoresNext ==
    /\ \/ focus = "templates" /\ TplNext /\ UNCHANGED <<cronVars, secVars, labVars, metVars>>
       \/ focus = "crons" /\ CronNext /\ UNCHANGED <<tplVars, secVars, labVars, metVars>>
       \/ focus = "secret" /\ SecretNext /\ UNCHANGED <<tplVars, cronVars, labVars, metVars>>
       \/ focus = "labels" /\ LabelsNext /\ UNCHANGED <<tplVars, cronVars, secVars, metVars>>
       \/ focus = "metrics" /\ MetNext /\ UNCHANGED <<tplVars, cronVars, secVars, labVars>>
    /\ UNCHANGED focus

StoresSpec == StoresInit /\ [][StoresNext]_storesVars

Symmetry ==
    {f @@ g @@ h : f \in Permutations(Crons), g \in Permutations(Schedules), h \in Permutations(CronHandlers)}

(* The types of the five components.                                        *)
StoresTypeOK == TplTypeOK /\ CronTypeOK /\ SecretTypeOK /\ LabelsTypeOK /\ MetTypeOK
=============================================================================
