---------------------------- MODULE MCComponents ----------------------------
(***************************************************************************)
(* The components that keep to themselves, one at a time: a behaviour is   *)
(* one of the component named by part, which Init chooses, and the         *)
(* variables of the others stay as they were.                              *)
(***************************************************************************)
EXTENDS Notes, Preferences, StateFile, ConfigFile, ScoopHandoff,
        Replacement, ActivityScreen, RunDetails, ActivityLists,
        TerminalTargets, ServerStack, BrewUpgrade, ChartHistories,
        ArtifactPreview, DatasetWorkspace, Summaries

VARIABLE part

Parts == {"notes", "preferences", "statefile", "config", "scoop",
          "replacement", "screen", "details", "lists", "targets",
          "stack", "brew", "charts", "preview", "datasets",
          "summaries"}

(* What is not looked at begins in one way.                                *)
ComponentsInit ==
    /\ part \in Parts
    /\ NotesInit
    /\ PreferencesInit
    /\ StateFileInit
    /\ ConfigInit
    /\ ScoopInit
    /\ ReplacementInit
    /\ ScreenInit
    /\ DetailsInit
    /\ ListsInit
    /\ TargetsInit
    /\ StackInit
    /\ BrewInit
    /\ ChartsInit
    /\ PreviewInit
    /\ WorkspaceInit
    /\ SummariesInit
    /\ part # "preferences" => load = NoLoads({"pin"})
    /\ part # "statefile" => database = NoDatabase
    /\ part # "replacement" => place = Nothing
    /\ part # "targets" => \A t \in TargetIDs : targets[t] # Absent
    /\ part # "brew" => opt = (CHOOSE k \in Kegs : TRUE) /\ ~upgrade.linked
    /\ part # "preview" => artifact = 0

ComponentsNext ==
    /\ \/ part = "notes" /\ NotesNext
       \/ part = "preferences" /\ PreferencesNext
       \/ part = "statefile" /\ StateFileNext
       \/ part = "config" /\ ConfigNext
       \/ part = "scoop" /\ ScoopNext
       \/ part = "replacement" /\ ReplacementNext
       \/ part = "screen" /\ ScreenNext
       \/ part = "details" /\ DetailsNext
       \/ part = "lists" /\ ListsNext
       \/ part = "targets" /\ TargetsNext
       \/ part = "stack" /\ StackNext
       \/ part = "brew" /\ BrewNext
       \/ part = "charts" /\ ChartsNext
       \/ part = "preview" /\ PreviewNext
       \/ part = "datasets" /\ WorkspaceNext
       \/ part = "summaries" /\ SummariesNext
    /\ part # "notes" => UNCHANGED notesVars
    /\ part # "preferences" => UNCHANGED preferenceVars
    /\ part # "statefile" => UNCHANGED stateFileVars
    /\ part # "config" => UNCHANGED configVars
    /\ part # "scoop" => UNCHANGED scoopVars
    /\ part # "replacement" => UNCHANGED replacementVars
    /\ part # "screen" => UNCHANGED screenVars
    /\ part # "details" => UNCHANGED detailVars
    /\ part # "lists" => UNCHANGED listVars
    /\ part # "targets" => UNCHANGED targetVars
    /\ part # "stack" => UNCHANGED stackVars
    /\ part # "brew" => UNCHANGED brewVars
    /\ part # "charts" => UNCHANGED chartVars
    /\ part # "preview" => UNCHANGED previewVars
    /\ part # "datasets" => UNCHANGED workspaceVars
    /\ part # "summaries" => UNCHANGED summaryVars
    /\ UNCHANGED part

allVars ==
    <<part, notesVars, preferenceVars, stateFileVars, configVars, scoopVars,
      replacementVars, screenVars, detailVars, listVars, targetVars,
      stackVars, brewVars, chartVars, previewVars, workspaceVars,
      summaryVars>>

ComponentsSpec == ComponentsInit /\ [][ComponentsNext]_allVars

-----------------------------------------------------------------------------
(* The variables of the others say nothing.                                *)
MCView ==
    <<part, CASE part = "notes" -> notesVars
              [] part = "preferences" -> preferenceVars
              [] part = "statefile" -> stateFileVars
              [] part = "config" -> configVars
              [] part = "scoop" -> scoopVars
              [] part = "replacement" -> replacementVars
              [] part = "screen" -> screenVars
              [] part = "details" -> detailVars
              [] part = "lists" -> listVars
              [] part = "targets" -> targetVars
              [] part = "stack" -> stackVars
              [] part = "brew" -> brewVars
              [] part = "charts" -> chartVars
              [] part = "preview" -> previewVars
              [] part = "datasets" -> workspaceVars
              [] part = "summaries" -> summaryVars>>

(* A note of the first of two subjects.                                    *)
MCSubjectOf == [n \in NoteIds |-> IF n = "n1" THEN "s1" ELSE "s2"]

(* A binary of schema 1 and two of schema 3.                               *)
MCSupports == <<1, 3, 3>>

(* A relative path and what it becomes.                                    *)
MCNormal == [v \in Settings |-> CHOOSE w \in Settings : TRUE]

(* Of three rows, one is still to be loaded.                               *)
MCUnloaded == {{"view"}, {"visibility"}, {"pin"}}

MCRunOrder == <<"newer", "older">>
MCRunsInOrder == <<"r1", "r2">>
MCSections == <<"history">>
MCHome == [r \in {"r1", "r2", "r3"} |-> IF r = "r3" THEN "e2" ELSE "e1"]
MCLoadedRuns == {{}, {"r1"}}
MCSearches == {{"newer", "older"}, {"older"}}
=============================================================================
