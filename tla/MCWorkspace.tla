---------------------------- MODULE MCWorkspace ----------------------------
(***************************************************************************)
(* The task tree at the api, the lists a browser shows of it and an        *)
(* editing session of a task's page, checked side by side: one of them     *)
(* moves in each behaviour.  TaskStore moves as "lists" and as "detail",   *)
(* with a list of two pages or a detail pane through more writes, and as   *)
(* "page", with a short list and a detail pane whose task all writes name, *)
(* where nothing goes wrong on the way: what waits for both of them.       *)
(***************************************************************************)
EXTENDS MCTaskTree, TaskStore, DocEditing

VARIABLE focus

ShowsOnly(views) ==
    /\ \A v \in Views \ views : entries'[v].status = "idle"
    /\ \A c \in changes' : c.over \subseteq views
    /\ \A commit \in committing' : commit.names \subseteq views

WorkspaceInit ==
    /\ focus \in {"tree", "lists", "page", "detail", "editing"}
    /\ TreeInit /\ StoreInit /\ EditInit

WorkspaceNext ==
    /\ UNCHANGED focus
    /\ \/ /\ focus = "tree" /\ TreeNext
          /\ UNCHANGED <<storeVars, editVars>>
       \/ /\ focus \in {"lists", "page", "detail"} /\ StoreNext
          /\ focus = "lists" => ShowsOnly(LongLists)
          /\ focus = "detail" => ShowsOnly(Details)
          /\ focus = "page" => /\ ShowsOnly(Views \ LongLists) /\ dbVersion' < MaxWrites
                               /\ \A commit \in committing' : commit.names = Details
                               /\ mishaps' = {} /\ socket'.disruptions = 0
          /\ UNCHANGED <<treeVars, editVars>>
       \/ /\ focus = "editing" /\ EditNext
          /\ UNCHANGED <<treeVars, storeVars>>

WorkspaceSpec == WorkspaceInit /\ [][WorkspaceNext]_<<focus, treeVars, storeVars, editVars>>
=============================================================================
