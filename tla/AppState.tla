------------------------------ MODULE AppState ------------------------------
(***************************************************************************)
(* What the app remembers of its look (gameboard-app-state.service.ts):    *)
(* which groups of lists are collapsed, and whether watched films are      *)
(* shown.  Each tab of the browser reads it from localStorage once, when   *)
(* the app starts, and then writes all of it on each change.               *)
(***************************************************************************)

CONSTANTS
    Tabs,       \* the tabs that have the app open
    Titles      \* the groups of lists that have a title

VARIABLES
    appState,   \* what each tab has
    saved,      \* what localStorage has
    behind      \* history: the tabs since whose last load or save another tab has saved,
                \* or a save of whose own has failed

remembered == <<appState, saved, behind>>

AppStates == [collapsedGroups : SUBSET Titles, showWatched : BOOLEAN]

NewAppState == [collapsedGroups |-> {}, showWatched |-> TRUE]

AppStateInit ==
    /\ appState = [t \in Tabs |-> NewAppState]
    /\ saved = NewAppState
    /\ behind = {}

\* Whatever another tab has saved since is overwritten.
SaveAppState(t, s) ==
    /\ appState' = [appState EXCEPT ![t] = s]
    /\ saved' = s
    /\ behind' = Tabs \ {t}

\* clickGroup and setGroupCollapsed.
Toggled(t, title) ==
    [appState[t] EXCEPT !.collapsedGroups = IF title \in @ THEN @ \ {title} ELSE @ \cup {title}]

ClickGroup(t, title) == SaveAppState(t, Toggled(t, title))

\* localStorage is full or disabled.  The groups are changed in place, before they
\* are saved: the tab has them changed even so.
ClickGroupUnsaved(t, title) ==
    /\ appState' = [appState EXCEPT ![t] = Toggled(t, title)]
    /\ behind' = behind \cup {t}
    /\ UNCHANGED saved

\* Of whether films are shown a copy is made, which is dropped if it is not saved.
ClickShowWatchedMovies(t) == SaveAppState(t, [appState[t] EXCEPT !.showWatched = ~@])

\* The app starts again in the tab.
LoadAppState(t) ==
    /\ appState' = [appState EXCEPT ![t] = saved]
    /\ behind' = behind \ {t}
    /\ UNCHANGED saved

AppStateUser ==
    \E t \in Tabs :
        \/ \E title \in Titles : ClickGroup(t, title) \/ ClickGroupUnsaved(t, title)
        \/ ClickShowWatchedMovies(t)
        \/ LoadAppState(t)
=============================================================================
