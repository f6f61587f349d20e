------------------------------ MODULE TuiModel ------------------------------
(***************************************************************************)
(* The model of the terminal UI (go-ui/ui/model.go) with the process tree  *)
(* it pages through (go-ui/ui/tree.go): one Update per key, window size or *)
(* tick, and the menus, the page, the selected parent and the expanded     *)
(* parents that have to stay right while the processes change under them.  *)
(*                                                                         *)
(* Speeds, totals and names only order the rows.  Rows are sorted among    *)
(* their siblings, so any order of the processes can come of it: one is    *)
(* chosen whenever the data, the sort key or the filter changes.           *)
(* The service answers each fetch with whatever it has at that moment.     *)
(***************************************************************************)
EXTENDS Integers, FiniteSets, SequencesExt

CONSTANTS
  Pids,      \* process numbers, 0 not among them
  Snapshots, \* what the service may answer: parents and categories
  Histories, \* the numbers of days it may answer
  Orders,    \* the orders the sort keys may give the processes
  SortKeys,  \* the keys of the sort menu: download, upload, name, pid
  Heights    \* the window sizes

None == 0
Categories == {"user", "system", "service"}

(* What a fetch of the flows, and one of the history, may come back with.  *)
LiveErrors == {"ok", "live"}
HistoryErrors == {"ok", "history"}

ASSUME PidAssumption == Pids \subseteq Nat \ {None} /\ IsFiniteSet(Pids)
ASSUME SnapshotAssumption ==
  \A f \in Snapshots : /\ DOMAIN f.parent \subseteq Pids
                       /\ f.parent \in [DOMAIN f.parent -> Pids \cup {None}]
                       /\ f.cat \in [DOMAIN f.parent -> Categories]
ASSUME ListAssumption ==
  /\ \A o \in Orders : o \in Seq(Pids) /\ ToSet(o) = Pids /\ Len(o) = Cardinality(Pids)
  /\ SortKeys \in Seq(STRING) /\ "download" \in ToSet(SortKeys)
  /\ Histories \subseteq Nat /\ Heights \subseteq Nat /\ 30 \in Heights

VARIABLES
  flows, history,    \* what was fetched last
  historyErr,        \* Model.historyErr
  err,               \* Model.err, the error the view shows
  mode,
  height,
  pageIndex,
  order,             \* the order of sortBy and sortAsc
  sortBy,
  filterCategory,
  activeMenu, menuIndex, menuReturn,
  selected,          \* selectedParentPID
  expanded,          \* the parents for which expandedParents is true
  quitting, restart  \* restartRequested

data == <<flows, history>>
errors == <<historyErr, err>>
rowsBy == <<order, sortBy, filterCategory>>
menus == <<activeMenu, menuIndex, menuReturn>>
ending == <<quitting, restart>>
vars == <<data, errors, mode, height, pageIndex, rowsBy, menus, selected,
          expanded, ending>>

sortMenuItems == SortKeys \o <<"order">>
filterMenuItems == <<"all", "user", "system", "service">>

-----------------------------------------------------------------------------
(* The tree.                                                               *)

shown == {p \in DOMAIN flows.parent :
            filterCategory = "all" \/ flows.cat[p] = filterCategory}

HasParent_OrSelf(p) == flows.parent[p] \in shown

(* A process hangs under its parent if that is shown; one that is its own  *)
(* parent is a root.                                                       *)
HasParent(p) == flows.parent[p] # p /\ flows.parent[p] \in shown
ChildrenOf(p) == {c \in shown : flows.parent[c] = p /\ HasParent(c)}
parents == {flows.parent[c] : c \in {p \in shown : HasParent(p)}}

(* The elements of seq that are in S, in their order.                      *)
Among(seq, S) ==
  LET kept[i \in 0..Len(seq)] == IF i = 0 THEN <<>>
                                 ELSE IF seq[i] \in S THEN Append(kept[i - 1], seq[i])
                                 ELSE kept[i - 1]
  IN  kept[Len(seq)]

roots == Among(order, {p \in shown : ~HasParent(p)})
children(p) == Among(order, ChildrenOf(p))

(* One after the other, the rows each of pids brings.                      *)
InTurn(pids, rowsOf) ==
  LET rows[i \in 0..Len(pids)] == IF i = 0 THEN <<>> ELSE rows[i - 1] \o rowsOf[pids[i]]
  IN  rows[Len(pids)]

(* appendProcessTreeRows, for a tree at most as deep as there are          *)
(* processes: a row, and below it its children if it is open.              *)
RowsOpen(open) ==
  LET Rows[n \in 0..Cardinality(Pids)] ==
        [p \in Pids |-> IF n > 0 /\ p \in open
                        THEN <<p>> \o InTurn(children(p), Rows[n - 1])
                        ELSE <<p>>]
  IN  InTurn(roots, Rows[Cardinality(Pids)])

realtimeRows == RowsOpen(expanded)

-----------------------------------------------------------------------------
(* Pages.                                                                  *)

Smaller(a, b) == IF a < b THEN a ELSE b
Greater(a, b) == IF a > b THEN a ELSE b
realtimePageSizes == [h \in Heights |-> Greater(3, Greater(6, h - 13) \div 2)]
historyPageSizes == [h \in Heights |-> Greater(6, h - 10)]
realtimePageSize == realtimePageSizes[height]
historyPageSize == historyPageSizes[height]

totalPages(items, size) == Greater(1, (items + size - 1) \div size)

clampPageIndex(page, items, size) ==
  IF page < 0 THEN 0
  ELSE IF page >= totalPages(items, size) THEN totalPages(items, size) - 1
  ELSE page

selectableOn(rows, page, size, pids) ==
  LET start == clampPageIndex(page, Len(rows), size) * size
  IN  Among(SubSeq(rows, start + 1, Smaller(start + size, Len(rows))), pids)

visibleSelectableParentPIDs ==
  selectableOn(realtimeRows, pageIndex, realtimePageSize, parents)

FirstOr_Always(sel, pids) == IF pids = <<>> THEN None ELSE pids[1]

FirstOr(sel, pids) == IF pids = <<>> THEN None
                      ELSE IF Contains(pids, sel) THEN sel ELSE pids[1]

(* normalizeViewState, which ends every Update: the page within range, and *)
(* in real time a selected parent that is on it.                           *)
normalizeViewState(page, sel) ==
  IF mode' = "history"
  THEN /\ pageIndex' = clampPageIndex(page, history', historyPageSize')
       /\ selected' = sel
  ELSE \E rows \in {realtimeRows'} :
         /\ pageIndex' = clampPageIndex(page, Len(rows), realtimePageSize')
         /\ \E pids \in {selectableOn(rows, pageIndex', realtimePageSize', parents')} :
              selected' = FirstOr(sel, pids)

Normal == normalizeViewState(pageIndex, selected)

-----------------------------------------------------------------------------
(* NewModel: what the service has so far, before the window size is known. *)
Init == /\ flows \in Snapshots /\ history \in Histories
        /\ historyErr \in HistoryErrors /\ err \in LiveErrors
        /\ mode = "realtime" /\ height = 30
        /\ order \in Orders /\ sortBy = "download" /\ filterCategory = "all"
        /\ activeMenu = "none" /\ menuIndex = 0 /\ menuReturn = "none"
        /\ expanded = {} /\ quitting = FALSE /\ restart = FALSE
        /\ pageIndex = 0
        /\ selected = FirstOr(None, visibleSelectableParentPIDs)

(* A message other than a key: the window, and the tick of every second,   *)
(* whatever menu is open.                                                  *)
WindowSize == /\ ~quitting
              /\ height' \in Heights
              /\ UNCHANGED <<data, errors, mode, rowsBy, menus, expanded, ending>>
              /\ Normal

Tick_NotNormal == /\ ~quitting
                  /\ flows' \in Snapshots /\ history' \in Histories
                  /\ historyErr' \in HistoryErrors
                  /\ err' \in IF mode = "history" THEN {historyErr'} ELSE LiveErrors
                  /\ order' \in Orders
                  /\ UNCHANGED <<mode, height, sortBy, filterCategory, menus, expanded,
                                 ending, pageIndex, selected>>

Tick == /\ ~quitting
        /\ flows' \in Snapshots /\ history' \in Histories
        /\ historyErr' \in HistoryErrors
        /\ err' \in IF mode = "history" THEN {historyErr'} ELSE LiveErrors
        /\ order' \in Orders
        /\ UNCHANGED <<mode, height, sortBy, filterCategory, menus, expanded, ending>>
        /\ Normal

(* ctrl+c, in a menu or not.                                               *)
CtrlC == /\ ~quitting
         /\ quitting' = TRUE
         /\ UNCHANGED <<data, errors, mode, height, pageIndex, rowsBy, menus,
                        selected, expanded, restart>>

-----------------------------------------------------------------------------
(* Keys without a menu.                                                    *)
Key == ~quitting /\ activeMenu = "none"

(* Where item stands in seq, 0 if it does not.                             *)
PlaceIn(seq, item) == SelectInSeq(seq, LAMBDA k : k = item)

openExitMenu == /\ menuReturn' = IF activeMenu # "exit" THEN activeMenu ELSE menuReturn
                /\ activeMenu' = "exit"
                /\ menuIndex' = 0

openSortMenu == /\ activeMenu' = "sort"
                /\ menuIndex' = PlaceIn(sortMenuItems, sortBy) - 1
                /\ UNCHANGED menuReturn

openFilterMenu == /\ activeMenu' = "filter"
                  /\ menuIndex' = PlaceIn(filterMenuItems, filterCategory) - 1
                  /\ UNCHANGED menuReturn

OpensMenu == /\ Key
             /\ openExitMenu \/ (mode = "realtime" /\ (openSortMenu \/ openFilterMenu))
             /\ UNCHANGED <<data, errors, mode, height, rowsBy, expanded, ending>>
             /\ Normal

(* tab to the history shows what the last tick brought ...                 *)
TabToHistory == /\ Key /\ mode = "realtime"
                /\ mode' = "history"
                /\ err' = historyErr
                /\ UNCHANGED <<data, historyErr, height, rowsBy, menus,
                               expanded, ending>>
                /\ normalizeViewState(0, selected)

(* ... and back to real time fetches at once.                              *)
TabToRealtime == /\ Key /\ mode = "history"
                 /\ mode' = "realtime"
                 /\ flows' \in Snapshots /\ err' \in LiveErrors
                 /\ order' \in Orders
                 /\ UNCHANGED <<history, historyErr, height, sortBy, filterCategory,
                                menus, expanded, ending>>
                 /\ normalizeViewState(0, selected)

(* t and d; which of the two sorts the history is not modelled.            *)
SortsHistory == /\ Key /\ mode = "history"
                /\ UNCHANGED <<data, errors, mode, height, rowsBy, menus, expanded, ending>>
                /\ normalizeViewState(0, selected)

movePage(delta) ==
  IF mode = "history"
  THEN clampPageIndex(pageIndex + delta, history, historyPageSize)
  ELSE clampPageIndex(pageIndex + delta, Len(realtimeRows), realtimePageSize)

MovesPage == /\ Key
             /\ UNCHANGED <<data, errors, mode, height, rowsBy, menus, expanded, ending>>
             /\ \E delta \in {-1, 1} : normalizeViewState(movePage(delta), selected)

moveParentSelection(delta) ==
  LET pids == visibleSelectableParentPIDs
      found == PlaceIn(pids, selected)
      index == (IF found = 0 THEN 1 ELSE found) + delta
  IN  IF pids = <<>> THEN None
      ELSE pids[Smaller(Greater(1, index), Len(pids))]

MovesSelection ==
  /\ Key /\ mode = "realtime"
  /\ UNCHANGED <<data, errors, mode, height, rowsBy, menus, expanded, ending>>
  /\ \E delta \in {-1, 1} : normalizeViewState(pageIndex, moveParentSelection(delta))

(* enter: open or close the selected parent, if it is on the page.         *)
Toggles == /\ Key /\ mode = "realtime"
           /\ selected \in ToSet(visibleSelectableParentPIDs)
           /\ expanded' = IF selected \in expanded THEN expanded \ {selected}
                                                   ELSE expanded \cup {selected}
           /\ UNCHANGED <<data, errors, mode, height, rowsBy, menus, ending>>
           /\ Normal

-----------------------------------------------------------------------------
(* Keys while a menu is open.                                              *)
MenuKey == ~quitting /\ activeMenu # "none"

currentMenuLength == CASE activeMenu = "sort"   -> Len(sortMenuItems)
                       [] activeMenu = "filter" -> Len(filterMenuItems)
                       [] activeMenu = "exit"   -> 2
                       [] OTHER                 -> 0

(* esc: from the exit menu back to the one it was called from.             *)
Esc == /\ MenuKey
       /\ activeMenu' = IF activeMenu = "exit" THEN menuReturn ELSE "none"
       /\ menuReturn' = "none"
       /\ UNCHANGED <<data, errors, mode, height, rowsBy, menuIndex, expanded, ending>>
       /\ Normal

MenuTab_KeepsReturn ==
  /\ MenuKey
  /\ activeMenu' = "none"
  /\ mode' = "history"
  /\ err' = historyErr
  /\ UNCHANGED <<data, historyErr, height, rowsBy, menuIndex, menuReturn,
                 expanded, ending>>
  /\ normalizeViewState(0, selected)

(* tab closes the menus; from real time it goes on to the history.         *)
MenuTab == /\ MenuKey
           /\ activeMenu' = "none" /\ menuReturn' = "none"
           /\ mode' = "history"
           /\ err' = IF mode = "realtime" THEN historyErr ELSE err
           /\ UNCHANGED <<data, historyErr, height, rowsBy, menuIndex, expanded,
                          ending>>
           /\ normalizeViewState(IF mode = "realtime" THEN 0 ELSE pageIndex, selected)

MenuUpDown == /\ MenuKey
              /\ \/ menuIndex > 0 /\ menuIndex' = menuIndex - 1
                 \/ menuIndex < currentMenuLength - 1 /\ menuIndex' = menuIndex + 1
              /\ UNCHANGED <<data, errors, mode, height, rowsBy, activeMenu, menuReturn,
                             expanded, ending>>
              /\ Normal

(* q opens the exit menu over another one; s and f open theirs, or close   *)
(* it; in the exit menu all three do nothing.                              *)
MenuSwitches ==
  /\ MenuKey /\ activeMenu # "exit"
  /\ \/ openExitMenu
     \/ activeMenu' = "none" /\ UNCHANGED <<menuIndex, menuReturn>>
     \/ activeMenu # "sort" /\ mode = "realtime" /\ openSortMenu
     \/ activeMenu # "filter" /\ mode = "realtime" /\ openFilterMenu
  /\ UNCHANGED <<data, errors, mode, height, rowsBy, expanded, ending>>
  /\ Normal

(* applyMenuSelection.                                                     *)
AppliesSort == /\ MenuKey /\ activeMenu = "sort"
               /\ LET key == sortMenuItems[menuIndex + 1] IN
                    sortBy' = IF key = "order" THEN sortBy ELSE key
               /\ order' \in Orders
               /\ activeMenu' = "none"
               /\ UNCHANGED <<data, errors, mode, height, filterCategory, menuIndex,
                              menuReturn, expanded, ending>>
               /\ normalizeViewState(0, selected)

AppliesFilter == /\ MenuKey /\ activeMenu = "filter"
                 /\ filterCategory' = filterMenuItems[menuIndex + 1]
                 /\ order' \in Orders
                 /\ activeMenu' = "none"
                 /\ UNCHANGED <<data, errors, mode, height, sortBy, menuIndex, menuReturn,
                                expanded, ending>>
                 /\ normalizeViewState(0, selected)

AppliesExit == /\ MenuKey /\ activeMenu = "exit"
               /\ quitting' = TRUE
               /\ restart' = (menuIndex # 0)
               /\ UNCHANGED <<data, errors, mode, height, pageIndex, rowsBy, menus,
                              selected, expanded>>

(* The program has quit: no Update comes any more.                         *)
Terminating == quitting /\ UNCHANGED vars

Next == \/ WindowSize \/ Tick \/ CtrlC \/ Terminating
        \/ OpensMenu \/ TabToHistory \/ TabToRealtime \/ SortsHistory
        \/ MovesPage \/ MovesSelection \/ Toggles
        \/ Esc \/ MenuTab \/ MenuUpDown \/ MenuSwitches
        \/ AppliesSort \/ AppliesFilter \/ AppliesExit

Spec == Init /\ [][Next]_vars

-----------------------------------------------------------------------------
(* Every variable has the type its field has, and the keys and categories  *)
(* are ones their menus offer.                                             *)
TypeOK ==
  /\ flows \in Snapshots /\ history \in Histories
  /\ historyErr \in HistoryErrors /\ err \in LiveErrors \cup HistoryErrors
  /\ mode \in {"realtime", "history"} /\ height \in Heights /\ pageIndex \in Nat
  /\ order \in Orders /\ sortBy \in ToSet(SortKeys)
  /\ filterCategory \in ToSet(filterMenuItems)
  /\ activeMenu \in {"none", "sort", "filter", "exit"} /\ menuIndex \in Nat
  /\ menuReturn \in {"none", "sort", "filter"}
  /\ selected \in Pids \cup {None} /\ expanded \subseteq Pids
  /\ quitting \in BOOLEAN /\ restart \in BOOLEAN

(* Only the exit menu is opened over another one, to which esc goes back.  *)
ReturnsFromExit == menuReturn # "none" => activeMenu = "exit"

(* Enter reads the item under the index without looking: whatever menu was *)
(* opened over which, the index is one of the open menu's, and the menus   *)
(* of the rows are open, or waited for, in real time only.                 *)
MenuInRange ==
  /\ activeMenu # "none" => menuIndex \in 0..(currentMenuLength - 1)
  /\ mode = "history" => {activeMenu, menuReturn} \subseteq {"none", "exit"}

(* Whatever the last tick, window size or menu did to the rows, the page   *)
(* exists, and up, down and enter start from a parent that is on it: no    *)
(* parent is selected only where there is none.                            *)
SelectionShown ==
  IF mode = "history"
  THEN pageIndex \in 0..(totalPages(history, historyPageSize) - 1)
  ELSE
    /\ pageIndex \in 0..(totalPages(Len(realtimeRows), realtimePageSize) - 1)
    /\ LET pids == ToSet(visibleSelectableParentPIDs) IN
         selected \in IF pids = {} THEN {None} ELSE pids

TuiInv == TypeOK /\ ReturnsFromExit /\ MenuInRange /\ SelectionShown

(* Only up and down move the selection off a parent that is still on the   *)
(* page: fresh data, sorting, filtering, a new window size, opening and    *)
(* closing and a visit to the history leave it where it was.               *)
SelectionStays ==
  [][/\ selected' # selected
     /\ mode' = "realtime"
     /\ <<data, errors, mode, height, pageIndex, rowsBy, menus, expanded>>'
          # <<data, errors, mode, height, pageIndex, rowsBy, menus, expanded>>
     => selected \notin ToSet(visibleSelectableParentPIDs')]_vars

(* A process on a circle of parent numbers, or below one, hangs under no   *)
(* root.                                                                   *)
OnCircle(p) == \E S \in SUBSET shown :
                 p \in S /\ \A q \in S : flows.parent[q] \in S \ {q}

(* With every parent open the rows hold each shown process once, whatever  *)
(* its parent: filtered away, gone, or itself.  Only those on or below a   *)
(* circle of parent numbers are left out, and the walk ends for them too.  *)
EveryProcessOnce ==
  LET rows == RowsOpen(shown) IN
    /\ ToSet(rows) = {p \in shown : ~OnCircle(p)}
    /\ Len(rows) = Cardinality(ToSet(rows))
=============================================================================
