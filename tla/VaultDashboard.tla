-------------------------- MODULE VaultDashboard ---------------------------
(***************************************************************************)
(* What an unlocked vault shows (VaultDashboardComponent with its record   *)
(* cards, RecordCardComponent, and its editor, RecordEditorComponent): the *)
(* revealed passwords, the memo, the search, and the form that is saved.   *)
(*                                                                         *)
(* A click on a card first awaits verifySession, which asks the server     *)
(* unless it did so lately or is doing so for another click: one click at  *)
(* a time waits, the others pass it.  Cards are created and destroyed with *)
(* the list; the events of a destroyed card reach nobody.  The list itself *)
(* (VaultRecords) is an environment here: it may change at any time.  The  *)
(* unlocked state is that of InactivityTimer.                              *)
(***************************************************************************)
EXTENDS InactivityTimer

CONSTANTS
    Records,    \* the entries of the vault
    SaveIds,    \* tell the saves under way apart, and bound them
    None, New, Blank

ASSUME DashboardAssumption ==
    /\ None \notin Records /\ New \notin Records /\ Blank \notin Records
    /\ New # Blank

VARIABLES
    cards,      \* the records whose cards are on the screen
    reveal,     \* those that show their password
    hides,      \* the timers of a card that will hide it
    armed,      \* those whose delete button asks for confirmation
    wait,       \* the click that awaits verifySession: [op, rec, alive] or None
    adding,     \* showAddModal
    editing,    \* editingRecord
    form,       \* the record the editor's fields were filled from, New, Blank
    closing,    \* the editor fades out
    saves,      \* saves under way: [id, to, alive], alive while
                \* their editor is
    memo,       \* activeMemo
    typed, query,   \* searchQueryInput and searchQuery are not empty
    spoilt,     \* ghost: saved to a record the form was not filled from
    crossed     \* ghost: an edit was answered with another editor open

pageVars == <<cards, reveal, hides, armed, wait, adding, editing, form,
              closing, saves, memo, typed, query, spoilt, crossed>>
editor == <<adding, editing, form, closing, saves, spoilt, crossed>>
search == <<memo, typed, query>>
buttons == <<reveal, hides, armed>>

Open == adding \/ editing # None

\* Nothing covers the list.
Free == unlocked /\ ~Open /\ memo = None
Ops == {"reveal", "edit", "delete"}

PageInit ==
    /\ cards = {} /\ reveal = {} /\ armed = {}
    /\ hides = [r \in Records |-> 0]
    /\ wait = None /\ adding = FALSE /\ editing = None /\ form = Blank
    /\ closing = FALSE /\ saves = {} /\ memo = None
    /\ typed = FALSE /\ query = FALSE
    /\ spoilt = FALSE /\ crossed = FALSE

-----------------------------------------------------------------------------
\* Only the cards of keep stay; ngOnDestroy clears the timers of the others.
Keep(keep) ==
    /\ cards' = cards \cap keep
    /\ reveal' = reveal \cap keep
    /\ armed' = armed \cap keep
    /\ hides' = [r \in Records |-> IF r \in keep THEN hides[r] ELSE 0]

\* The click that waits loses its card.
Orphan(keep) ==
    IF wait # None /\ wait.rec \notin keep
    THEN [wait EXCEPT !.alive = FALSE] ELSE wait

\* The list changes: a load, a save or a deletion ends, here or elsewhere.
ListChanges ==
    /\ unlocked
    /\ \E shown \in SUBSET Records :
         /\ shown # cards
         /\ cards' = shown
         /\ reveal' = reveal \cap shown
         /\ armed' = armed \cap shown
         /\ hides' = [r \in Records |-> IF r \in shown THEN hides[r] ELSE 0]
         /\ wait' = Orphan(shown)
    /\ UNCHANGED <<editor, search>>

\* The search field: the query follows when the user has paused, and every
\* card is made anew for it (trackByQuery).
Search ==
    /\ Free /\ ~typed
    /\ typed' = TRUE
    /\ UNCHANGED <<cards, buttons, wait, editor, memo, query>>

Debounced ==
    /\ typed /\ ~query
    /\ query' = TRUE
    /\ Keep({}) /\ wait' = Orphan({})
    /\ UNCHANGED <<editor, memo, typed>>

ClearSearch ==
    /\ Free /\ typed
    /\ typed' = FALSE /\ query' = FALSE
    /\ Keep({}) /\ wait' = Orphan({})
    /\ UNCHANGED <<editor, memo>>

-----------------------------------------------------------------------------
\* The same without reading the state again after the await.
RevealBlindly(r) ==
    /\ reveal' = reveal \cup {r}
    /\ hides' = [hides EXCEPT ![r] = @ + 1]
    /\ UNCHANGED <<cards, armed, editor>>

\* A click that has been verified.  The state may have changed meanwhile.
Reveal(r) ==
    /\ \/ /\ r \in reveal
          /\ reveal' = reveal \ {r}
          /\ hides' = [hides EXCEPT ![r] = @ - 1]
       \/ /\ r \notin reveal
          /\ reveal' = reveal \cup {r}
          /\ hides' = [hides EXCEPT ![r] = @ + 1]
    /\ UNCHANGED <<cards, armed, editor>>

\* The editor opens with the fields of the record; one that is open already
\* keeps its fields: ngOnInit does not run again.
Edit(r) ==
    /\ editing' = r
    /\ form' = IF Open THEN form ELSE r
    /\ crossed' = (crossed \/ (Open /\ editing # r))
    /\ UNCHANGED <<cards, buttons, adding, closing, saves, spoilt>>

\* The card of the deleted record goes at once.
Delete(r) == Keep(Records \ {r}) /\ UNCHANGED editor

Proceed(op, r) ==
    \/ op = "reveal" /\ Reveal(r)
    \/ op = "edit" /\ Edit(r)
    \/ op = "delete" /\ Delete(r)

\* The delete button takes two clicks, the second within three seconds.
Arm(r) ==
    /\ Free /\ r \in cards \ armed
    /\ armed' = armed \cup {r}
    /\ UNCHANGED <<cards, reveal, hides, wait, editor, search>>

Disarm(r) ==
    /\ r \in armed
    /\ armed' = armed \ {r}
    /\ UNCHANGED <<cards, reveal, hides, wait, editor, search>>

MayClick(op, r) ==
    /\ Free /\ r \in cards
    /\ op = "delete" => r \in armed

\* A click that verifySession lets pass at once, as does a click that hides.
Click(op, r) ==
    /\ MayClick(op, r)
    /\ Proceed(op, r)
    /\ wait' = IF op = "delete" THEN Orphan(Records \ {r}) ELSE wait
    /\ UNCHANGED search

\* A click that waits for the server's answer.
ClickAndWait(op, r) ==
    /\ MayClick(op, r) /\ wait = None
    /\ op = "reveal" => r \notin reveal
    /\ wait' = [op |-> op, rec |-> r, alive |-> TRUE]
    /\ UNCHANGED <<cards, buttons, editor, search>>

\* The answer: the click proceeds, on its card or on none.
Verified ==
    /\ wait # None
    /\ wait' = None
    /\ \/ wait.alive /\ Proceed(wait.op, wait.rec)
       \/ ~wait.alive /\ UNCHANGED <<cards, buttons, editor>>
    /\ UNCHANGED search

\* Eight seconds after a reveal.
Hide(r) ==
    /\ hides[r] > 0
    /\ reveal' = reveal \ {r}
    /\ hides' = [hides EXCEPT ![r] = @ - 1]
    /\ UNCHANGED <<cards, armed, wait, editor, search>>

ShowMemo(r) ==
    /\ Free /\ r \in cards
    /\ memo' = r
    /\ UNCHANGED <<cards, buttons, wait, editor, typed, query>>

CloseMemo ==
    /\ memo # None
    /\ memo' = None
    /\ UNCHANGED <<cards, buttons, wait, editor, typed, query>>

-----------------------------------------------------------------------------
Add ==
    /\ Free /\ ~query
    /\ adding' = TRUE /\ form' = Blank
    /\ UNCHANGED <<cards, buttons, wait, editing, closing, saves, spoilt,
                   crossed, search>>

Type ==
    /\ Open /\ form = Blank
    /\ form' = New
    /\ UNCHANGED <<cards, buttons, wait, adding, editing, closing, saves,
                   spoilt, crossed, search>>

\* handleSave: an editor opened for a record updates it, another adds one.
\* Nothing keeps a second click from saving again.
Submit ==
    /\ Open /\ form # Blank
    /\ LET to == IF editing # None THEN editing ELSE New IN
         /\ \E id \in SaveIds \ {s.id : s \in saves} :
               saves' = saves \cup {[id |-> id, to |-> to, alive |-> TRUE]}
         /\ spoilt' = (spoilt \/ to # form)
    /\ UNCHANGED <<cards, buttons, wait, adding, editing, form, closing,
                   crossed, search>>

\* The same, resetting showAddModal alone.
CloseAdding ==
    /\ adding' = FALSE /\ UNCHANGED editing
    /\ form' = Blank /\ closing' = FALSE

\* closeEditor, which destroys the editor and with it the fields.
CloseEditor ==
    /\ adding' = FALSE /\ editing' = None
    /\ form' = Blank /\ closing' = FALSE

Dead(ss) == {[s EXCEPT !.alive = FALSE] : s \in ss}

\* The close button, and 400 ms later the end of the editor.
TriggerClose ==
    /\ Open /\ ~closing
    /\ closing' = TRUE
    /\ UNCHANGED <<cards, buttons, wait, adding, editing, form, saves, spoilt,
                   crossed, search>>

Closed ==
    /\ closing
    /\ CloseEditor
    /\ saves' = Dead(saves)
    /\ UNCHANGED <<cards, buttons, wait, spoilt, crossed, search>>

\* A save that ends closes its own editor; one that fails closes any editor.
SaveEnds(s) ==
    /\ s \in saves
    /\ saves' = saves \ {s}
    /\ closing' = (closing \/ s.alive)
    /\ UNCHANGED <<cards, buttons, wait, adding, editing, form, spoilt,
                   crossed, search>>

SaveFails(s) ==
    /\ s \in saves
    /\ CloseEditor
    /\ saves' = Dead(saves \ {s})
    /\ UNCHANGED <<cards, buttons, wait, spoilt, crossed, search>>

-----------------------------------------------------------------------------
\* The same, forgetting the memo.
BlankedButMemo ==
    /\ CloseEditor /\ saves' = Dead(saves)
    /\ UNCHANGED memo /\ typed' = FALSE /\ query' = FALSE
    /\ Keep({}) /\ wait' = Orphan({})
    /\ UNCHANGED <<spoilt, crossed>>

\* What the effects of the dashboard do when the vault has been locked.
Blanked ==
    /\ CloseEditor /\ saves' = Dead(saves)
    /\ memo' = None /\ typed' = FALSE /\ query' = FALSE
    /\ Keep({}) /\ wait' = Orphan({})
    /\ UNCHANGED <<spoilt, crossed>>

PageNext ==
    \/ ListChanges \/ Search \/ Debounced \/ ClearSearch
    \/ \E r \in Records :
         \/ Arm(r) \/ Disarm(r) \/ Hide(r) \/ ShowMemo(r)
         \/ \E op \in Ops : Click(op, r) \/ ClickAndWait(op, r)
    \/ Verified \/ CloseMemo
    \/ Add \/ Type \/ Submit \/ TriggerClose \/ Closed
    \/ \E s \in saves : SaveEnds(s) \/ SaveFails(s)
=============================================================================
