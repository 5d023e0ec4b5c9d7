----------------------------- MODULE TerminalUI -----------------------------
(***************************************************************************)
(* The terminal UI of the grid bot (grid-bot/rust/src/main.rs, App,        *)
(* tui_loop and handle_event).  One thread repeats: drop what belongs to   *)
(* older settings, apply the answers of background tasks that have come    *)
(* in, start the tasks that are due, draw, and handle at most one key or   *)
(* mouse event.  The tasks answer at any time and in any order through an  *)
(* unbounded channel.  Nothing here submits a transaction.                 *)
(*                                                                         *)
(* The App structure is one record and its methods are functions of it, as *)
(* in the code.  A text field is its length: start_edit takes the text     *)
(* out, typing and Backspace add and remove a character, an empty text is  *)
(* one that no client or grid can be built from.  Of the fields there are  *)
(* the API key, one number of the grid, the product, the market and the    *)
(* subaccount.  What is built from the settings carries the form it was    *)
(* built from and the field that was being edited then, if any, whose text *)
(* was half typed; no step of the UI reads either.                         *)
(* Dropped because nothing reads the result: highlights, notices, the text *)
(* of messages, clipboard, and execute_requested, which nothing sets.      *)
(***************************************************************************)
EXTENDS Integers, Sequences, FiniteSets, FiniteSetsExt

CONSTANTS
  None,         \* absence of a value
  Listing,      \* the markets of the exchange: a sequence per product
  MaxText,      \* longest text of a field
  Counts,       \* numbers of prices a computed grid may have
  MaxColumns,   \* columns of the price board (8 in the code)
  Rows,         \* rows of the price board that fit the terminal
  CommandLines, \* the key and the subaccount that the command line gives, or neither
  Profiles,     \* what the profile file may hold when the UI starts
  Sessions,     \* what a user may do: the events of a session and the rows of the form it touches
  MaxRevision,  \* bound: how often the settings change
  MaxSelected,  \* bound of the selected index while no grid is shown to clamp it
  MaxTasks      \* bound: background tasks of the picker at one time

Products == {"perp", "spot"}
Markets == UNION {{Listing[p][i] : i \in DOMAIN Listing[p]} : p \in Products}

VARIABLES
  app,        \* the App structure
  configured, \* the settings that the loop's API client and grid were built from, or None
  flight,     \* how many tasks of each kind have not answered yet
  given,      \* the settings that the snapshot task of a revision works with, while there is one
  stored,     \* the profile on disk, or None
  session,    \* what this user does
  uiPc        \* "loop": top of an iteration, "input": before the event, "gone"

uiVars == <<app, configured, flight, given, stored, session, uiPc>>

Forms ==
  [product : Products, market : Markets, key : 0 .. MaxText, number : 0 .. MaxText,
   subaccount : 0 .. MaxText]
TextFields == {"key", "number", "subaccount"}
Fields == {"product", "market"} \cup TextFields

\* The settings something was made from: the form then, and the fields half typed then.
Sources == [form : Forms, halfTyped : SUBSET Fields]
ASSUME TerminalUIAssumption ==
  /\ Listing \in [Products -> Seq(Markets)] /\ Listing["perp"] # <<>>
  /\ \A s \in Sessions : s.fields \subseteq Fields
  /\ MaxText \in Nat \ {0} /\ None \notin TextFields
  /\ Counts \subseteq Nat
  /\ CommandLines \subseteq [key : {0, 1}, subaccount : {0, 1}]
  /\ Profiles \subseteq Forms \cup {None}
  /\ MaxColumns \in Nat \ {0} /\ Rows \in Nat \ {0}
  /\ MaxRevision \in Nat /\ MaxSelected \in Nat /\ MaxTasks \in Nat \ {0}

Defaults ==
  [product |-> "perp", market |-> Listing["perp"][1], key |-> 0, number |-> 1, subaccount |-> 0]

Tasks ==
  [kind : {"markets"}, product : Products] \cup [kind : {"detail"}, market : Markets]
    \cup [kind : {"snapshot"}, revision : 0 .. MaxRevision]

NewPicker ==
  [query |-> 0, selected |-> 0, detailFor |-> None, fresh |-> FALSE,
   marketsPending |-> FALSE, detailPending |-> FALSE, detail |-> None]

-----------------------------------------------------------------------------
(* The settings, and what is on display.                                   *)

\* The field that is being edited, if any.
Edited(a) == {a.editing} \cap Fields

\* The settings in force: an edit that is not saved yet does not count.
InForce(a) == IF a.editing = None THEN a.form ELSE [a.form EXCEPT ![a.editing] = a.before]

\* What was made from the settings in force then, and half-typed text, is of the settings in force now.
Agrees(source, a) == \A f \in Fields \ source.halfTyped : source.form[f] = InForce(a)[f]

\* The rows of the picker that match the typed query (the second market on, for any query).
FilteredMarkets(a) ==
  IF a.picker = None \/ a.picker.query = 0 \/ a.markets = <<>> THEN a.markets ELSE Tail(a.markets)

SelectedMarket(a) ==
  LET rows == FilteredMarkets(a)
  IN IF a.picker # None /\ a.picker.selected < Len(rows) THEN rows[a.picker.selected + 1] ELSE None

\* Prices of the shown grid; zero without one.
Count(a) == IF a.snapshot = None THEN 0 ELSE a.snapshot.count

Lower(x, y) == IF x < y THEN x ELSE y
\* Mutant: the difference of two unsigned numbers, unchecked.
Unchecked(x) == x

Saturating(x) == IF x < 0 THEN 0 ELSE x

\* price_grid_geometry: the columns of the board, and the first price of the visible page.
Columns(count) == IF count = 0 THEN 1 ELSE Lower(count, MaxColumns)
FirstIndex(a) == (a.scroll \div Columns(Count(a))) * Columns(Count(a))
PageSize(count) == Columns(count) * Rows

\* The largest scroll offset, aligned to a row.
LastPage(count) ==
  (Saturating(count - PageSize(count)) \div Columns(count)) * Columns(count)

KeepSelectedPriceVisible(a) ==
  LET count == Count(a)
      columns == Columns(count)
      selected == Lower(a.selected, count - 1)
      wanted == IF selected < FirstIndex(a) THEN (selected \div columns) * columns
                ELSE IF selected >= FirstIndex(a) + PageSize(count)
                     THEN Saturating(selected \div columns + 1 - Rows) * columns
                     ELSE a.scroll
  IN IF a.snapshot = None THEN a
     ELSE IF count = 0 THEN [a EXCEPT !.selected = 0, !.scroll = 0]
     ELSE [a EXCEPT !.selected = selected, !.scroll = Lower(wanted, LastPage(count))]

-----------------------------------------------------------------------------
(* The methods of App.                                                     *)

SetError(a) == [a EXCEPT !.report = TRUE, !.dialog = TRUE]

\* Every change of the settings.
SettingsChanged(a) ==
  [a EXCEPT !.revision = @ + 1, !.snapshot = None, !.refreshNow = TRUE]

ForgetMarkets(a) == [a EXCEPT !.markets = <<>>, !.loadedFor = None]

OpenMarketPicker(a) == [a EXCEPT !.picker = NewPicker, !.refreshNow = TRUE]
CloseMarketPicker(a) == [a EXCEPT !.picker = None]

UseSelectedMarket(a) ==
  IF SelectedMarket(a) = None THEN a
  ELSE CloseMarketPicker(SettingsChanged([a EXCEPT !.form.market = SelectedMarket(a)]))

StartEdit(a, field) ==
  [a EXCEPT !.before = a.form[field], !.form[field] = 0, !.editing = field]

FinishEdit(a, save) ==
  LET closed == [a EXCEPT !.editing = None, !.before = 0]
  IN IF save THEN SettingsChanged(closed)
     ELSE [closed EXCEPT !.form[a.editing] = a.before]

\* The fields that are chosen from a list, here the product.
CycleField(a) ==
  SettingsChanged([a EXCEPT !.form.product = CHOOSE p \in Products : p # @])

Type(a) == [a EXCEPT !.form[a.editing] = Lower(@ + 1, MaxText)]
Erase(a) == [a EXCEPT !.form[a.editing] = Saturating(@ - 1)]

\* Settings::apply_profile: the key is encrypted and stays as it is, the other values win.
ApplyProfile(form, profile) ==
  [form EXCEPT !.product = profile.product, !.market = profile.market,
               !.subaccount = profile.subaccount,
               !.number = IF profile.number > 0 THEN profile.number ELSE @]

\* App::load_encrypted_key with the right password.
LoadEncryptedKey(a, profile) ==
  ForgetMarkets(SettingsChanged([a EXCEPT !.form.key = profile.key]))

\* App::reset_profile once the profile is off the disk: the API key stays.
ResetProfile(a) ==
  ForgetMarkets(SettingsChanged([a EXCEPT !.form = [Defaults EXCEPT !.key = a.form.key]]))

-----------------------------------------------------------------------------
(* handle_event: what an event does to the App, one operator per mode of   *)
(* the UI.  The value is the set of possible outcomes.                     *)

DialogKey(a, e) == IF e \in {"Esc", "F2"} THEN [a EXCEPT !.dialog = FALSE] ELSE a

\* Keys that carry a character; a modifier does not matter to a text.  The picker has its own use of f.
Characters == {"Char", "p", "r", "m", "u", "q", "CtrlS", "CtrlR"}

\* Another row or another query asks for another detail.
Reselect(a, query, selected) ==
  [a EXCEPT !.picker.query = query, !.picker.selected = selected,
            !.picker.detailFor = None, !.picker.fresh = FALSE]

PickerKey(a, e) ==
  LET picker == a.picker
      last == Saturating(Len(FilteredMarkets(a)) - 1)
  IN CASE e = "Esc" -> CloseMarketPicker(a)
       [] e = "Enter" -> UseSelectedMarket(a)
       [] e = "Up" -> Reselect(a, picker.query, Saturating(picker.selected - 1))
       [] e = "Down" -> Reselect(a, picker.query, Lower(picker.selected + 1, last))
       [] e = "f" -> [a EXCEPT !.picker.fresh = FALSE]
       [] e = "Backspace" -> Reselect(a, Saturating(picker.query - 1), 0)
       [] e \in Characters -> Reselect(a, Lower(picker.query + 1, 1), 0)
       [] OTHER -> a

EditKey(a, e) ==
  CASE e = "Enter" -> FinishEdit(a, TRUE)
    [] e = "Esc" -> FinishEdit(a, FALSE)
    [] e = "Backspace" -> Erase(a)
    [] e \in Characters \cup {"f"} -> Type(a)
    [] OTHER -> a

FundingKey(a, e) == IF e \in {"Enter", "Esc"} THEN [a EXCEPT !.funding = None] ELSE a

\* The prompt is closed by Enter or Esc; what Enter does with the password is SubmitPassword.
PasswordKey(a, e) == IF e \in {"Enter", "Esc"} THEN [a EXCEPT !.password = None] ELSE a

\* build_funding_instructions: the amounts are those of the snapshot, which needs the balances of a
\* Spot account, the subaccount that is to be funded is the text of the form.
FundingInstructions(a) ==
  IF \/ a.snapshot = None \/ a.form.subaccount = 0
     \/ a.snapshot.form.product # "spot" \/ a.snapshot.form.subaccount = 0
  THEN None
  ELSE [form |-> [a.snapshot.form EXCEPT !.subaccount = a.form.subaccount],
        halfTyped |-> a.snapshot.halfTyped \cup Edited(a)]

OpenFunding(a) ==
  IF a.form.product = "spot" THEN [a EXCEPT !.funding = FundingInstructions(a)] ELSE a

ShowTab(a, tab) == [a EXCEPT !.tab = tab, !.refreshNow = TRUE]
Tabs == <<"config", "preview", "monitor">>
Neighbour(tab, step) ==
  LET at == CHOOSE i \in 1 .. 3 : Tabs[i] = tab IN Tabs[((at + step + 2) % 3) + 1]

\* Enter on the selected row of the form.
EnterField(a, field) ==
  IF field = "market" THEN OpenMarketPicker(a)
  ELSE IF field = "product" THEN CycleField(a) ELSE StartEdit(a, field)

\* The arrow keys and the mouse select any row of the form at any time.
FormKey(a, e) ==
  CASE e = "Enter" -> {EnterField(a, f) : f \in session.fields}
    [] e = "Char" /\ "product" \in session.fields -> {CycleField(a), a}
    [] OTHER -> {a}

BoardKey(a, e) ==
  LET page == IF a.snapshot = None THEN 1 ELSE PageSize(Count(a))
      to(selected) == {KeepSelectedPriceVisible([a EXCEPT !.selected = selected])}
  IN CASE e = "Up" -> to(Saturating(a.selected - 1))
       [] e = "Down" -> to(a.selected + 1)
       [] e = "PageUp" -> to(Saturating(a.selected - Lower(page, Count(a))))
       [] e = "PageDown" -> to(Lower(a.selected + page, Saturating(Count(a) - 1)))
       [] OTHER -> {a}

PlainKey(a, e) ==
  CASE e = "CtrlS" -> {[a EXCEPT !.password = "save"]}
    [] e = "F2" -> {IF a.report THEN [a EXCEPT !.dialog = TRUE] ELSE a}
    [] e = "Esc" -> {[a EXCEPT !.tab = "config"]}
    [] e = "p" -> {ShowTab(a, "preview")}
    [] e = "r" -> {ShowTab(a, "monitor")}
    [] e = "m" -> {OpenMarketPicker(a)}
    [] e = "u" /\ a.tab # "config" -> {OpenFunding(a)}
    [] e = "Tab" -> {ShowTab(a, Neighbour(a.tab, 1))}
    [] e = "BackTab" -> {ShowTab(a, Neighbour(a.tab, -1))}
    [] e = "f" -> {[a EXCEPT !.refreshNow = TRUE]}
    [] OTHER -> IF a.tab = "config" THEN FormKey(a, e) ELSE BoardKey(a, e)

Keys == {"Esc", "Enter", "Up", "Down", "PageUp", "PageDown", "Tab", "BackTab", "F2", "Char",
         "Backspace", "f", "p", "r", "m", "u", "q", "CtrlS", "CtrlR"}
Clicks == {"ClickRow", "ClickTab", "ClickCell", "ClickFunding"}

\* Mutant: the instructions on display do not take the keys.
PressedBehindFunding(a, e) ==
  IF a.dialog THEN {DialogKey(a, e)}
  ELSE IF a.picker # None THEN {PickerKey(a, e)}
  ELSE IF a.editing # None THEN {EditKey(a, e)}
  ELSE IF a.password # None THEN {PasswordKey(a, e)}
  ELSE PlainKey(a, e)

\* Dispatch in the order of the match arms: the first mode that is on takes the key.
Pressed(a, e) ==
  IF a.dialog THEN {DialogKey(a, e)}
  ELSE IF a.picker # None THEN {PickerKey(a, e)}
  ELSE IF a.editing # None THEN {EditKey(a, e)}
  ELSE IF a.funding # None THEN {FundingKey(a, e)}
  ELSE IF a.password # None THEN {PasswordKey(a, e)}
  ELSE PlainKey(a, e)

\* A click: on a row of the picker; on a tab, on a cell of the board or on the line that opens the
\* funding instructions, none of which an open error, an edit or a prompt stops.
Clicked(a, e) ==
  LET page == {i \in FirstIndex(a) .. Count(a) - 1 : i < FirstIndex(a) + PageSize(Count(a))}
  IN IF a.picker # None
     THEN IF e # "ClickRow" THEN {a}
          ELSE {Reselect(a, a.picker.query, i - 1) : i \in DOMAIN FilteredMarkets(a)}
     ELSE IF a.funding # None THEN {a}
     ELSE IF e = "ClickTab" THEN {ShowTab(a, Tabs[i]) : i \in 1 .. 3}
     ELSE IF a.tab = "config" THEN {a}
     ELSE IF e = "ClickCell" THEN {[a EXCEPT !.selected = i] : i \in page}
     ELSE IF e = "ClickFunding" THEN {OpenFunding(a)} ELSE {a}

Scrolled(a, e) ==
  IF a.tab = "config" \/ a.snapshot = None THEN a
  ELSE IF e = "ScrollUp" THEN [a EXCEPT !.scroll = Saturating(@ - Columns(Count(a)))]
  ELSE [a EXCEPT !.scroll = Lower(@ + Columns(Count(a)), LastPage(Count(a)))]

Handled(a, e) ==
  IF e \in Keys THEN Pressed(a, e)
  ELSE IF e \in Clicks THEN Clicked(a, e) ELSE {Scrolled(a, e)}

-----------------------------------------------------------------------------
(* Answers of background tasks.                                            *)

PickerMarkets(a, rows) ==
  [a EXCEPT !.markets = rows, !.loadedFor = a.form.product,
            !.picker.marketsPending = FALSE,
            !.picker.selected = Lower(@, Saturating(Len(rows) - 1)),
            !.picker.detailFor = None, !.picker.fresh = FALSE]

\* A market list is kept only while a picker is open; an error empties the list.
MarketsAnswered(a, product) ==
  IF a.picker = None THEN {a}
  ELSE {PickerMarkets(a, Listing[product]),
        SetError([a EXCEPT !.markets = <<>>, !.picker.marketsPending = FALSE])}

\* Mutant: whatever detail comes in is shown.
DetailAnsweredAny(a, market) ==
  IF a.picker = None THEN {a}
  ELSE {[a EXCEPT !.picker.detailPending = FALSE, !.picker.detail = market]}

\* A detail is kept only if it is for the row asked for last.
DetailAnswered(a, market) ==
  IF a.picker = None THEN {a}
  ELSE IF a.picker.detailFor # market THEN {a}
  ELSE {[a EXCEPT !.picker.detailPending = FALSE, !.picker.detail = market],
        [a EXCEPT !.picker.detailPending = FALSE]}

\* Mutant: the selection stays where it was on the last grid.
ShowSnapshotOnly(a, source, count) ==
  [a EXCEPT !.snapshot = [form |-> source.form, halfTyped |-> source.halfTyped, count |-> count]]

ShowSnapshot(a, source, count) ==
  KeepSelectedPriceVisible(
    [a EXCEPT !.snapshot = [form |-> source.form, halfTyped |-> source.halfTyped, count |-> count],
              !.selected = IF count > 0 THEN Lower(@, count - 1) ELSE @])

\* Mutant: the answer is shown whatever settings it was computed from.
SnapshotAnsweredAny(a, revision, source) ==
  LET b == [a EXCEPT !.pending = FALSE]
  IN {ShowSnapshot(b, source, count) : count \in Counts} \cup {SetError(b)}

\* A snapshot of older settings is dropped.
SnapshotAnswered(a, revision, source) ==
  IF revision # a.revision THEN {a}
  ELSE LET b == [a EXCEPT !.pending = FALSE]
       IN {ShowSnapshot(b, source, count) : count \in Counts} \cup {SetError(b)}

Answered(a, task) ==
  CASE task.kind = "markets" -> MarketsAnswered(a, task.product)
    [] task.kind = "detail" -> DetailAnswered(a, task.market)
    [] task.kind = "snapshot" -> SnapshotAnswered(a, task.revision, given[task.revision])

-----------------------------------------------------------------------------

InFlight(task) == flight[task]
Started(fl, task) == [fl EXCEPT ![task] = @ + 1]
PickerTasks(fl) == MapThenSumSet(LAMBDA t : fl[t], {t \in Tasks : t.kind # "snapshot"})

\* tui_loop before the first iteration: a saved profile is laid over the settings of the command
\* line, and asks for its password when the key it holds is not known yet.
TuiLoopStarts ==
  \E line \in CommandLines, tab \in {"config", "monitor"}, profile \in Profiles :
    LET form == [Defaults EXCEPT !.key = line.key, !.subaccount = line.subaccount]
        asks == profile # None /\ profile.key > 0 /\ line.key = 0
        fresh == [tab |-> IF asks THEN "config" ELSE tab,
                  dialog |-> FALSE, report |-> FALSE, editing |-> None, before |-> 0,
                  funding |-> None, password |-> IF asks THEN "load" ELSE None,
                  form |-> form, revision |-> 0, refreshNow |-> TRUE, pending |-> FALSE,
                  snapshot |-> None, markets |-> <<>>, loadedFor |-> None, picker |-> None,
                  selected |-> 0, scroll |-> 0]
    IN /\ stored = profile
       /\ app = IF profile = None THEN fresh
                ELSE [fresh EXCEPT !.form = ApplyProfile(form, profile)]

TuiInit ==
  /\ TuiLoopStarts
  /\ configured = None
  /\ flight = [task \in Tasks |-> 0]
  /\ given = [revision \in 0 .. MaxRevision |-> None]
  /\ session \in Sessions
  /\ uiPc = "loop"

\* A background task has answered and the loop takes the answer from the channel.
Receive(task) ==
  /\ uiPc = "loop"
  /\ InFlight(task) > 0
  /\ flight' = [flight EXCEPT ![task] = @ - 1]
  /\ app' \in Answered(app, task)
  /\ given' = IF task.kind = "snapshot" THEN [given EXCEPT ![task.revision] = None] ELSE given
  /\ UNCHANGED <<configured, stored, session, uiPc>>

NeedsMarkets(a) ==
  a.loadedFor # a.form.product /\ ~a.picker.marketsPending /\ a.password = None

\* The last detail is out of date after two seconds, or at once when none was asked for.
NeedsDetail(a, due) ==
  /\ SelectedMarket(a) # None /\ ~a.picker.detailPending
  /\ a.picker.detailFor # SelectedMarket(a) \/ ~a.picker.fresh \/ due

AskMarkets(a) ==
  IF ~NeedsMarkets(a) THEN a
  ELSE IF a.form.key = 0 THEN SetError(a) ELSE [a EXCEPT !.picker.marketsPending = TRUE]

AskDetail(a) ==
  IF a.form.key = 0 THEN [a EXCEPT !.picker.detailPending = FALSE]
  ELSE [a EXCEPT !.picker.detailFor = SelectedMarket(a), !.picker.fresh = TRUE,
                 !.picker.detailPending = TRUE, !.picker.detail = None]

\* The picker is open: its list and the detail of its selected row are fetched.
LaunchPicker ==
  /\ uiPc = "loop" /\ app.picker # None
  /\ LET a == AskMarkets(app)
         asked == IF NeedsMarkets(app) /\ app.form.key > 0
                  THEN Started(flight, [kind |-> "markets", product |-> app.form.product])
                  ELSE flight
     IN \E due \in BOOLEAN :     \* two seconds have passed since the last detail
          LET detail == NeedsDetail(a, due)
          IN /\ app' = IF detail THEN AskDetail(a) ELSE a
             /\ flight' = IF detail /\ a.form.key > 0
                          THEN Started(asked, [kind |-> "detail", market |-> SelectedMarket(a)])
                          ELSE asked
  /\ uiPc' = "input"
  /\ UNCHANGED <<configured, given, stored, session>>

\* A snapshot works with the client and the grid that were built, and with the subaccount that the
\* form has when the task starts.
SnapshotSource(source, a) ==
  [form |-> [source.form EXCEPT !.subaccount = a.form.subaccount],
   halfTyped |-> (source.halfTyped \ {"subaccount"}) \cup (Edited(a) \cap {"subaccount"})]

\* A refresh is due while no picker is open.  Without a client and a grid they are built first,
\* and the iteration starts again.
LaunchSnapshot ==
  /\ uiPc = "loop" /\ app.picker = None
  /\ LET a == [app EXCEPT !.refreshNow = FALSE]
     IN \/ /\ configured # None /\ ~app.pending
           /\ app' = [a EXCEPT !.pending = TRUE]
           /\ flight' = Started(flight, [kind |-> "snapshot", revision |-> app.revision])
           /\ given' = [given EXCEPT ![app.revision] = SnapshotSource(configured, app)]
           /\ uiPc' = "input" /\ UNCHANGED configured
        \/ /\ configured # None /\ app.pending
           /\ app' = a
           /\ uiPc' = "input" /\ UNCHANGED <<configured, flight, given>>
        \/ /\ configured = None /\ app.form.number > 0 /\ app.form.key > 0
           /\ app' = [a EXCEPT !.refreshNow = TRUE]
           /\ configured' = [form |-> app.form, halfTyped |-> Edited(app)]
           /\ UNCHANGED <<flight, given, uiPc>>
        \/ /\ configured = None /\ ~(app.form.number > 0 /\ app.form.key > 0)
           /\ app' = SetError(a)
           /\ uiPc' = "input" /\ UNCHANGED <<configured, flight, given>>
  /\ UNCHANGED <<stored, session>>

\* Nothing asked for a refresh and the interval has not passed.
LaunchNothing ==
  /\ uiPc = "loop" /\ app.picker = None /\ ~app.refreshNow
  /\ uiPc' = "input"
  /\ UNCHANGED <<app, configured, flight, given, stored, session>>

\* Mutant: the snapshot that is still being computed is waited for.
AfterRevisionCheckKeeps(a) ==
  IF a.revision = app.revision THEN a
  ELSE [a EXCEPT !.snapshot = None, !.refreshNow = TRUE]

\* The head of the next iteration: settings that changed invalidate what was built from them.
AfterRevisionCheck(a) ==
  IF a.revision = app.revision THEN a
  ELSE [a EXCEPT !.snapshot = None, !.pending = FALSE, !.refreshNow = TRUE]

NextIteration(a) ==
  /\ a.revision <= MaxRevision /\ a.selected <= MaxSelected
  /\ a.picker # None /\ app.picker = None => PickerTasks(flight) + 2 <= MaxTasks
  /\ app' = AfterRevisionCheck(a)
  /\ configured' = IF a.revision = app.revision THEN configured ELSE None
  /\ uiPc' = "loop"

\* One event, or none within the poll interval.
Input ==
  /\ uiPc = "input"
  /\ \/ NextIteration(app)
     \/ \E e \in session.events : \E a \in Handled(app, e) : NextIteration(a)
  /\ UNCHANGED <<flight, given, stored, session>>

AtPlainKeys == ~app.dialog /\ app.picker = None /\ app.editing = None /\ app.funding = None /\ app.password = None

\* Enter in the password prompt.  Saving writes the settings with the key encrypted under the
\* password, unless the key is empty; loading needs the password it was encrypted with.
SubmitPassword ==
  /\ uiPc = "input" /\ "Enter" \in session.events
  /\ ~app.dialog /\ app.picker = None /\ app.editing = None /\ app.funding = None
  /\ LET a == [app EXCEPT !.password = None]
     IN \/ /\ app.password = "save"
           /\ NextIteration(a)
           /\ stored' = app.form
        \/ /\ app.password = "load" /\ stored # None
           /\ stored.key > 0
           /\ NextIteration(LoadEncryptedKey(a, stored))
           /\ UNCHANGED stored
  /\ UNCHANGED <<flight, given, session>>

\* Ctrl+R: the profile is removed from the disk and the form goes back to the defaults.
Reset ==
  /\ uiPc = "input" /\ AtPlainKeys /\ "CtrlR" \in session.events
  /\ NextIteration(ResetProfile(app))
  /\ stored' = None
  /\ UNCHANGED <<flight, given, session>>

\* Ctrl+C at any time, q when no mode takes the key.
Quit ==
  /\ uiPc = "input"
  /\ uiPc' = "gone"
  /\ UNCHANGED <<app, configured, flight, given, stored, session>>

\* The program has ended.
Gone == uiPc = "gone" /\ UNCHANGED uiVars

TuiNext ==
  \/ \E task \in Tasks : Receive(task)
  \/ LaunchPicker \/ LaunchSnapshot \/ LaunchNothing
  \/ Input \/ SubmitPassword \/ Reset \/ Quit \/ Gone

TuiSpec == TuiInit /\ [][TuiNext]_uiVars

-----------------------------------------------------------------------------
(* Properties.                                                             *)

Picker ==
  [query : {0, 1}, selected : Nat, detailFor : Markets \cup {None}, fresh : BOOLEAN,
   marketsPending : BOOLEAN, detailPending : BOOLEAN, detail : Markets \cup {None}]

\* The fields of App have their types; a mode that is off holds None.
TuiTypeOK ==
  /\ app \in [tab : {Tabs[i] : i \in 1 .. 3}, dialog : BOOLEAN, report : BOOLEAN,
             editing : TextFields \cup {None}, before : 0 .. MaxText, funding : Sources \cup {None},
             password : {"save", "load", None}, form : Forms, revision : 0 .. MaxRevision,
             refreshNow : BOOLEAN, pending : BOOLEAN,
             snapshot : [form : Forms, halfTyped : SUBSET Fields, count : Counts] \cup {None},
             markets : {Listing[p] : p \in Products} \cup {<<>>}, loadedFor : Products \cup {None},
             picker : Picker \cup {None}, selected : 0 .. MaxSelected, scroll : Nat]
  /\ configured \in Sources \cup {None} /\ flight \in [Tasks -> Nat]
  /\ given \in [0 .. MaxRevision -> Sources \cup {None}]
  /\ stored \in Forms \cup {None} /\ session \in Sessions
  /\ uiPc \in {"loop", "input", "gone"}

\* The grid on display was computed from the settings in force, although a snapshot takes seconds
\* and the settings may change several times meanwhile (main.rs:3071-3113).  The exception is a text
\* that was being edited when the client and the grid were built, or the subaccount when the task
\* was started (main.rs:3266, 3308-3319): of that field the grid may have a text that never was in
\* force, until the settings change.
SnapshotIsCurrent == app.snapshot # None => Agrees(app.snapshot, app)

\* The funding instructions on display are of the settings in force as long as they are open, with
\* the same exception and that of a field that is edited underneath: nothing else that the user does
\* behind them reaches the form (main.rs:3506-3542, 3699-3749, 4184-4247).
FundingIsCurrent == app.funding # None => Agrees(app.funding, app)

\* One snapshot at most is being computed for the settings of the form, and the indicator says so
\* exactly while it is: a change of the settings neither waits for an answer that will be
\* dropped nor starts a second task for the same settings (main.rs:3027-3034, 3265-3268).
OneSnapshotInFlight ==
  flight[[kind |-> "snapshot", revision |-> app.revision]] = IF app.pending THEN 1 ELSE 0

\* The selected price exists and the page begins inside the grid, although a new snapshot may
\* have fewer prices than the one the selection was made on (main.rs:123-157).
GridOnScreen == Count(app) > 0 => app.selected < Count(app) /\ FirstIndex(app) < Count(app)

\* A picker that shows a list being loaded has a task that will answer it: closing, reopening and
\* changing the product leave no picker that loads for ever and never asks again
\* (main.rs:3038-3040, 3189-3201).
MarketLoadNotLost ==
  app.picker # None /\ app.picker.marketsPending =>
    \E p \in Products : flight[[kind |-> "markets", product |-> p]] > 0

\* Once a detail was asked for, the one on display is of that row: an answer for a row that was
\* left meanwhile does not replace it (main.rs:3060-3064).
DetailForRowAsked ==
  app.picker # None =>
    (app.picker.detail # None /\ app.picker.detailFor # None => app.picker.detail = app.picker.detailFor)
=============================================================================
