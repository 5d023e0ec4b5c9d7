-------------------------- MODULE TerminalUIProofs --------------------------
(***************************************************************************)
(* Theorems about the terminal UI for any listing, any user, any size of   *)
(* the terminal and any bound on the length of a session.                  *)
(***************************************************************************)
EXTENDS TerminalUI, TLAPS

(* The App structure without the bounds of the model. *)
App ==
  [tab : {Tabs[i] : i \in 1 .. 3}, dialog : BOOLEAN, report : BOOLEAN,
   editing : TextFields \cup {None}, before : 0 .. MaxText, funding : Sources \cup {None},
   password : {"save", "load", None}, form : Forms, revision : Nat,
   refreshNow : BOOLEAN, pending : BOOLEAN,
   snapshot : [form : Forms, halfTyped : SUBSET Fields, count : Counts] \cup {None},
   markets : {Listing[p] : p \in Products} \cup {<<>>}, loadedFor : Products \cup {None},
   picker : Picker \cup {None}, selected : Nat, scroll : Nat]

\* The detail on display is the one asked for last.
DetailFits(a) ==
  a.picker # None /\ a.picker.detail # None /\ a.picker.detailFor # None
    => a.picker.detail = a.picker.detailFor

\* The selection and the top of the page lie inside the grid.
GridFits(a) == Count(a) > 0 => a.selected < Count(a) /\ a.scroll < Count(a)

LoadsMarkets(a) == a.picker # None /\ a.picker.marketsPending

\* The grid on display is of the settings in force.
SnapshotFits(a) == a.snapshot # None => Agrees(a.snapshot, a)

\* So are the funding instructions.  While they are open the picker is closed, and the only field
\* that is edited is the one that was being edited when they were opened.
FundingFits(a) ==
  a.funding # None =>
    /\ a.picker = None
    /\ a.editing = None \/ a.editing \in a.funding.halfTyped
    /\ Agrees(a.funding, a)

\* The form, and what is open over it, stay as they are.
SameForm(a, b) ==
  b.form = a.form /\ b.editing = a.editing /\ b.before = a.before /\ b.funding = a.funding

\* What handling an event may do to App: the settings in force change, which takes the grid off the
\* display, or they stay, and the grid with a selection inside; no load begins and no answer comes in.
Touch(a, b) ==
  /\ b \in App
  /\ b.pending = a.pending
  /\ \/ b.revision = a.revision /\ b.snapshot = a.snapshot /\ InForce(b) = InForce(a)
     \/ b.revision = a.revision + 1 /\ b.snapshot = None
  /\ LoadsMarkets(b) => LoadsMarkets(a)
  /\ SnapshotFits(a) /\ FundingFits(a) => FundingFits(b)
  /\ DetailFits(a) => DetailFits(b)
  /\ GridFits(a) => GridFits(b)

-----------------------------------------------------------------------------
(***************************************************************************)
(* The four kinds of changes.                                              *)
(***************************************************************************)

(* What agreed with the settings in force agrees with them as long as they stay. *)
LEMMA SameInForce ==
  ASSUME NEW a, NEW b
  PROVE  /\ SameForm(a, b) => InForce(b) = InForce(a)
         /\ InForce(b) = InForce(a) => \A source : Agrees(source, a) => Agrees(source, b)
  BY DEF SameForm, InForce, Agrees

LEMMA FundingStays ==
  ASSUME NEW a, NEW b, InForce(b) = InForce(a), b.funding = a.funding,
         b.editing = a.editing \/ b.editing = None \/ a.funding = None,
         b.picker = a.picker \/ a.picker # None \/ a.funding = None
  PROVE  FundingFits(a) => FundingFits(b)
  BY SameInForce DEF FundingFits

(* Neither the picker nor the grid changes, nor do the settings in force. *)
LEMMA OtherFields ==
  ASSUME NEW a \in App, NEW b \in App, b.pending = a.pending, b.revision = a.revision,
         b.snapshot = a.snapshot, b.picker = a.picker, b.selected = a.selected, b.scroll = a.scroll,
         InForce(b) = InForce(a), SnapshotFits(a) /\ FundingFits(a) => FundingFits(b)
  PROVE  Touch(a, b)
  BY DEF Touch, LoadsMarkets, DetailFits, GridFits, Count

(* Only a flag changes, the tab or the prompt. *)
LEMMA OtherModes ==
  ASSUME NEW a \in App, NEW b \in App, b.pending = a.pending, b.revision = a.revision,
         b.snapshot = a.snapshot, b.picker = a.picker, b.selected = a.selected, b.scroll = a.scroll,
         SameForm(a, b)
  PROVE  Touch(a, b)
<1>1. InForce(b) = InForce(a) /\ (FundingFits(a) => FundingFits(b))
  BY SameInForce, FundingStays DEF SameForm
<1>2. QED BY <1>1, OtherFields

(* The picker changes while no instructions are open, and no load begins. *)
LEMMA OnlyPicker ==
  ASSUME NEW a \in App, NEW b \in App, b.pending = a.pending, b.revision = a.revision,
         b.snapshot = a.snapshot, b.selected = a.selected, b.scroll = a.scroll, SameForm(a, b),
         a.picker # None \/ a.funding = None,
         LoadsMarkets(b) => LoadsMarkets(a), DetailFits(a) => DetailFits(b)
  PROVE  Touch(a, b)
<1>1. InForce(b) = InForce(a) /\ (FundingFits(a) => FundingFits(b))
  BY SameInForce, FundingStays DEF SameForm
<1>2. QED BY <1>1 DEF Touch, GridFits, Count

(* The selection or the page changes, within the grid. *)
LEMMA OnlyGrid ==
  ASSUME NEW a \in App, NEW b \in App, b.pending = a.pending, b.revision = a.revision,
         b.snapshot = a.snapshot, b.picker = a.picker, SameForm(a, b), GridFits(a) => GridFits(b)
  PROVE  Touch(a, b)
<1>1. InForce(b) = InForce(a) /\ (FundingFits(a) => FundingFits(b))
  BY SameInForce, FundingStays DEF SameForm
<1>2. QED BY <1>1 DEF Touch, LoadsMarkets, DetailFits

(* The settings change. *)
LEMMA NewSettings ==
  ASSUME NEW a \in App, NEW b \in App, b.pending = a.pending, b.revision = a.revision + 1,
         b.snapshot = None, b.picker = a.picker \/ b.picker = None,
         FundingFits(a) => FundingFits(b)
  PROVE  Touch(a, b)
  BY DEF Touch, LoadsMarkets, DetailFits, GridFits, Count

LEMMA NoChange == ASSUME NEW a \in App PROVE Touch(a, a)
  BY OtherModes DEF SameForm

-----------------------------------------------------------------------------
(***************************************************************************)
(* The methods of App.                                                     *)
(***************************************************************************)
LEMMA SetErrorTouches == ASSUME NEW a \in App PROVE Touch(a, SetError(a))
<1>1. SetError(a) \in App
  BY DEF App, SetError
<1>2. QED BY ZenonT(40), <1>1, OtherModes DEF App, SetError, SameForm

LEMMA SettingsChangedApp ==
  ASSUME NEW a \in App
  PROVE  /\ SettingsChanged(a) \in App
         /\ SettingsChanged(a).pending = a.pending
         /\ SettingsChanged(a).revision = a.revision + 1
         /\ SettingsChanged(a).snapshot = None
         /\ SettingsChanged(a).picker = a.picker
         /\ SameForm(a, SettingsChanged(a))
<1>1. a.revision + 1 \in Nat
  BY DEF App
<1>2. \A n \in Nat : [a EXCEPT !.revision = n, !.snapshot = None, !.refreshNow = TRUE] \in App
  BY DEF App
<1>3. SettingsChanged(a) \in App
  BY <1>1, <1>2 DEF SettingsChanged
<1>4. QED BY <1>3 DEF App, SettingsChanged, SameForm

(* The settings in force, field by field. *)
LEMMA InForceFields ==
  ASSUME NEW a \in App
  PROVE  /\ InForce(a) \in Forms
         /\ \A f \in Fields : a.editing # f => InForce(a)[f] = a.form[f]
         /\ a.editing = None => InForce(a) = a.form
<1>1. a.form \in Forms /\ a.before \in 0 .. MaxText
  BY DEF App
<1>2. CASE a.editing = None
  BY <1>1, <1>2 DEF InForce
<1>3. CASE a.editing # None
  <2>1. a.editing \in TextFields
    BY <1>3 DEF App
  <2>2. InForce(a) = [a.form EXCEPT ![a.editing] = a.before]
    BY <1>3 DEF InForce
  <2>3. [a.form EXCEPT ![a.editing] = a.before] \in Forms
    BY <1>1, <2>1 DEF Forms, TextFields
  <2>4. \A f \in Fields : a.editing # f => [a.form EXCEPT ![a.editing] = a.before][f] = a.form[f]
    BY <1>1, <2>1 DEF Forms, TextFields, Fields
  <2>5. QED BY <1>3, <2>2, <2>3, <2>4
<1>4. QED BY <1>2, <1>3

LEMMA OneTextForm ==
  ASSUME NEW form \in Forms, NEW field \in TextFields, NEW text \in 0 .. MaxText
  PROVE  /\ [form EXCEPT ![field] = text] \in Forms
         /\ [form EXCEPT ![field] = text][field] = text
         /\ \A old : [[form EXCEPT ![field] = text] EXCEPT ![field] = old] = [form EXCEPT ![field] = old]
         /\ [[form EXCEPT ![field] = text] EXCEPT ![field] = form[field]] = form
  BY DEF Forms, TextFields

LEMMA StartEditTouches ==
  ASSUME NEW a \in App, NEW field \in TextFields, a.editing = None, a.funding = None
  PROVE  Touch(a, StartEdit(a, field))
<1>1. a.form \in Forms /\ a.form[field] \in 0 .. MaxText /\ 0 \in 0 .. MaxText
  BY TerminalUIAssumption DEF App, Forms, TextFields, TerminalUIAssumption
<1>2. PICK f \in Forms : f = [a.form EXCEPT ![field] = 0]
  BY <1>1, OneTextForm
<1>3. PICK text \in 0 .. MaxText : text = a.form[field]
  BY <1>1
<1> DEFINE b == StartEdit(a, field)
<1>4. b = [a EXCEPT !.before = text, !.form = f, !.editing = field]
  BY <1>1, <1>2, <1>3 DEF StartEdit, App
<1> HIDE DEF b
<1>5. b \in App
  BY <1>4 DEF App
<1>6. /\ b.pending = a.pending /\ b.revision = a.revision /\ b.snapshot = a.snapshot
      /\ b.picker = a.picker /\ b.selected = a.selected /\ b.scroll = a.scroll
      /\ b.funding = a.funding /\ b.editing = field /\ b.before = text /\ b.form = f
  BY <1>4 DEF App
<1>7. InForce(b) = InForce(a)
  <2>1. field # None
    BY TerminalUIAssumption DEF TerminalUIAssumption
  <2>2. [f EXCEPT ![field] = text] = a.form
    BY <1>1, <1>2, <1>3, OneTextForm
  <2>3. QED BY <1>6, <2>1, <2>2 DEF InForce
<1>8. Touch(a, b)
  BY <1>5, <1>6, <1>7, OtherFields DEF FundingFits
<1>9. QED BY <1>8 DEF b

(* Instructions that are open over an edit do not depend on the edited field. *)
LEMMA FundingOverEdit ==
  ASSUME NEW a \in App, NEW b \in App, FundingFits(a), b.form = a.form, b.editing = None,
         b.funding = a.funding, b.picker = a.picker, a.editing \in TextFields
  PROVE  FundingFits(b)
<1> SUFFICES ASSUME a.funding # None
             PROVE  b.picker = None /\ Agrees(b.funding, b)
  BY DEF FundingFits
<1>1. a.editing # None
  BY TerminalUIAssumption DEF TerminalUIAssumption
<1>2. a.picker = None /\ a.editing \in a.funding.halfTyped /\ Agrees(a.funding, a)
  BY <1>1 DEF FundingFits
<1>3. ASSUME NEW f \in Fields \ a.funding.halfTyped PROVE a.funding.form[f] = InForce(b)[f]
  <2>1. a.funding.form[f] = InForce(a)[f] /\ a.editing # f
    BY <1>2, <1>3 DEF Agrees
  <2>2. InForce(a)[f] = a.form[f] /\ InForce(b) = a.form
    BY <1>3, <2>1, InForceFields
  <2>3. QED BY <2>1, <2>2
<1>4. QED BY <1>2, <1>3 DEF Agrees

LEMMA FinishEditTouches ==
  ASSUME NEW a \in App, a.editing \in TextFields, NEW save \in BOOLEAN
  PROVE  Touch(a, FinishEdit(a, save))
<1> DEFINE closed == [a EXCEPT !.editing = None, !.before = 0]
<1>0. 0 \in 0 .. MaxText /\ a.editing # None
  BY TerminalUIAssumption DEF TerminalUIAssumption
<1>1. closed \in App
  BY <1>0 DEF App
<1>2. /\ closed.pending = a.pending /\ closed.revision = a.revision /\ closed.snapshot = a.snapshot
      /\ closed.picker = a.picker /\ closed.selected = a.selected /\ closed.scroll = a.scroll
      /\ closed.form = a.form /\ closed.editing = None /\ closed.funding = a.funding
  BY DEF App
<1>3. CASE save
  <2>1. FinishEdit(a, save) = SettingsChanged(closed)
    BY <1>3 DEF FinishEdit
  <2> HIDE DEF closed
  <2> DEFINE b == SettingsChanged(closed)
  <2>2. /\ b \in App /\ b.pending = a.pending /\ b.revision = a.revision + 1 /\ b.snapshot = None
        /\ b.picker = a.picker
        /\ b.form = a.form /\ b.editing = None /\ b.funding = a.funding
    BY <1>1, <1>2, SettingsChangedApp DEF SameForm
  <2> HIDE DEF b
  <2>3. FundingFits(a) => FundingFits(b)
    BY <2>2, FundingOverEdit
  <2>4. Touch(a, b)
    BY <2>2, <2>3, NewSettings
  <2>5. QED BY <2>1, <2>4 DEF b
<1>4. CASE ~save
  <2>1. a.form \in Forms /\ a.before \in 0 .. MaxText
    BY DEF App
  <2>2. PICK form \in Forms : form = [a.form EXCEPT ![a.editing] = a.before]
    BY <2>1, OneTextForm
  <2> DEFINE b == FinishEdit(a, save)
  <2>3. b = [closed EXCEPT !.form[a.editing] = a.before]
    BY <1>4 DEF FinishEdit
  <2> HIDE DEF closed, b
  <2>4. b = [closed EXCEPT !.form = form]
    BY <1>1, <1>2, <2>2, <2>3 DEF App
  <2>5. b \in App
    BY <1>1, <2>4 DEF App
  <2>6. /\ b.pending = a.pending /\ b.revision = a.revision /\ b.snapshot = a.snapshot
        /\ b.picker = a.picker /\ b.selected = a.selected /\ b.scroll = a.scroll
        /\ b.form = form /\ b.editing = None /\ b.funding = a.funding
    BY <1>1, <1>2, <2>4 DEF App
  <2>7. InForce(b) = InForce(a)
    BY <1>0, <2>2, <2>6 DEF InForce
  <2>8. Touch(a, b)
    BY <2>5, <2>6, <2>7, FundingStays, OtherFields
  <2>9. QED BY <2>8 DEF b
<1>5. QED BY <1>3, <1>4

(* Another text in the field that is edited. *)
LEMMA OneFieldTouches ==
  ASSUME NEW a \in App, a.editing \in TextFields, NEW text \in 0 .. MaxText
  PROVE  Touch(a, [a EXCEPT !.form[a.editing] = text])
<1>0. a.form \in Forms /\ a.editing # None
  BY TerminalUIAssumption DEF App, TerminalUIAssumption
<1>1. PICK form \in Forms : form = [a.form EXCEPT ![a.editing] = text]
  BY <1>0, OneTextForm
<1> DEFINE b == [a EXCEPT !.form[a.editing] = text]
<1>2. b = [a EXCEPT !.form = form]
  BY <1>1 DEF App
<1> HIDE DEF b
<1>3. b \in App
  BY <1>2 DEF App
<1>4. /\ b.pending = a.pending /\ b.revision = a.revision /\ b.snapshot = a.snapshot
      /\ b.picker = a.picker /\ b.selected = a.selected /\ b.scroll = a.scroll
      /\ b.form = form /\ b.editing = a.editing /\ b.before = a.before /\ b.funding = a.funding
  BY <1>2 DEF App
<1>5. [form EXCEPT ![a.editing] = a.before] = [a.form EXCEPT ![a.editing] = a.before]
  BY <1>0, <1>1, OneTextForm
<1>6. InForce(b) = InForce(a)
  BY <1>0, <1>4, <1>5 DEF InForce
<1>7. Touch(a, b)
  BY <1>3, <1>4, <1>6, FundingStays, OtherFields
<1>8. QED BY <1>7 DEF b

LEMMA TypeTouches == ASSUME NEW a \in App, a.editing \in TextFields PROVE Touch(a, Type(a))
<1>1. a.form[a.editing] \in 0 .. MaxText
  BY DEF App, Forms, TextFields
<1>2. Lower(a.form[a.editing] + 1, MaxText) \in 0 .. MaxText
  BY <1>1, TerminalUIAssumption DEF Lower, TerminalUIAssumption
<1>3. Type(a) = [a EXCEPT !.form[a.editing] = Lower(a.form[a.editing] + 1, MaxText)]
  BY DEF Type, App, Forms
<1>4. QED BY <1>2, <1>3, OneFieldTouches

LEMMA EraseTouches == ASSUME NEW a \in App, a.editing \in TextFields PROVE Touch(a, Erase(a))
<1>1. a.form[a.editing] \in 0 .. MaxText
  BY DEF App, Forms, TextFields
<1>2. Saturating(a.form[a.editing] - 1) \in 0 .. MaxText
  BY <1>1, TerminalUIAssumption DEF Saturating, TerminalUIAssumption
<1>3. Erase(a) = [a EXCEPT !.form[a.editing] = Saturating(a.form[a.editing] - 1)]
  BY DEF Erase, App, Forms
<1>4. QED BY <1>2, <1>3, OneFieldTouches

LEMMA CycleFieldTouches ==
  ASSUME NEW a \in App, a.funding = None PROVE Touch(a, CycleField(a))
<1> DEFINE product == CHOOSE p \in Products : p # a.form.product
           b == [a EXCEPT !.form = [a.form EXCEPT !.product = product]]
<1>1. product \in Products
  <2>1. \E p \in Products : p # a.form.product
    BY DEF Products
  <2>2. QED BY <2>1
<1>2. a.form \in Forms
  BY DEF App
<1>3. [a.form EXCEPT !.product = product] \in Forms
  <2> HIDE DEF product
  <2>1. QED BY <1>1, <1>2 DEF Forms
<1>4. CycleField(a) = SettingsChanged(b)
  BY <1>2 DEF CycleField, App, Forms
<1>5. /\ b \in App
      /\ b.pending = a.pending /\ b.revision = a.revision /\ b.picker = a.picker
      /\ b.funding = None
  <2> HIDE DEF product
  <2>1. QED BY <1>3 DEF App
<1> HIDE DEF b
<1>6. FundingFits(SettingsChanged(b))
  BY <1>5, SettingsChangedApp DEF SameForm, FundingFits
<1>7. QED BY <1>4, <1>5, <1>6, SettingsChangedApp, NewSettings

-----------------------------------------------------------------------------
(***************************************************************************)
(* The market picker.                                                      *)
(***************************************************************************)
LEMMA ListingTypes ==
  /\ \A p \in Products : Listing[p] \in Seq(Markets)
  /\ Listing["perp"][1] \in Markets
<1>1. \A p \in Products : Listing[p] \in Seq(Markets)
  BY TerminalUIAssumption DEF TerminalUIAssumption
<1>2. Listing["perp"] \in Seq(Markets) /\ Listing["perp"] # <<>>
  BY <1>1, TerminalUIAssumption DEF TerminalUIAssumption, Products
<1>3. QED BY <1>1, <1>2

LEMMA FilteredType == ASSUME NEW a \in App PROVE FilteredMarkets(a) \in Seq(Markets)
<1>1. a.markets \in {Listing[p] : p \in Products} \cup {<<>>}
  BY DEF App
<1>2. a.markets \in Seq(Markets)
  <2>1. CASE a.markets = <<>>
    BY <2>1
  <2>2. CASE a.markets \in {Listing[p] : p \in Products}
    BY <2>2, ListingTypes
  <2>3. QED BY <1>1, <2>1, <2>2
<1>3. QED BY <1>2 DEF FilteredMarkets

LEMMA SelectedType == ASSUME NEW a \in App PROVE SelectedMarket(a) \in Markets \cup {None}
<1>1. FilteredMarkets(a) \in Seq(Markets)
  BY FilteredType
<1>2. a.picker # None => a.picker.selected \in Nat
  BY DEF App, Picker
<1>3. QED BY <1>1, <1>2 DEF SelectedMarket

(* Another picker, or none. *)
LEMMA PickerChanges ==
  ASSUME NEW a \in App, NEW picker \in Picker \cup {None}
  PROVE  LET b == [a EXCEPT !.picker = picker]
         IN /\ b \in App /\ b.picker = picker
            /\ b.pending = a.pending /\ b.revision = a.revision /\ b.snapshot = a.snapshot
            /\ b.selected = a.selected /\ b.scroll = a.scroll /\ b.markets = a.markets
            /\ SameForm(a, b)
<1>1. [a EXCEPT !.picker = picker] \in App
  BY DEF App
<1>2. QED BY <1>1 DEF App, SameForm

LEMMA CloseTouches ==
  ASSUME NEW a \in App, a.picker # None PROVE Touch(a, CloseMarketPicker(a))
<1>1. None \in Picker \cup {None}
  OBVIOUS
<1> DEFINE b == CloseMarketPicker(a)
<1>2. /\ b \in App /\ b.picker = None
      /\ b.pending = a.pending /\ b.revision = a.revision /\ b.snapshot = a.snapshot
      /\ b.selected = a.selected /\ b.scroll = a.scroll /\ SameForm(a, b)
  BY <1>1, PickerChanges DEF CloseMarketPicker
<1> HIDE DEF b
<1>3. Touch(a, b)
  BY <1>2, OnlyPicker DEF LoadsMarkets, DetailFits
<1>4. QED BY <1>3 DEF b

LEMMA OpenTouches ==
  ASSUME NEW a \in App, a.funding = None PROVE Touch(a, OpenMarketPicker(a))
<1>1. NewPicker \in Picker /\ NewPicker.marketsPending = FALSE /\ NewPicker.detail = None
  BY DEF NewPicker, Picker
<1>2. PICK picker \in Picker : picker = NewPicker
  BY <1>1
<1>3. OpenMarketPicker(a) = [a EXCEPT !.picker = picker, !.refreshNow = TRUE]
  BY <1>2 DEF OpenMarketPicker
<1>4. OpenMarketPicker(a) \in App
  BY ZenonT(40), <1>3 DEF App
<1> DEFINE b == OpenMarketPicker(a)
<1>5. /\ b.picker = picker
      /\ b.pending = a.pending /\ b.revision = a.revision /\ b.snapshot = a.snapshot
      /\ b.selected = a.selected /\ b.scroll = a.scroll /\ SameForm(a, b)
  BY <1>3 DEF App, SameForm
<1> HIDE DEF b
<1>6. ~LoadsMarkets(b) /\ DetailFits(b)
  BY <1>1, <1>2, <1>5 DEF LoadsMarkets, DetailFits
<1>7. b \in App
  BY <1>4 DEF b
<1>8. Touch(a, b)
  BY <1>5, <1>6, <1>7, OnlyPicker
<1>9. QED BY <1>8 DEF b

LEMMA UseTouches ==
  ASSUME NEW a \in App, a.picker # None PROVE Touch(a, UseSelectedMarket(a))
<1>1. CASE SelectedMarket(a) = None
  BY <1>1, NoChange DEF UseSelectedMarket
<1>2. CASE SelectedMarket(a) # None
  <2>1. SelectedMarket(a) \in Markets
    BY <1>2, SelectedType
  <2>2. PICK market \in Markets : market = SelectedMarket(a)
    BY <2>1
  <2>3. a.form \in Forms
    BY DEF App
  <2>4. PICK form \in Forms : form = [a.form EXCEPT !.market = market]
    BY <2>3 DEF Forms
  <2> DEFINE b == [a EXCEPT !.form = form]
  <2>5. UseSelectedMarket(a) = CloseMarketPicker(SettingsChanged(b))
    BY <1>2, <2>2, <2>4 DEF UseSelectedMarket, App
  <2>6. b \in App
    BY DEF App
  <2>7. b.pending = a.pending /\ b.revision = a.revision /\ b.funding = a.funding
    BY DEF App
  <2> HIDE DEF b
  <2> DEFINE d == SettingsChanged(b)
             r == CloseMarketPicker(d)
  <2>8. /\ d \in App /\ d.pending = a.pending /\ d.revision = a.revision + 1 /\ d.snapshot = None
        /\ d.funding = a.funding
    BY <2>6, <2>7, SettingsChangedApp DEF SameForm
  <2> HIDE DEF d
  <2>9. /\ r \in App /\ r.picker = None
        /\ r.pending = a.pending /\ r.revision = a.revision + 1 /\ r.snapshot = None
        /\ r.funding = a.funding
    BY <2>8, PickerChanges DEF CloseMarketPicker, SameForm
  <2> HIDE DEF r
  <2>10. FundingFits(a) => FundingFits(r)
    BY <2>9 DEF FundingFits
  <2>11. Touch(a, r)
    BY <2>9, <2>10, NewSettings
  <2>12. QED BY <2>5, <2>11 DEF r, d
<1>3. QED BY <1>1, <1>2

LEMMA ReselectTouches ==
  ASSUME NEW a \in App, a.picker # None, NEW query \in {0, 1}, NEW selected \in Nat
  PROVE  Touch(a, Reselect(a, query, selected))
<1>1. a.picker \in Picker
  BY DEF App
<1>2. [a.picker EXCEPT !.query = query, !.selected = selected, !.detailFor = None, !.fresh = FALSE] \in Picker
  BY <1>1 DEF Picker
<1>3. PICK picker \in Picker :
        picker = [a.picker EXCEPT !.query = query, !.selected = selected, !.detailFor = None, !.fresh = FALSE]
  BY <1>2
<1>4. picker.marketsPending = a.picker.marketsPending /\ picker.detailFor = None
  BY <1>1, <1>3 DEF Picker
<1>5. Reselect(a, query, selected) = [a EXCEPT !.picker = picker]
  BY <1>1, <1>3 DEF Reselect, App, Picker
<1> DEFINE b == [a EXCEPT !.picker = picker]
<1>6. /\ b \in App /\ b.picker = picker
      /\ b.pending = a.pending /\ b.revision = a.revision /\ b.snapshot = a.snapshot
      /\ b.selected = a.selected /\ b.scroll = a.scroll /\ SameForm(a, b)
  BY PickerChanges
<1> HIDE DEF b
<1>7. (LoadsMarkets(b) => LoadsMarkets(a)) /\ DetailFits(b)
  BY <1>4, <1>6 DEF LoadsMarkets, DetailFits
<1>8. Touch(a, b)
  BY <1>6, <1>7, OnlyPicker
<1>9. QED BY <1>5, <1>8 DEF b

LEMMA RefreshDetailTouches ==
  ASSUME NEW a \in App, a.picker # None PROVE Touch(a, [a EXCEPT !.picker.fresh = FALSE])
<1>1. a.picker \in Picker
  BY DEF App
<1>2. [a.picker EXCEPT !.fresh = FALSE] \in Picker
  BY <1>1 DEF Picker
<1>3. PICK picker \in Picker : picker = [a.picker EXCEPT !.fresh = FALSE]
  BY <1>2
<1>4. /\ picker.marketsPending = a.picker.marketsPending /\ picker.detailFor = a.picker.detailFor
      /\ picker.detail = a.picker.detail
  BY <1>1, <1>3 DEF Picker
<1>5. [a EXCEPT !.picker.fresh = FALSE] = [a EXCEPT !.picker = picker]
  BY <1>1, <1>3 DEF App, Picker
<1> DEFINE b == [a EXCEPT !.picker = picker]
<1>6. /\ b \in App /\ b.picker = picker
      /\ b.pending = a.pending /\ b.revision = a.revision /\ b.snapshot = a.snapshot
      /\ b.selected = a.selected /\ b.scroll = a.scroll /\ SameForm(a, b)
  BY PickerChanges
<1> HIDE DEF b
<1>7. (LoadsMarkets(b) => LoadsMarkets(a)) /\ (DetailFits(a) => DetailFits(b))
  BY <1>4, <1>6 DEF LoadsMarkets, DetailFits
<1>8. Touch(a, b)
  BY <1>6, <1>7, OnlyPicker
<1>9. QED BY <1>5, <1>8 DEF b

LEMMA PickerKeyTouches ==
  ASSUME NEW a \in App, a.picker # None, NEW e PROVE Touch(a, PickerKey(a, e))
<1> DEFINE last == Saturating(Len(FilteredMarkets(a)) - 1)
<1>1. a.picker.query \in {0, 1} /\ a.picker.selected \in Nat
  BY DEF App, Picker
<1>2. last \in Nat
  BY FilteredType DEF Saturating
<1>3. /\ Saturating(a.picker.selected - 1) \in Nat /\ Lower(a.picker.selected + 1, last) \in Nat
      /\ Saturating(a.picker.query - 1) \in {0, 1} /\ Lower(a.picker.query + 1, 1) \in {0, 1}
  BY SMTT(20), <1>1, <1>2 DEF Saturating, Lower
<1> HIDE DEF last
<1>4. /\ Touch(a, Reselect(a, a.picker.query, Saturating(a.picker.selected - 1)))
      /\ Touch(a, Reselect(a, a.picker.query, Lower(a.picker.selected + 1, last)))
      /\ Touch(a, Reselect(a, Saturating(a.picker.query - 1), 0))
      /\ Touch(a, Reselect(a, Lower(a.picker.query + 1, 1), 0))
  BY <1>1, <1>3, ReselectTouches
<1>5. Touch(a, CloseMarketPicker(a)) /\ Touch(a, UseSelectedMarket(a))
      /\ Touch(a, [a EXCEPT !.picker.fresh = FALSE]) /\ Touch(a, a)
  BY CloseTouches, UseTouches, RefreshDetailTouches, NoChange
<1>6. QED BY <1>4, <1>5 DEF PickerKey, last

-----------------------------------------------------------------------------
(***************************************************************************)
(* The price board.                                                        *)
(***************************************************************************)
(* The division of the board into rows and pages. *)
LEMMA Geometry ==
  ASSUME NEW count \in Nat
  PROVE  /\ Columns(count) \in Nat /\ Columns(count) > 0
         /\ PageSize(count) \in Nat /\ PageSize(count) > 0
         /\ LastPage(count) \in Nat
         /\ count > 0 => LastPage(count) < count
<1>1. Columns(count) \in Nat /\ Columns(count) > 0
  BY TerminalUIAssumption DEF Columns, Lower, TerminalUIAssumption
<1> DEFINE c == Columns(count)
           x == Saturating(count - PageSize(count))
<1>2. Rows \in Nat /\ Rows > 0
  BY TerminalUIAssumption DEF TerminalUIAssumption
<1>3. PageSize(count) \in Nat /\ PageSize(count) > 0
  <2> HIDE DEF c
  <2>1. \A n, k \in Nat : n > 0 /\ k > 0 => n * k \in Nat /\ n * k > 0
    OBVIOUS
  <2>2. QED BY <1>1, <1>2, <2>1 DEF PageSize
<1>4. x \in Nat /\ (count > 0 => x < count)
  BY <1>3 DEF Saturating
<1>5. \A n, k \in Nat : k > 0 => (n \div k) * k \in Nat /\ (n \div k) * k <= n
  OBVIOUS
<1>6. LastPage(count) = (x \div c) * c
  BY DEF LastPage
<1> HIDE DEF c, x
<1>7. (x \div c) * c \in Nat /\ (x \div c) * c <= x
  BY <1>1, <1>4, <1>5 DEF c
<1> DEFINE y == (x \div c) * c
<1> HIDE DEF y
<1>8. LastPage(count) = y /\ y \in Nat /\ y <= x
  BY <1>6, <1>7 DEF y
<1>9. QED BY <1>1, <1>3, <1>4, <1>8

LEMMA CountType == ASSUME NEW a \in App PROVE Count(a) \in Nat
  BY TerminalUIAssumption DEF Count, App, TerminalUIAssumption

LEMMA FirstIndexBound ==
  ASSUME NEW a, a.scroll \in Nat, Count(a) \in Nat
  PROVE  FirstIndex(a) \in Nat /\ FirstIndex(a) <= a.scroll
<1> DEFINE c == Columns(Count(a))
<1>1. c \in Nat /\ c > 0
  BY Geometry
<1>2. \A n, k \in Nat : k > 0 => (n \div k) * k \in Nat /\ (n \div k) * k <= n
  OBVIOUS
<1> HIDE DEF c
<1>3. (a.scroll \div c) * c \in Nat /\ (a.scroll \div c) * c <= a.scroll
  BY <1>1, <1>2
<1>4. QED BY <1>3 DEF FirstIndex, c

(* With a grid on display the selection and the page end up inside it, and the selection
   never moves down the grid. *)
LEMMA KeepVisible ==
  ASSUME NEW a \in App
  PROVE  LET b == KeepSelectedPriceVisible(a)
         IN /\ b \in App /\ GridFits(b) /\ b.selected <= a.selected
            /\ b.pending = a.pending /\ b.revision = a.revision /\ b.snapshot = a.snapshot
            /\ b.picker = a.picker /\ SameForm(a, b)
<1> DEFINE b == KeepSelectedPriceVisible(a)
           count == Count(a)
           columns == Columns(count)
           selected == Lower(a.selected, count - 1)
           wanted == IF selected < FirstIndex(a) THEN (selected \div columns) * columns
                     ELSE IF selected >= FirstIndex(a) + PageSize(count)
                          THEN Saturating(selected \div columns + 1 - Rows) * columns
                          ELSE a.scroll
           scroll == Lower(wanted, LastPage(count))
<1>0. a.selected \in Nat /\ a.scroll \in Nat /\ count \in Nat
  BY CountType DEF App
<1>1. CASE a.snapshot = None
  BY <1>0, <1>1 DEF KeepSelectedPriceVisible, GridFits, Count, SameForm
<1>2. CASE a.snapshot # None /\ count = 0
  <2>1. b = [a EXCEPT !.selected = 0, !.scroll = 0]
    BY <1>2 DEF KeepSelectedPriceVisible
  <2> HIDE DEF b
  <2>2. /\ b \in App /\ b.selected = 0 /\ b.snapshot = a.snapshot
        /\ b.pending = a.pending /\ b.revision = a.revision /\ b.picker = a.picker
        /\ SameForm(a, b)
    BY <2>1 DEF App, SameForm
  <2>3. Count(b) = 0
    BY <1>2, <2>2 DEF Count
  <2>4. GridFits(b) /\ b.selected <= a.selected
    BY <1>0, <2>2, <2>3 DEF GridFits
  <2>5. QED BY <2>2, <2>4 DEF b
<1>3. CASE a.snapshot # None /\ count > 0
  <2>1. b = [a EXCEPT !.selected = selected, !.scroll = scroll]
    BY <1>0, <1>3 DEF KeepSelectedPriceVisible
  <2>2. columns \in Nat /\ columns > 0 /\ LastPage(count) \in Nat /\ LastPage(count) < count
        /\ PageSize(count) \in Nat
    BY <1>0, <1>3, Geometry
  <2>3. selected \in Nat /\ selected < count /\ selected <= a.selected
    BY <1>0, <1>3 DEF Lower
  <2>4. FirstIndex(a) \in Nat
    BY <1>0, FirstIndexBound
  <2>5. wanted \in Nat
    <3>1. \A n, k \in Nat : k > 0 => n \div k \in Nat
      OBVIOUS
    <3>2. \A n, k \in Nat : n * k \in Nat
      OBVIOUS
    <3> HIDE DEF columns, selected, count
    <3>3. selected \div columns \in Nat
      BY <2>2, <2>3, <3>1
    <3>4. (selected \div columns) * columns \in Nat
      BY <2>2, <3>2, <3>3
    <3>5. Saturating(selected \div columns + 1 - Rows) \in Nat
      BY <3>3, TerminalUIAssumption DEF Saturating, TerminalUIAssumption
    <3>6. Saturating(selected \div columns + 1 - Rows) * columns \in Nat
      BY <2>2, <3>2, <3>5
    <3>7. QED BY <1>0, <3>4, <3>6
  <2> HIDE DEF wanted, b, selected, columns
  <2>6. scroll \in Nat /\ scroll < count
    BY <1>0, <2>2, <2>5 DEF Lower
  <2> HIDE DEF scroll
  <2>7. /\ b \in App /\ b.selected = selected /\ b.scroll = scroll /\ b.snapshot = a.snapshot
        /\ b.pending = a.pending /\ b.revision = a.revision /\ b.picker = a.picker
        /\ SameForm(a, b)
    BY <2>1, <2>3, <2>6 DEF App, SameForm
  <2>8. Count(b) = count
    BY <2>7 DEF Count
  <2>9. GridFits(b)
    BY <2>3, <2>6, <2>7, <2>8 DEF GridFits
  <2>10. QED BY <2>3, <2>7, <2>9 DEF b
<1>4. QED BY <1>0, <1>1, <1>2, <1>3

(* Selecting a price and bringing it on the page. *)
LEMMA SelectTouches ==
  ASSUME NEW a \in App, NEW selected \in Nat
  PROVE  Touch(a, KeepSelectedPriceVisible([a EXCEPT !.selected = selected]))
<1> DEFINE d == [a EXCEPT !.selected = selected]
           b == KeepSelectedPriceVisible(d)
<1>1. d \in App
  BY DEF App
<1>2. /\ d.pending = a.pending /\ d.revision = a.revision /\ d.snapshot = a.snapshot
      /\ d.picker = a.picker /\ SameForm(a, d)
  BY DEF App, SameForm
<1> HIDE DEF d
<1>3. /\ b \in App /\ GridFits(b)
      /\ b.pending = a.pending /\ b.revision = a.revision /\ b.snapshot = a.snapshot
      /\ b.picker = a.picker /\ SameForm(a, b)
  BY <1>1, <1>2, KeepVisible DEF SameForm
<1> HIDE DEF b
<1>4. Touch(a, b)
  BY <1>3, OnlyGrid
<1>5. QED BY <1>4 DEF b, d

LEMMA BoardKeyTouches ==
  ASSUME NEW a \in App, NEW e, NEW b \in BoardKey(a, e) PROVE Touch(a, b)
<1> DEFINE page == IF a.snapshot = None THEN 1 ELSE PageSize(Count(a))
<1>1. a.selected \in Nat /\ Count(a) \in Nat
  BY CountType DEF App
<1>2. page \in Nat
  BY <1>1, Geometry
<1> HIDE DEF page
<1>3. /\ Saturating(a.selected - 1) \in Nat /\ a.selected + 1 \in Nat
      /\ Saturating(a.selected - Lower(page, Count(a))) \in Nat
      /\ Lower(a.selected + page, Saturating(Count(a) - 1)) \in Nat
  BY <1>1, <1>2 DEF Saturating, Lower
<1>4. /\ Touch(a, KeepSelectedPriceVisible([a EXCEPT !.selected = Saturating(a.selected - 1)]))
      /\ Touch(a, KeepSelectedPriceVisible([a EXCEPT !.selected = a.selected + 1]))
      /\ Touch(a, KeepSelectedPriceVisible(
                    [a EXCEPT !.selected = Saturating(a.selected - Lower(page, Count(a)))]))
      /\ Touch(a, KeepSelectedPriceVisible(
                    [a EXCEPT !.selected = Lower(a.selected + page, Saturating(Count(a) - 1))]))
      /\ Touch(a, a)
  BY <1>3, SelectTouches, NoChange
<1>5. QED BY <1>4 DEF BoardKey, page

LEMMA ScrolledTouches == ASSUME NEW a \in App, NEW e PROVE Touch(a, Scrolled(a, e))
<1>1. CASE a.tab = "config" \/ a.snapshot = None
  BY <1>1, NoChange DEF Scrolled
<1>2. CASE ~(a.tab = "config" \/ a.snapshot = None)
  <2> DEFINE c == Columns(Count(a))
             scroll == IF e = "ScrollUp" THEN Saturating(a.scroll - c)
                       ELSE Lower(a.scroll + c, LastPage(Count(a)))
             b == Scrolled(a, e)
  <2>1. a.scroll \in Nat /\ Count(a) \in Nat /\ a.selected \in Nat
    BY CountType DEF App
  <2>2. c \in Nat /\ LastPage(Count(a)) \in Nat /\ (Count(a) > 0 => LastPage(Count(a)) < Count(a))
    BY <2>1, Geometry
  <2> HIDE DEF c
  <2>3. scroll \in Nat /\ (scroll <= a.scroll \/ (Count(a) > 0 => scroll < Count(a)))
    BY <2>1, <2>2 DEF Saturating, Lower
  <2>4. b = [a EXCEPT !.scroll = scroll]
    BY <1>2 DEF Scrolled, c, App
  <2> HIDE DEF scroll, b
  <2>5. b \in App
    BY <2>3, <2>4 DEF App
  <2>6. /\ b.scroll = scroll /\ b.selected = a.selected
        /\ b.pending = a.pending /\ b.revision = a.revision /\ b.snapshot = a.snapshot
        /\ b.picker = a.picker /\ SameForm(a, b)
    BY <2>4 DEF App, SameForm
  <2>7. GridFits(a) => GridFits(b)
    BY <2>1, <2>3, <2>6 DEF GridFits, Count
  <2>8. Touch(a, b)
    BY <2>5, <2>6, <2>7, OnlyGrid
  <2>9. QED BY <2>8 DEF b
<1>3. QED BY <1>1, <1>2

-----------------------------------------------------------------------------
(***************************************************************************)
(* handle_event.                                                           *)
(***************************************************************************)
TabNames == {Tabs[i] : i \in 1 .. 3}

(* Fields that neither the picker nor the grid depends on. *)
LEMMA ModeTouches ==
  ASSUME NEW a \in App, NEW flag \in BOOLEAN, NEW password \in {"save", "load", None},
         NEW tab \in TabNames
  PROVE  /\ Touch(a, [a EXCEPT !.dialog = flag])
         /\ Touch(a, [a EXCEPT !.funding = None])
         /\ Touch(a, [a EXCEPT !.refreshNow = flag])
         /\ Touch(a, [a EXCEPT !.password = password])
         /\ Touch(a, [a EXCEPT !.tab = tab])
         /\ Touch(a, ShowTab(a, tab))
<1>1. /\ [a EXCEPT !.dialog = flag] \in App
      /\ [a EXCEPT !.funding = None] \in App
      /\ [a EXCEPT !.refreshNow = flag] \in App
  BY DEF App
<1>2. [a EXCEPT !.password = password] \in App
  BY DEF App
<1>3. [a EXCEPT !.tab = tab] \in App
  BY DEF App, TabNames
<1>4. ShowTab(a, tab) \in App
  BY DEF App, TabNames, ShowTab
<1>5. Touch(a, [a EXCEPT !.dialog = flag])
  BY <1>1, OtherModes DEF App, SameForm
<1>6. Touch(a, [a EXCEPT !.funding = None])
  <2> DEFINE b == [a EXCEPT !.funding = None]
  <2>1. /\ b.pending = a.pending /\ b.revision = a.revision /\ b.snapshot = a.snapshot
        /\ b.picker = a.picker /\ b.selected = a.selected /\ b.scroll = a.scroll
        /\ b.form = a.form /\ b.editing = a.editing /\ b.before = a.before /\ b.funding = None
    BY DEF App
  <2>2. b \in App
    BY <1>1
  <2> HIDE DEF b
  <2>3. InForce(b) = InForce(a) /\ FundingFits(b)
    BY <2>1 DEF InForce, FundingFits
  <2>4. QED BY <2>1, <2>2, <2>3, OtherFields DEF b
<1>7. Touch(a, [a EXCEPT !.refreshNow = flag])
  <2> DEFINE b == [a EXCEPT !.refreshNow = flag]
  <2>1. /\ b.pending = a.pending /\ b.revision = a.revision /\ b.snapshot = a.snapshot
        /\ b.picker = a.picker /\ b.selected = a.selected /\ b.scroll = a.scroll
        /\ SameForm(a, b)
    BY DEF App, SameForm
  <2>2. b \in App
    BY <1>1
  <2> HIDE DEF b
  <2>3. QED BY <2>1, <2>2, OtherModes DEF b
<1>8. Touch(a, [a EXCEPT !.password = password])
  BY <1>2, OtherModes DEF App, SameForm
<1>9. Touch(a, [a EXCEPT !.tab = tab])
  BY <1>3, OtherModes DEF App, SameForm
<1>10. Touch(a, ShowTab(a, tab))
  BY ZenonT(40), <1>4, OtherModes DEF App, ShowTab, SameForm
<1>11. QED BY <1>5, <1>6, <1>7, <1>8, <1>9, <1>10

LEMMA TabTypes ==
  /\ "config" \in TabNames /\ "preview" \in TabNames /\ "monitor" \in TabNames
  /\ \A tab \in TabNames : Neighbour(tab, 1) \in TabNames /\ Neighbour(tab, -1) \in TabNames
  /\ \A i \in 1 .. 3 : Tabs[i] \in TabNames
<1>1. "config" \in TabNames /\ "preview" \in TabNames /\ "monitor" \in TabNames
  BY DEF TabNames, Tabs
<1>2. ASSUME NEW tab \in TabNames, NEW step \in {1, -1} PROVE Neighbour(tab, step) \in TabNames
  <2> DEFINE at == CHOOSE i \in 1 .. 3 : Tabs[i] = tab
  <2>1. at \in 1 .. 3
    <3>1. \E i \in 1 .. 3 : Tabs[i] = tab
      BY DEF TabNames
    <3>2. QED BY <3>1
  <2> HIDE DEF at
  <2>2. ((at + step + 2) % 3) + 1 \in 1 .. 3
    BY <2>1
  <2>3. QED BY <2>2 DEF Neighbour, TabNames, at
<1>3. QED BY <1>1, <1>2 DEF TabNames

(* The instructions are of the settings that the snapshot is of, and of the subaccount in the form. *)
LEMMA InstructionsFit ==
  ASSUME NEW a \in App, SnapshotFits(a)
  PROVE  LET source == FundingInstructions(a)
         IN \/ source = None
            \/ source \in Sources /\ Agrees(source, a) /\ Edited(a) \subseteq source.halfTyped
<1> DEFINE halfTyped == a.snapshot.halfTyped \cup Edited(a)
           form == [a.snapshot.form EXCEPT !.subaccount = a.form.subaccount]
           source == [form |-> form, halfTyped |-> halfTyped]
<1> SUFFICES ASSUME FundingInstructions(a) # None
             PROVE  /\ FundingInstructions(a) \in Sources /\ Agrees(FundingInstructions(a), a)
                    /\ Edited(a) \subseteq FundingInstructions(a).halfTyped
  OBVIOUS
<1>0. a.snapshot # None /\ FundingInstructions(a) = source
  BY DEF FundingInstructions
<1>1. a.snapshot.form \in Forms /\ a.form \in Forms /\ a.snapshot.halfTyped \subseteq Fields
  BY <1>0 DEF App
<1>2. /\ form \in Forms /\ form.subaccount = a.form.subaccount
      /\ \A f \in Fields : f # "subaccount" => form[f] = a.snapshot.form[f]
  BY <1>1 DEF Forms, Fields, TextFields
<1>3. Edited(a) \subseteq Fields
  BY DEF Edited
<1> HIDE DEF form
<1>4. ASSUME NEW f \in Fields \ halfTyped PROVE form[f] = InForce(a)[f]
  <2>1. a.snapshot.form[f] = InForce(a)[f]
    BY <1>0, <1>4 DEF SnapshotFits, Agrees
  <2>2. a.editing # f
    BY <1>4 DEF Edited
  <2>3. InForce(a)[f] = a.form[f]
    BY <1>4, <2>2, InForceFields
  <2>4. CASE f = "subaccount"
    BY <1>2, <2>3, <2>4
  <2>5. CASE f # "subaccount"
    BY <1>2, <1>4, <2>1, <2>5
  <2>6. QED BY <2>4, <2>5
<1>5. source \in Sources
  BY <1>1, <1>2, <1>3 DEF Sources
<1>6. QED BY <1>0, <1>4, <1>5 DEF Agrees

LEMMA FundingTouches ==
  ASSUME NEW a \in App, a.picker = None, a.funding = None PROVE Touch(a, OpenFunding(a))
<1>1. CASE a.form.product # "spot"
  BY <1>1, NoChange DEF OpenFunding
<1>2. CASE a.form.product = "spot"
  <2>1. FundingInstructions(a) \in Sources \cup {None}
    BY DEF App, Forms, FundingInstructions, Sources, Edited
  <2>2. PICK source \in Sources \cup {None} : source = FundingInstructions(a)
    BY <2>1
  <2> DEFINE b == OpenFunding(a)
  <2>3. b = [a EXCEPT !.funding = source]
    BY <1>2, <2>2 DEF OpenFunding
  <2> HIDE DEF b
  <2>4. b \in App
    BY <2>3 DEF App
  <2>5. /\ b.pending = a.pending /\ b.revision = a.revision /\ b.snapshot = a.snapshot
        /\ b.picker = a.picker /\ b.selected = a.selected /\ b.scroll = a.scroll
        /\ b.form = a.form /\ b.editing = a.editing /\ b.before = a.before /\ b.funding = source
    BY <2>3 DEF App
  <2>6. InForce(b) = InForce(a)
    BY <2>5 DEF InForce
  <2>7. ASSUME SnapshotFits(a), source # None PROVE FundingFits(b)
    <3>1. Agrees(source, a) /\ Edited(a) \subseteq source.halfTyped
      BY <2>2, <2>7, InstructionsFit
    <3>2. Agrees(source, b)
      BY <2>6, <3>1, SameInForce
    <3>3. a.editing = None \/ a.editing \in source.halfTyped
      BY <3>1 DEF Edited, App, Fields
    <3>4. QED BY <2>5, <3>2, <3>3 DEF FundingFits
  <2>8. SnapshotFits(a) => FundingFits(b)
    BY <2>5, <2>7 DEF FundingFits
  <2>9. Touch(a, b)
    BY <2>4, <2>5, <2>6, <2>8, OtherFields
  <2>10. QED BY <2>9 DEF b
<1>3. QED BY <1>1, <1>2

LEMMA EnterTouches ==
  ASSUME NEW a \in App, NEW field \in Fields, a.editing = None, a.funding = None
  PROVE  Touch(a, EnterField(a, field))
  BY OpenTouches, CycleFieldTouches, StartEditTouches DEF EnterField, Fields

LEMMA PlainKeyTouches ==
  ASSUME NEW a \in App, session.fields \subseteq Fields, NEW e, NEW b \in PlainKey(a, e),
         a.picker = None, a.editing = None, a.funding = None
  PROVE  Touch(a, b)
<1>1. a.tab \in TabNames /\ None \in {"save", "load", None} /\ "save" \in {"save", "load", None}
  BY DEF App, TabNames
<1>2. /\ Touch(a, [a EXCEPT !.password = "save"])
      /\ Touch(a, [a EXCEPT !.dialog = TRUE])
      /\ Touch(a, [a EXCEPT !.refreshNow = TRUE])
  BY <1>1, ModeTouches
<1>3. /\ Touch(a, [a EXCEPT !.tab = "config"])
      /\ Touch(a, ShowTab(a, "preview")) /\ Touch(a, ShowTab(a, "monitor"))
  BY <1>1, ModeTouches, TabTypes
<1>4. Touch(a, ShowTab(a, Neighbour(a.tab, 1))) /\ Touch(a, ShowTab(a, Neighbour(a.tab, -1)))
  BY <1>1, ModeTouches, TabTypes
<1>5. Touch(a, OpenMarketPicker(a)) /\ Touch(a, OpenFunding(a)) /\ Touch(a, a)
  BY OpenTouches, FundingTouches, NoChange
<1>6. \A d \in FormKey(a, e) : Touch(a, d)
  <2>1. \A f \in session.fields : Touch(a, EnterField(a, f))
    BY EnterTouches
  <2>2. Touch(a, CycleField(a))
    BY CycleFieldTouches
  <2>3. QED BY <1>5, <2>1, <2>2 DEF FormKey
<1>7. \A d \in BoardKey(a, e) : Touch(a, d)
  BY BoardKeyTouches
<1>8. QED BY <1>2, <1>3, <1>4, <1>5, <1>6, <1>7 DEF PlainKey

LEMMA PressedTouches ==
  ASSUME NEW a \in App, session.fields \subseteq Fields, NEW e, NEW b \in Pressed(a, e)
  PROVE  Touch(a, b)
<1>0. Touch(a, a)
  BY NoChange
<1>1. CASE a.dialog
  <2>1. Touch(a, [a EXCEPT !.dialog = FALSE])
    BY ModeTouches, TabTypes
  <2>2. QED BY <1>0, <1>1, <2>1 DEF Pressed, DialogKey
<1>2. CASE ~a.dialog /\ a.picker # None
  BY <1>2, PickerKeyTouches DEF Pressed
<1>3. CASE ~a.dialog /\ a.picker = None /\ a.editing # None
  <2>1. a.editing \in TextFields
    BY <1>3 DEF App
  <2>2. Touch(a, FinishEdit(a, TRUE)) /\ Touch(a, FinishEdit(a, FALSE))
    BY <2>1, FinishEditTouches
  <2>3. Touch(a, Type(a)) /\ Touch(a, Erase(a))
    BY <2>1, TypeTouches, EraseTouches
  <2>4. Touch(a, EditKey(a, e))
    BY <1>0, <2>2, <2>3 DEF EditKey
  <2>5. QED BY <1>3, <2>4 DEF Pressed
<1>4. CASE ~a.dialog /\ a.picker = None /\ a.editing = None /\ a.funding # None
  <2>1. Touch(a, [a EXCEPT !.funding = None])
    BY ModeTouches, TabTypes
  <2>2. QED BY <1>0, <1>4, <2>1 DEF Pressed, FundingKey
<1>5. CASE ~a.dialog /\ a.picker = None /\ a.editing = None /\ a.funding = None /\ a.password # None
  <2>1. Touch(a, [a EXCEPT !.password = None])
    BY ModeTouches, TabTypes
  <2>2. QED BY <1>0, <1>5, <2>1 DEF Pressed, PasswordKey
<1>6. CASE ~a.dialog /\ a.picker = None /\ a.editing = None /\ a.funding = None /\ a.password = None
  BY <1>6, PlainKeyTouches DEF Pressed
<1>7. QED BY <1>1, <1>2, <1>3, <1>4, <1>5, <1>6

LEMMA ClickedTouches == ASSUME NEW a \in App, NEW e, NEW b \in Clicked(a, e) PROVE Touch(a, b)
<1>0. Touch(a, a)
  BY NoChange
<1>1. CASE a.picker # None
  <2>1. a.picker.query \in {0, 1}
    BY <1>1 DEF App, Picker
  <2>2. \A i \in DOMAIN FilteredMarkets(a) : i - 1 \in Nat
    BY FilteredType
  <2>3. \A i \in DOMAIN FilteredMarkets(a) : Touch(a, Reselect(a, a.picker.query, i - 1))
    BY <1>1, <2>1, <2>2, ReselectTouches
  <2>4. QED BY <1>0, <1>1, <2>3 DEF Clicked
<1>2. CASE a.picker = None
  <2>1. \A i \in 1 .. 3 : Touch(a, ShowTab(a, Tabs[i]))
    BY ModeTouches, TabTypes
  <2>2. ASSUME NEW i \in FirstIndex(a) .. Count(a) - 1 PROVE Touch(a, [a EXCEPT !.selected = i])
    <3>1. FirstIndex(a) \in Nat /\ Count(a) \in Nat /\ FirstIndex(a) <= a.scroll /\ a.scroll \in Nat
      BY CountType, FirstIndexBound DEF App
    <3>2. i \in Nat /\ i < Count(a)
      BY <3>1
    <3> DEFINE d == [a EXCEPT !.selected = i]
    <3>3. d \in App
      BY <3>2 DEF App
    <3>4. /\ d.selected = i /\ d.scroll = a.scroll /\ d.snapshot = a.snapshot
          /\ d.pending = a.pending /\ d.revision = a.revision /\ d.picker = a.picker
          /\ SameForm(a, d)
      BY DEF App, SameForm
    <3> HIDE DEF d
    <3>5. GridFits(a) => GridFits(d)
      BY <3>2, <3>4 DEF GridFits, Count
    <3>6. Touch(a, d)
      BY <3>3, <3>4, <3>5, OnlyGrid
    <3>7. QED BY <3>6 DEF d
  <2>3. a.funding = None => Touch(a, OpenFunding(a))
    BY <1>2, FundingTouches
  <2>4. QED BY <1>0, <1>2, <2>1, <2>2, <2>3 DEF Clicked
<1>3. QED BY <1>1, <1>2

(* What any event does to App. *)
LEMMA HandledTouches ==
  ASSUME NEW a \in App, session.fields \subseteq Fields, NEW e, NEW b \in Handled(a, e)
  PROVE  Touch(a, b)
  BY PressedTouches, ClickedTouches, ScrolledTouches DEF Handled

-----------------------------------------------------------------------------
(***************************************************************************)
(* The answers of background tasks.                                        *)
(***************************************************************************)
LEMMA MarketsAnsweredTouches ==
  ASSUME NEW a \in App, NEW product \in Products, NEW b \in MarketsAnswered(a, product)
  PROVE  /\ Touch(a, b) /\ b.revision = a.revision /\ b.snapshot = a.snapshot
         /\ b.selected = a.selected /\ ~LoadsMarkets(b)
<1>1. CASE a.picker = None
  <2>1. b = a
    BY <1>1 DEF MarketsAnswered
  <2>2. QED BY <1>1, <2>1, NoChange DEF LoadsMarkets
<1>2. CASE a.picker # None
  <2>0. a.picker \in Picker /\ a.form.product \in Products
    BY <1>2 DEF App, Forms
  <2>1. CASE b = PickerMarkets(a, Listing[product])
    <3> DEFINE selected == Lower(a.picker.selected, Saturating(Len(Listing[product]) - 1))
    <3>1. selected \in Nat
      BY <2>0, ListingTypes DEF Lower, Saturating, Picker
    <3> HIDE DEF selected
    <3>2. [a.picker EXCEPT !.marketsPending = FALSE, !.selected = selected,
                           !.detailFor = None, !.fresh = FALSE] \in Picker
      BY <2>0, <3>1 DEF Picker
    <3>3. PICK picker \in Picker :
            picker = [a.picker EXCEPT !.marketsPending = FALSE, !.selected = selected,
                                      !.detailFor = None, !.fresh = FALSE]
      BY <3>2
    <3>4. picker.marketsPending = FALSE /\ picker.detailFor = None
      BY <2>0, <3>3 DEF Picker
    <3>5. b = [a EXCEPT !.markets = Listing[product], !.loadedFor = a.form.product, !.picker = picker]
      BY <2>0, <2>1, <3>3 DEF PickerMarkets, App, Picker, selected
    <3>6. b \in App
      BY <2>0, <3>5 DEF App
    <3>7. /\ b.picker = picker /\ b.selected = a.selected /\ b.scroll = a.scroll
          /\ b.pending = a.pending /\ b.revision = a.revision /\ b.snapshot = a.snapshot
          /\ SameForm(a, b)
      BY <3>5 DEF App, SameForm
    <3>8. ~LoadsMarkets(b) /\ DetailFits(b)
      BY <3>4, <3>7 DEF LoadsMarkets, DetailFits
    <3>9. Touch(a, b)
      BY <1>2, <3>6, <3>7, <3>8, OnlyPicker
    <3>10. QED BY <3>7, <3>8, <3>9
  <2>2. CASE b = SetError([a EXCEPT !.markets = <<>>, !.picker.marketsPending = FALSE])
    <3>1. [a.picker EXCEPT !.marketsPending = FALSE] \in Picker
      BY <2>0 DEF Picker
    <3>2. PICK picker \in Picker : picker = [a.picker EXCEPT !.marketsPending = FALSE]
      BY <3>1
    <3>3. /\ picker.marketsPending = FALSE
          /\ picker.detailFor = a.picker.detailFor /\ picker.detail = a.picker.detail
      BY <2>0, <3>2 DEF Picker
    <3> DEFINE d == [a EXCEPT !.markets = <<>>, !.picker = picker]
    <3>4. b = SetError(d)
      BY <2>0, <2>2, <3>2 DEF App, Picker
    <3>5. d \in App
      BY DEF App
    <3>6. /\ d.picker = picker /\ d.selected = a.selected /\ d.scroll = a.scroll
          /\ d.pending = a.pending /\ d.revision = a.revision /\ d.snapshot = a.snapshot
          /\ SameForm(a, d)
      BY DEF App, SameForm
    <3> HIDE DEF d
    <3>7. b \in App
      BY <3>4, <3>5, SetErrorTouches DEF Touch
    <3>8. /\ b.picker = picker /\ b.selected = a.selected /\ b.scroll = a.scroll
          /\ b.pending = a.pending /\ b.revision = a.revision /\ b.snapshot = a.snapshot
          /\ SameForm(a, b)
      BY <3>4, <3>5, <3>6 DEF SetError, App, SameForm
    <3>9. ~LoadsMarkets(b) /\ (DetailFits(a) => DetailFits(b))
      BY <1>2, <3>3, <3>8 DEF LoadsMarkets, DetailFits
    <3>10. Touch(a, b)
      BY <1>2, <3>7, <3>8, <3>9, OnlyPicker
    <3>11. QED BY <3>8, <3>9, <3>10
  <2>3. QED BY <1>2, <2>1, <2>2 DEF MarketsAnswered
<1>3. QED BY <1>1, <1>2

LEMMA DetailAnsweredTouches ==
  ASSUME NEW a \in App, NEW market \in Markets, NEW b \in DetailAnswered(a, market)
  PROVE  /\ Touch(a, b) /\ b.revision = a.revision /\ b.snapshot = a.snapshot
         /\ b.selected = a.selected
<1>1. CASE a.picker = None \/ a.picker.detailFor # market
  <2>1. b = a
    BY <1>1 DEF DetailAnswered
  <2>2. QED BY <2>1, NoChange
<1>2. CASE a.picker # None /\ a.picker.detailFor = market
  <2>0. a.picker \in Picker
    BY <1>2 DEF App
  <2>1. b \in {[a EXCEPT !.picker.detailPending = FALSE, !.picker.detail = market],
               [a EXCEPT !.picker.detailPending = FALSE]}
    BY <1>2 DEF DetailAnswered
  <2>2. PICK detail \in {market, a.picker.detail} :
          b = [a EXCEPT !.picker = [a.picker EXCEPT !.detailPending = FALSE, !.detail = detail]]
    BY <2>0, <2>1 DEF App, Picker
  <2>3. detail \in Markets \cup {None}
    BY <2>0, <2>2 DEF Picker
  <2>4. [a.picker EXCEPT !.detailPending = FALSE, !.detail = detail] \in Picker
    BY <2>0, <2>3 DEF Picker
  <2>5. PICK picker \in Picker : picker = [a.picker EXCEPT !.detailPending = FALSE, !.detail = detail]
    BY <2>4
  <2>6. /\ picker.marketsPending = a.picker.marketsPending
        /\ picker.detailFor = market /\ picker.detail = detail
    BY <1>2, <2>0, <2>5 DEF Picker
  <2>7. b = [a EXCEPT !.picker = picker]
    BY <2>2, <2>5
  <2>8. b \in App
    BY <2>7 DEF App
  <2>9. /\ b.picker = picker /\ b.selected = a.selected /\ b.scroll = a.scroll
        /\ b.pending = a.pending /\ b.revision = a.revision /\ b.snapshot = a.snapshot
        /\ SameForm(a, b)
    BY <2>7 DEF App, SameForm
  <2>10. (LoadsMarkets(b) => LoadsMarkets(a)) /\ (DetailFits(a) => DetailFits(b))
    BY <1>2, <2>2, <2>6, <2>9 DEF LoadsMarkets, DetailFits
  <2>11. Touch(a, b)
    BY <1>2, <2>8, <2>9, <2>10, OnlyPicker
  <2>12. QED BY <2>9, <2>11
<1>3. QED BY <1>1, <1>2

(* The snapshot of the settings in force is shown or reported as an error. *)
LEMMA SnapshotAnsweredEffect ==
  ASSUME NEW a \in App, NEW source \in Sources, NEW b \in SnapshotAnswered(a, a.revision, source)
  PROVE  /\ b \in App /\ b.revision = a.revision /\ b.pending = FALSE
         /\ b.picker = a.picker /\ SameForm(a, b) /\ b.selected <= a.selected
         /\ GridFits(a) => GridFits(b)
         /\ \/ b.snapshot = a.snapshot
            \/ b.snapshot.form = source.form /\ b.snapshot.halfTyped = source.halfTyped
<1> DEFINE d == [a EXCEPT !.pending = FALSE]
<1>1. d \in App
  BY DEF App
<1>2. /\ d.pending = FALSE /\ d.revision = a.revision /\ d.snapshot = a.snapshot
      /\ d.picker = a.picker /\ d.selected = a.selected /\ d.scroll = a.scroll
      /\ SameForm(a, d)
  BY DEF App, SameForm
<1>3. b \in {ShowSnapshot(d, source, count) : count \in Counts} \cup {SetError(d)}
  BY DEF SnapshotAnswered
<1> HIDE DEF d
<1>4. a.selected \in Nat
  BY DEF App
<1>5. CASE b = SetError(d)
  <2>1. b \in App
    BY <1>1, <1>5, SetErrorTouches DEF Touch
  <2>2. /\ b.pending = FALSE /\ b.revision = a.revision /\ b.snapshot = a.snapshot
        /\ b.picker = a.picker /\ b.selected = a.selected /\ b.scroll = a.scroll
        /\ SameForm(a, b)
    BY <1>1, <1>2, <1>5 DEF SetError, App, SameForm
  <2>3. GridFits(a) => GridFits(b)
    BY <2>2 DEF GridFits, Count
  <2>4. QED BY <1>4, <2>1, <2>2, <2>3
<1>6. ASSUME NEW count \in Counts, b = ShowSnapshot(d, source, count)
      PROVE  /\ b \in App /\ b.revision = a.revision /\ b.pending = FALSE
             /\ b.picker = a.picker /\ SameForm(a, b) /\ b.selected <= a.selected
             /\ GridFits(b)
             /\ b.snapshot.form = source.form /\ b.snapshot.halfTyped = source.halfTyped
  <2> DEFINE selected == IF count > 0 THEN Lower(d.selected, count - 1) ELSE d.selected
             made == [form |-> source.form, halfTyped |-> source.halfTyped, count |-> count]
  <2>0. count \in Nat
    BY TerminalUIAssumption DEF TerminalUIAssumption
  <2>1. selected \in Nat /\ selected <= a.selected
    BY <1>2, <1>4, <2>0 DEF Lower
  <2>2. made \in [form : Forms, halfTyped : SUBSET Fields, count : Counts]
    BY DEF Sources
  <2>3. PICK snapshot \in [form : Forms, halfTyped : SUBSET Fields, count : Counts] : snapshot = made
    BY <2>2
  <2> DEFINE s == [d EXCEPT !.snapshot = snapshot, !.selected = selected]
  <2>4. b = KeepSelectedPriceVisible(s)
    BY <1>1, <1>6, <2>3 DEF ShowSnapshot, App
  <2> HIDE DEF selected
  <2>5. s \in App
    BY ZenonT(40), <1>1, <2>1 DEF App
  <2>6. /\ s.pending = FALSE /\ s.revision = a.revision /\ s.snapshot = snapshot
        /\ s.picker = a.picker /\ s.selected = selected /\ SameForm(a, s)
    BY <1>1, <1>2 DEF App, SameForm
  <2> HIDE DEF s
  <2> DEFINE k == KeepSelectedPriceVisible(s)
  <2>7. /\ k \in App /\ GridFits(k) /\ k.selected <= s.selected
        /\ k.pending = s.pending /\ k.revision = s.revision /\ k.snapshot = s.snapshot
        /\ k.picker = s.picker /\ SameForm(s, k)
    BY <2>5, KeepVisible
  <2> HIDE DEF k
  <2>8. k.selected \in Nat
    BY <2>7 DEF App
  <2>9. k.selected <= a.selected
    BY <1>4, <2>1, <2>6, <2>7, <2>8
  <2>10. k.snapshot.form = source.form /\ k.snapshot.halfTyped = source.halfTyped
    BY <2>3, <2>6, <2>7
  <2>11. b = k /\ SameForm(a, k)
    BY <2>4, <2>6, <2>7 DEF k, SameForm
  <2>12. QED BY <2>6, <2>7, <2>9, <2>10, <2>11
<1>7. QED BY <1>3, <1>5, <1>6

-----------------------------------------------------------------------------
(***************************************************************************)
(* The inductive invariant: what is on display fits the settings in force, *)
(* and so do the client, the grid and the snapshot task that it will come  *)
(* from next.  The tasks under way are those that App knows of, and no     *)
(* snapshot is under way for settings that are still to come.              *)
(***************************************************************************)
SnapshotTask(r) == [kind |-> "snapshot", revision |-> r]

AppInv ==
  /\ app \in App
  /\ app.revision <= MaxRevision /\ app.selected <= MaxSelected
  /\ configured \in Sources \cup {None} /\ given \in [0 .. MaxRevision -> Sources \cup {None}]
  /\ stored \in Forms \cup {None} /\ session \in Sessions
  /\ uiPc \in {"loop", "input", "gone"}

ShownInv == SnapshotFits(app) /\ FundingFits(app) /\ GridFits(app) /\ DetailFits(app)

BuiltInv ==
  /\ configured # None => Agrees(configured, app)
  /\ app.pending => given[app.revision] \in Sources /\ Agrees(given[app.revision], app)

TasksInv ==
  /\ flight \in [Tasks -> Nat]
  /\ OneSnapshotInFlight
  /\ \A r \in Nat : app.revision < r /\ r <= MaxRevision => flight[SnapshotTask(r)] = 0
  /\ MarketLoadNotLost

TuiInv == AppInv /\ ShownInv /\ BuiltInv /\ TasksInv

(* ShownInv and BuiltInv of the next state, from the two states. *)
LEMMA ShownNext ==
  ASSUME SnapshotFits(app'), FundingFits(app'), GridFits(app'), DetailFits(app') PROVE ShownInv'
  BY DEF ShownInv, SnapshotFits, FundingFits, GridFits, DetailFits, Agrees, InForce, Count

LEMMA BuiltNext ==
  ASSUME configured' # None => Agrees(configured', app'),
         app'.pending => given'[app'.revision] \in Sources /\ Agrees(given'[app'.revision], app')
  PROVE  BuiltInv'
  BY DEF BuiltInv, Agrees, InForce

LEMMA TaskTypes ==
  /\ \A r \in Nat : r <= MaxRevision => SnapshotTask(r) \in Tasks
  /\ \A p \in Products : [kind |-> "markets", product |-> p] \in Tasks
  /\ \A m \in Markets : [kind |-> "detail", market |-> m] \in Tasks
  /\ \A r \in Nat, p \in Products : SnapshotTask(r) # [kind |-> "markets", product |-> p]
  /\ \A r \in Nat, m \in Markets : SnapshotTask(r) # [kind |-> "detail", market |-> m]
  /\ \A m \in Markets, p \in Products :
       [kind |-> "markets", product |-> p] # [kind |-> "detail", market |-> m]
<1>1. \A r \in Nat : r <= MaxRevision => SnapshotTask(r) \in Tasks
  BY TerminalUIAssumption DEF Tasks, SnapshotTask, TerminalUIAssumption
<1>2. \A p \in Products : [kind |-> "markets", product |-> p] \in Tasks
  BY DEF Tasks
<1>3. \A m \in Markets : [kind |-> "detail", market |-> m] \in Tasks
  BY DEF Tasks
<1>4. \A r \in Nat : SnapshotTask(r).kind = "snapshot"
  BY DEF SnapshotTask
<1>5. \A p \in Products : [kind |-> "markets", product |-> p].kind = "markets"
  OBVIOUS
<1>6. \A m \in Markets : [kind |-> "detail", market |-> m].kind = "detail"
  OBVIOUS
<1>7. \A r \in Nat, p \in Products : SnapshotTask(r) # [kind |-> "markets", product |-> p]
  BY <1>4, <1>5
<1>8. \A r \in Nat, m \in Markets : SnapshotTask(r) # [kind |-> "detail", market |-> m]
  BY <1>4, <1>6
<1>9. \A m \in Markets, p \in Products :
        [kind |-> "markets", product |-> p] # [kind |-> "detail", market |-> m]
  BY <1>5, <1>6
<1>10. QED BY <1>1, <1>2, <1>3, <1>7, <1>8, <1>9

LEMMA SnapshotTasksDiffer == \A r, s \in Nat : SnapshotTask(r) = SnapshotTask(s) => r = s
<1>1. \A r \in Nat : SnapshotTask(r).revision = r
  BY DEF SnapshotTask
<1>2. QED BY <1>1

LEMMA TuiInvInit == TuiInit => TuiInv
<1> SUFFICES ASSUME TuiInit PROVE TuiInv
  OBVIOUS
<1>1. PICK line \in CommandLines : \E tab \in {"config", "monitor"}, profile \in Profiles :
    LET form == [Defaults EXCEPT !.key = line.key, !.subaccount = line.subaccount]
        asks == profile # None /\ profile.key > 0 /\ line.key = 0
        fresh == [tab |-> IF asks THEN "config" ELSE tab,
                  dialog |-> FALSE, report |-> FALSE, editing |-> None, before |-> 0,
                  funding |-> None, password |-> IF asks THEN "load" ELSE None,
                  form |-> form, revision |-> 0, refreshNow |-> TRUE, pending |-> FALSE,
                  snapshot |-> None, markets |-> <<>>, loadedFor |-> None, picker |-> None,
                  selected |-> 0, scroll |-> 0]
    IN /\ stored = profile
       /\ app = IF profile = None THEN fresh
                ELSE [fresh EXCEPT !.form = ApplyProfile(form, profile)]
  BY DEF TuiInit, TuiLoopStarts
<1>2. PICK tab \in {"config", "monitor"}, profile \in Profiles :
    LET form == [Defaults EXCEPT !.key = line.key, !.subaccount = line.subaccount]
        asks == profile # None /\ profile.key > 0 /\ line.key = 0
        fresh == [tab |-> IF asks THEN "config" ELSE tab,
                  dialog |-> FALSE, report |-> FALSE, editing |-> None, before |-> 0,
                  funding |-> None, password |-> IF asks THEN "load" ELSE None,
                  form |-> form, revision |-> 0, refreshNow |-> TRUE, pending |-> FALSE,
                  snapshot |-> None, markets |-> <<>>, loadedFor |-> None, picker |-> None,
                  selected |-> 0, scroll |-> 0]
    IN /\ stored = profile
       /\ app = IF profile = None THEN fresh
                ELSE [fresh EXCEPT !.form = ApplyProfile(form, profile)]
  BY <1>1
<1> DEFINE form == [Defaults EXCEPT !.key = line.key, !.subaccount = line.subaccount]
           asks == profile # None /\ profile.key > 0 /\ line.key = 0
           shown == IF profile = None THEN form ELSE ApplyProfile(form, profile)
<1>3. /\ 0 \in 0 .. MaxText /\ 1 \in 0 .. MaxText
      /\ line.key \in 0 .. MaxText /\ line.subaccount \in 0 .. MaxText
  <2>1. line \in [key : {0, 1}, subaccount : {0, 1}] /\ MaxText \in Nat \ {0}
    BY TerminalUIAssumption DEF TerminalUIAssumption
  <2>2. line.key \in {0, 1} /\ line.subaccount \in {0, 1}
    BY <2>1
  <2>3. QED BY <2>1, <2>2
<1>4. Defaults \in Forms
  BY <1>3, ListingTypes DEF Defaults, Forms, Products
<1>5. form \in Forms
  BY <1>3, <1>4 DEF Forms
<1>6. profile \in Forms \cup {None}
  BY TerminalUIAssumption DEF TerminalUIAssumption
<1>7. shown \in Forms
  <2> HIDE DEF form
  <2>1. ASSUME profile \in Forms PROVE ApplyProfile(form, profile) \in Forms
    BY <1>5, <2>1 DEF ApplyProfile, Forms
  <2>2. QED BY <1>5, <1>6, <2>1
<1>8. stored = profile
  BY <1>2
<1>9. app = [tab |-> IF asks THEN "config" ELSE tab,
             dialog |-> FALSE, report |-> FALSE, editing |-> None, before |-> 0,
             funding |-> None, password |-> IF asks THEN "load" ELSE None,
             form |-> shown, revision |-> 0, refreshNow |-> TRUE, pending |-> FALSE,
             snapshot |-> None, markets |-> <<>>, loadedFor |-> None, picker |-> None,
             selected |-> 0, scroll |-> 0]
  <2> HIDE DEF form
  <2>1. CASE profile = None
    BY <1>2, <2>1 DEF form
  <2>2. CASE profile # None
    BY <1>2, <2>2 DEF form
  <2>3. QED BY <2>1, <2>2
<1> HIDE DEF shown, asks
<1>10. (IF asks THEN "config" ELSE tab) \in TabNames
       /\ (IF asks THEN "load" ELSE None) \in {"save", "load", None}
  BY TabTypes
<1>11. app \in App
  BY <1>3, <1>7, <1>9, <1>10 DEF App, TabNames
<1>12. /\ app.revision = 0 /\ app.selected = 0 /\ app.snapshot = None /\ app.picker = None
       /\ app.pending = FALSE /\ app.funding = None
  BY <1>9
<1>13. AppInv
  <2>1. app.revision <= MaxRevision /\ app.selected <= MaxSelected
    BY <1>12, TerminalUIAssumption DEF TerminalUIAssumption
  <2>2. configured = None /\ given \in [0 .. MaxRevision -> Sources \cup {None}] /\ session \in Sessions /\ uiPc = "loop"
    BY DEF TuiInit
  <2>3. stored \in Forms \cup {None}
    BY <1>6, <1>8
  <2>4. QED BY <1>11, <2>1, <2>2, <2>3 DEF AppInv
<1>14. ShownInv
  BY <1>12 DEF ShownInv, SnapshotFits, FundingFits, GridFits, DetailFits, Count
<1>15. TasksInv
  <2>1. \A task \in Tasks : flight[task] = 0
    BY DEF TuiInit
  <2>2. flight \in [Tasks -> Nat]
    BY DEF TuiInit
  <2>3. \A r \in Nat : r <= MaxRevision => flight[SnapshotTask(r)] = 0
    BY <2>1, TaskTypes
  <2>4. flight[SnapshotTask(0)] = 0
    BY <2>3, TerminalUIAssumption DEF TerminalUIAssumption
  <2>5. OneSnapshotInFlight
    BY <1>12, <2>4 DEF OneSnapshotInFlight, SnapshotTask
  <2>6. MarketLoadNotLost
    BY <1>12 DEF MarketLoadNotLost
  <2>7. QED BY <2>2, <2>3, <2>5, <2>6 DEF TasksInv
<1>16. BuiltInv
  BY <1>12 DEF BuiltInv, TuiInit
<1>17. QED BY <1>13, <1>14, <1>15, <1>16 DEF TuiInv

(* The end of an iteration, after anything that handling an event may do. *)
LEMMA IterationKeeps ==
  ASSUME TuiInv, NEW a, Touch(app, a), NextIteration(a), UNCHANGED <<flight, given, session>>,
         stored' \in Forms \cup {None}
  PROVE  TuiInv'
<1>0. AppInv /\ ShownInv /\ BuiltInv /\ TasksInv /\ app \in App /\ a \in App
  BY DEF TuiInv, AppInv, Touch
<1>1. app.revision \in Nat /\ a.revision \in Nat /\ a.selected \in Nat
  BY <1>0 DEF App
<1>2. a.revision <= MaxRevision /\ a.selected <= MaxSelected /\ app' = AfterRevisionCheck(a)
      /\ uiPc' = "loop"
  BY DEF NextIteration
<1>3. configured' = IF a.revision = app.revision THEN configured ELSE None
  BY DEF NextIteration
<1>4. configured' \in Sources \cup {None}
  BY <1>0, <1>3 DEF AppInv
<1>5. CASE a.revision = app.revision
  <2>1. app' = a
    BY <1>2, <1>5 DEF AfterRevisionCheck
  <2>2. a.snapshot = app.snapshot /\ a.pending = app.pending /\ InForce(a) = InForce(app)
    BY <1>1, <1>5 DEF Touch
  <2>3. AppInv'
    BY <1>0, <1>2, <1>4, <2>1 DEF AppInv
  <2>4. SnapshotFits(a) /\ FundingFits(a) /\ GridFits(a) /\ DetailFits(a)
    BY <1>0, <2>2, SameInForce DEF ShownInv, Touch, SnapshotFits
  <2>5. ShownInv'
    BY <2>1, <2>4, ShownNext
  <2>6. BuiltInv'
    <3>1. configured' # None => Agrees(configured', app')
      BY <1>0, <1>3, <1>5, <2>1, <2>2, SameInForce DEF BuiltInv
    <3>2. app'.pending => given'[app'.revision] \in Sources /\ Agrees(given'[app'.revision], app')
      BY <1>0, <1>5, <2>1, <2>2, SameInForce DEF BuiltInv
    <3>3. QED BY <3>1, <3>2, BuiltNext
  <2>7. OneSnapshotInFlight'
    BY <1>0, <1>5, <2>1, <2>2 DEF TasksInv, OneSnapshotInFlight
  <2>8. LoadsMarkets(a) => LoadsMarkets(app)
    BY DEF Touch
  <2>9. MarketLoadNotLost'
    BY <1>0, <2>1, <2>8 DEF TasksInv, MarketLoadNotLost, LoadsMarkets
  <2>10. TasksInv'
    BY <1>0, <1>5, <2>1, <2>7, <2>9 DEF TasksInv
  <2>11. QED BY <2>3, <2>5, <2>6, <2>10 DEF TuiInv
<1>6. CASE a.revision = app.revision + 1
  <2>1. app' = [a EXCEPT !.snapshot = None, !.pending = FALSE, !.refreshNow = TRUE]
    BY <1>1, <1>2, <1>6 DEF AfterRevisionCheck
  <2>2. app' \in App
    BY ZenonT(40), <1>0, <2>1 DEF App
  <2>3. /\ app'.snapshot = None /\ app'.pending = FALSE /\ app'.revision = app.revision + 1
        /\ app'.selected = a.selected /\ app'.picker = a.picker
        /\ SameForm(a, app')
    BY <1>0, <1>6, <2>1 DEF App, SameForm
  <2>4. AppInv'
    BY <1>0, <1>2, <1>4, <1>6, <2>2, <2>3 DEF AppInv
  <2>5. DetailFits(a) /\ (LoadsMarkets(a) => LoadsMarkets(app))
    BY <1>0 DEF ShownInv, Touch
  <2>6. ShownInv'
    <3>1. FundingFits(a)
      BY <1>0 DEF ShownInv, Touch
    <3>2. FundingFits(app')
      BY <2>3, <3>1, SameInForce, FundingStays DEF SameForm
    <3>3. SnapshotFits(app') /\ GridFits(app') /\ DetailFits(app')
      BY <2>3, <2>5 DEF SnapshotFits, GridFits, DetailFits, Count
    <3>4. QED BY <3>2, <3>3, ShownNext
  <2>7. flight[SnapshotTask(app.revision + 1)] = 0
    <3>1. app.revision < app.revision + 1 /\ app.revision + 1 <= MaxRevision /\ app.revision + 1 \in Nat
      BY <1>1, <1>2, <1>6
    <3>2. QED BY <1>0, <3>1 DEF TasksInv
  <2>8. OneSnapshotInFlight'
    BY <2>3, <2>7 DEF OneSnapshotInFlight, SnapshotTask
  <2>9. MarketLoadNotLost'
    BY <1>0, <2>3, <2>5 DEF TasksInv, MarketLoadNotLost, LoadsMarkets
  <2>10. \A r \in Nat : app'.revision < r /\ r <= MaxRevision => flight[SnapshotTask(r)] = 0
    <3>1. ASSUME NEW r \in Nat, app.revision + 1 < r, r <= MaxRevision
          PROVE  flight[SnapshotTask(r)] = 0
      <4>1. app.revision < r
        BY <1>1, <3>1
      <4>2. QED BY <1>0, <3>1, <4>1 DEF TasksInv
    <3>2. QED BY <2>3, <3>1
  <2>11. TasksInv'
    BY <1>0, <2>8, <2>9, <2>10 DEF TasksInv
  <2>12. BuiltInv'
    <3>1. configured' = None
      BY <1>1, <1>3, <1>6
    <3>2. QED BY <2>3, <3>1, BuiltNext
  <2>13. QED BY <2>4, <2>6, <2>11, <2>12 DEF TuiInv
<1>7. QED BY <1>5, <1>6 DEF Touch

(* A task answers: its answer is dropped, or changes what it is about. *)
LEMMA ReceiveKeeps == ASSUME TuiInv, NEW task \in Tasks, Receive(task) PROVE TuiInv'
<1>0. AppInv /\ ShownInv /\ BuiltInv /\ TasksInv /\ app \in App /\ flight \in [Tasks -> Nat]
  BY DEF TuiInv, AppInv, TasksInv
<1>1. app.revision \in Nat /\ app.revision <= MaxRevision /\ app.selected \in Nat
      /\ app.selected <= MaxSelected /\ MaxSelected \in Nat
  BY <1>0, TerminalUIAssumption DEF App, AppInv, TerminalUIAssumption
<1>2. flight[task] > 0 /\ flight' = [flight EXCEPT ![task] = @ - 1]
      /\ app' \in Answered(app, task) /\ UNCHANGED <<configured, stored, session, uiPc>>
  BY DEF Receive, InFlight
<1>3. /\ flight' \in [Tasks -> Nat]
      /\ flight'[task] = flight[task] - 1
      /\ \A other \in Tasks : other # task => flight'[other] = flight[other]
  BY <1>0, <1>2
<1>4. \A p \in Products : task # [kind |-> "markets", product |-> p]
        => flight'[[kind |-> "markets", product |-> p]] = flight[[kind |-> "markets", product |-> p]]
  BY <1>3, TaskTypes
<1>5. \A r \in Nat : r <= MaxRevision /\ task # SnapshotTask(r)
        => flight'[SnapshotTask(r)] = flight[SnapshotTask(r)]
  BY <1>3, TaskTypes
<1>6. \A r \in Nat : app.revision < r /\ r <= MaxRevision => flight'[SnapshotTask(r)] = 0
  <2> SUFFICES ASSUME NEW r \in Nat, app.revision < r, r <= MaxRevision
               PROVE  flight'[SnapshotTask(r)] = 0
    OBVIOUS
  <2>1. flight[SnapshotTask(r)] = 0
    BY <1>0 DEF TasksInv
  <2>2. task # SnapshotTask(r)
    BY <1>2, <2>1
  <2>3. QED BY <1>5, <2>1, <2>2
\* What is enough to keep the invariant.
<1>7. ASSUME app' \in App, app'.revision = app.revision, app'.selected <= app.selected,
             InForce(app') = InForce(app), SnapshotFits(app'), FundingFits(app'),
             GridFits(app'), DetailFits(app'),
             app'.pending => app.pending /\ given'[app.revision] = given[app.revision],
             flight'[SnapshotTask(app.revision)] = (IF app'.pending THEN 1 ELSE 0),
             LoadsMarkets(app') => \E p \in Products : flight'[[kind |-> "markets", product |-> p]] > 0
      PROVE  TuiInv'
  <2>0. given' \in [0 .. MaxRevision -> Sources \cup {None}]
    BY <1>0 DEF Receive, AppInv
  <2>1. app'.selected \in Nat
    BY <1>7 DEF App
  <2>2. app'.selected <= MaxSelected
    BY <1>1, <1>7, <2>1
  <2>3. AppInv'
    BY <1>0, <1>2, <1>7, <2>0, <2>2 DEF AppInv
  <2>4. BuiltInv'
    <3>1. configured' # None => Agrees(configured', app')
      BY <1>0, <1>2, <1>7, SameInForce DEF BuiltInv
    <3>2. app'.pending => given'[app'.revision] \in Sources /\ Agrees(given'[app'.revision], app')
      BY <1>0, <1>7, SameInForce DEF BuiltInv
    <3>3. QED BY <3>1, <3>2, BuiltNext
  <2>5. ShownInv'
    BY <1>7, ShownNext
  <2>6. OneSnapshotInFlight'
    BY <1>7 DEF OneSnapshotInFlight, SnapshotTask
  <2>7. MarketLoadNotLost'
    BY <1>7 DEF MarketLoadNotLost, LoadsMarkets
  <2>8. TasksInv'
    BY <1>3, <1>6, <1>7, <2>6, <2>7 DEF TasksInv
  <2>9. QED BY <2>3, <2>4, <2>5, <2>8 DEF TuiInv
<1>8. flight[SnapshotTask(app.revision)] = (IF app.pending THEN 1 ELSE 0)
  BY <1>0 DEF TasksInv, OneSnapshotInFlight, SnapshotTask
<1>9. LoadsMarkets(app) => \E p \in Products : flight[[kind |-> "markets", product |-> p]] > 0
  BY <1>0 DEF TasksInv, MarketLoadNotLost, LoadsMarkets
<1>10. SnapshotFits(app) /\ FundingFits(app) /\ GridFits(app) /\ DetailFits(app)
  BY <1>0 DEF ShownInv
<1>11. ASSUME NEW product \in Products, task = [kind |-> "markets", product |-> product]
       PROVE  TuiInv'
  <2>1. app' \in MarketsAnswered(app, product)
    BY <1>2, <1>11 DEF Answered
  <2>2. /\ Touch(app, app') /\ app'.revision = app.revision /\ app'.snapshot = app.snapshot
        /\ app'.selected = app.selected /\ ~LoadsMarkets(app')
    BY <1>0, <2>1, MarketsAnsweredTouches
  <2>3. /\ app' \in App /\ GridFits(app') /\ DetailFits(app') /\ FundingFits(app')
        /\ app'.pending = app.pending /\ InForce(app') = InForce(app)
    BY <1>1, <1>10, <2>2 DEF Touch
  <2>4. SnapshotFits(app')
    BY <1>10, <2>2, <2>3, SameInForce DEF SnapshotFits
  <2>5. UNCHANGED given
    BY <1>11 DEF Receive
  <2>6. flight'[SnapshotTask(app.revision)] = flight[SnapshotTask(app.revision)]
    BY <1>1, <1>5, <1>11, TaskTypes
  <2>7. app'.selected <= app.selected /\ flight'[SnapshotTask(app.revision)] = (IF app'.pending THEN 1 ELSE 0)
    BY <1>1, <1>8, <2>2, <2>3, <2>6
  <2>8. QED BY <1>7, <2>2, <2>3, <2>4, <2>5, <2>7
<1>12. ASSUME NEW market \in Markets, task = [kind |-> "detail", market |-> market]
       PROVE  TuiInv'
  <2>1. app' \in DetailAnswered(app, market)
    BY <1>2, <1>12 DEF Answered
  <2>2. /\ Touch(app, app') /\ app'.revision = app.revision /\ app'.snapshot = app.snapshot
        /\ app'.selected = app.selected
    BY <1>0, <2>1, DetailAnsweredTouches
  <2>3. /\ app' \in App /\ GridFits(app') /\ DetailFits(app') /\ FundingFits(app')
        /\ app'.pending = app.pending /\ InForce(app') = InForce(app)
        /\ LoadsMarkets(app') => LoadsMarkets(app)
    BY <1>1, <1>10, <2>2 DEF Touch
  <2>4. SnapshotFits(app')
    BY <1>10, <2>2, <2>3, SameInForce DEF SnapshotFits
  <2>5. UNCHANGED given
    BY <1>12 DEF Receive
  <2>6. flight'[SnapshotTask(app.revision)] = flight[SnapshotTask(app.revision)]
    BY <1>1, <1>5, <1>12, TaskTypes
  <2>7. \A p \in Products :
          flight'[[kind |-> "markets", product |-> p]] = flight[[kind |-> "markets", product |-> p]]
    BY <1>4, <1>12, TaskTypes
  <2>8. LoadsMarkets(app') => \E p \in Products : flight'[[kind |-> "markets", product |-> p]] > 0
    BY <1>9, <2>3, <2>7
  <2>9. app'.selected <= app.selected /\ flight'[SnapshotTask(app.revision)] = (IF app'.pending THEN 1 ELSE 0)
    BY <1>1, <1>8, <2>2, <2>3, <2>6
  <2>10. QED BY <1>7, <2>2, <2>3, <2>8, <2>4, <2>5, <2>9
<1>13. ASSUME NEW r \in 0 .. MaxRevision, task = SnapshotTask(r) PROVE TuiInv'
  <2>0. r \in Nat /\ r <= MaxRevision
    BY TerminalUIAssumption DEF TerminalUIAssumption
  <2>1. app' \in SnapshotAnswered(app, r, given[r]) /\ given' = [given EXCEPT ![r] = None]
    BY <1>2, <1>13 DEF Answered, Receive, SnapshotTask
  <2>2. \A p \in Products :
          flight'[[kind |-> "markets", product |-> p]] = flight[[kind |-> "markets", product |-> p]]
    BY <1>4, <1>13, <2>0, TaskTypes
  <2>3. CASE r # app.revision
    <3>1. app' = app
      BY <2>1, <2>3 DEF SnapshotAnswered
    <3>2. flight'[SnapshotTask(app.revision)] = flight[SnapshotTask(app.revision)]
      BY <1>1, <1>5, <1>13, <2>0, <2>3, SnapshotTasksDiffer
    <3>3. given'[app.revision] = given[app.revision]
      BY <1>0, <1>1, <2>0, <2>1, <2>3 DEF AppInv
    <3>4. QED BY <1>0, <1>1, <1>7, <1>8, <1>9, <1>10, <2>2, <3>1, <3>2, <3>3
  <2>4. CASE r = app.revision
    <3>1. app.pending
      BY <1>2, <1>8, <1>13, <2>4
    <3>2. given[r] \in Sources /\ Agrees(given[r], app)
      BY <1>0, <2>4, <3>1 DEF BuiltInv
    <3>3. /\ app' \in App /\ app'.revision = app.revision /\ app'.pending = FALSE
          /\ app'.picker = app.picker /\ SameForm(app, app') /\ app'.selected <= app.selected
          /\ GridFits(app) => GridFits(app')
          /\ \/ app'.snapshot = app.snapshot
             \/ app'.snapshot.form = given[r].form /\ app'.snapshot.halfTyped = given[r].halfTyped
      BY <1>0, <2>1, <2>4, <3>2, SnapshotAnsweredEffect
    <3>4. InForce(app') = InForce(app) /\ FundingFits(app')
      BY <1>10, <3>3, SameInForce, FundingStays DEF SameForm
    <3>5. SnapshotFits(app')
      <4>1. CASE app'.snapshot = app.snapshot
        BY <1>10, <3>4, <4>1, SameInForce DEF SnapshotFits
      <4>2. CASE app'.snapshot.form = given[r].form /\ app'.snapshot.halfTyped = given[r].halfTyped
        BY <3>2, <3>4, <4>2 DEF SnapshotFits, Agrees
      <4>3. QED BY <3>3, <4>1, <4>2
    <3>6. flight'[SnapshotTask(app.revision)] = 0
      <4>1. flight[SnapshotTask(app.revision)] > 0
        BY <1>2, <1>13, <2>4
      <4>2. flight[SnapshotTask(app.revision)] = 1
        BY <1>8, <4>1
      <4>3. QED BY <1>3, <1>13, <2>4, <4>2
    <3>7. DetailFits(app') /\ (LoadsMarkets(app') => LoadsMarkets(app))
      BY <1>10, <3>3 DEF DetailFits, LoadsMarkets
    <3>8. LoadsMarkets(app') => \E p \in Products : flight'[[kind |-> "markets", product |-> p]] > 0
      BY <1>9, <2>2, <3>7
    <3>9. QED BY <1>7, <1>10, <3>6, <3>7, <3>8, <3>3, <3>4, <3>5
  <2>5. QED BY <2>3, <2>4
<1>14. \/ \E p \in Products : task = [kind |-> "markets", product |-> p]
       \/ \E m \in Markets : task = [kind |-> "detail", market |-> m]
       \/ \E r \in 0 .. MaxRevision : task = SnapshotTask(r)
  BY DEF Tasks, SnapshotTask
<1>15. QED BY <1>11, <1>12, <1>13, <1>14

-----------------------------------------------------------------------------
(***************************************************************************)
(* The steps that start tasks.                                             *)
(***************************************************************************)
LEMMA StartedType ==
  ASSUME NEW fl \in [Tasks -> Nat], NEW task \in Tasks
  PROVE  /\ Started(fl, task) \in [Tasks -> Nat]
         /\ Started(fl, task)[task] = fl[task] + 1
         /\ \A other \in Tasks : other # task => Started(fl, task)[other] = fl[other]
         /\ \A other \in Tasks : Started(fl, task)[other] >= fl[other]
<1>1. fl[task] \in Nat
  OBVIOUS
<1>2. Started(fl, task) = [fl EXCEPT ![task] = fl[task] + 1]
  BY DEF Started
<1>3. QED BY <1>1, <1>2

LEMMA AskMarketsEffect ==
  ASSUME NEW a \in App, a.picker # None
  PROVE  LET b == AskMarkets(a)
         IN /\ b \in App
            /\ b.pending = a.pending /\ b.revision = a.revision /\ b.snapshot = a.snapshot
            /\ b.selected = a.selected /\ b.scroll = a.scroll /\ SameForm(a, b)
            /\ DetailFits(a) => DetailFits(b)
            /\ LoadsMarkets(b) => LoadsMarkets(a) \/ (NeedsMarkets(a) /\ a.form.key > 0)
<1>1. a.picker \in Picker /\ a.form \in Forms /\ a.form.key \in Nat
  BY TerminalUIAssumption DEF App, Forms, TerminalUIAssumption
<1>2. CASE ~NeedsMarkets(a)
  BY <1>2 DEF AskMarkets, SameForm
<1>3. CASE NeedsMarkets(a) /\ a.form.key = 0
  <2>1. SetError(a) \in App
    BY SetErrorTouches DEF Touch
  <2>2. AskMarkets(a) = SetError(a)
    BY <1>3 DEF AskMarkets
  <2>3. /\ SetError(a).picker = a.picker /\ SetError(a).pending = a.pending
        /\ SetError(a).revision = a.revision /\ SetError(a).snapshot = a.snapshot
        /\ SetError(a).selected = a.selected /\ SetError(a).scroll = a.scroll
        /\ SameForm(a, SetError(a))
    BY DEF SetError, App, SameForm
  <2>4. QED BY <2>1, <2>2, <2>3 DEF DetailFits, LoadsMarkets
<1>4. CASE NeedsMarkets(a) /\ a.form.key # 0
  <2>1. [a.picker EXCEPT !.marketsPending = TRUE] \in Picker
    BY <1>1 DEF Picker
  <2>2. PICK picker \in Picker : picker = [a.picker EXCEPT !.marketsPending = TRUE]
    BY <2>1
  <2>3. picker.detailFor = a.picker.detailFor /\ picker.detail = a.picker.detail
    BY <1>1, <2>2 DEF Picker
  <2>4. [a EXCEPT !.picker.marketsPending = TRUE] = [a EXCEPT !.picker = picker]
    BY <1>1, <2>2 DEF App, Picker
  <2>5. AskMarkets(a) = [a EXCEPT !.picker = picker]
    BY <1>4, <2>4 DEF AskMarkets
  <2> DEFINE b == [a EXCEPT !.picker = picker]
  <2>7. /\ b \in App /\ b.picker = picker
        /\ b.pending = a.pending /\ b.revision = a.revision /\ b.snapshot = a.snapshot
        /\ b.selected = a.selected /\ b.scroll = a.scroll /\ SameForm(a, b)
    BY PickerChanges
  <2> HIDE DEF b
  <2>8. DetailFits(a) => DetailFits(b)
    BY <2>3, <2>7 DEF DetailFits
  <2>9. NeedsMarkets(a) /\ a.form.key > 0
    BY <1>1, <1>4
  <2>10. QED BY <2>5, <2>7, <2>8, <2>9 DEF b
<1>5. QED BY <1>2, <1>3, <1>4

LEMMA AskDetailEffect ==
  ASSUME NEW a \in App, a.picker # None
  PROVE  LET b == AskDetail(a)
         IN /\ b \in App
            /\ b.pending = a.pending /\ b.revision = a.revision /\ b.snapshot = a.snapshot
            /\ b.selected = a.selected /\ b.scroll = a.scroll /\ SameForm(a, b)
            /\ DetailFits(a) => DetailFits(b)
            /\ LoadsMarkets(b) => LoadsMarkets(a)
<1>1. a.picker \in Picker
  BY DEF App
<1>2. SelectedMarket(a) \in Markets \cup {None}
  BY SelectedType
<1>3. ASSUME NEW picker \in Picker, AskDetail(a) = [a EXCEPT !.picker = picker],
             picker.marketsPending = a.picker.marketsPending,
             picker.detail = None
               \/ (picker.detail = a.picker.detail /\ picker.detailFor = a.picker.detailFor)
      PROVE  LET b == AskDetail(a)
             IN /\ b \in App
                /\ b.pending = a.pending /\ b.revision = a.revision /\ b.snapshot = a.snapshot
                /\ b.selected = a.selected /\ b.scroll = a.scroll /\ SameForm(a, b)
                /\ DetailFits(a) => DetailFits(b)
                /\ LoadsMarkets(b) => LoadsMarkets(a)
  <2> DEFINE b == [a EXCEPT !.picker = picker]
  <2>1. /\ b \in App /\ b.picker = picker
        /\ b.pending = a.pending /\ b.revision = a.revision /\ b.snapshot = a.snapshot
        /\ b.selected = a.selected /\ b.scroll = a.scroll /\ SameForm(a, b)
    BY PickerChanges
  <2> HIDE DEF b
  <2>2. (LoadsMarkets(b) => LoadsMarkets(a)) /\ (DetailFits(a) => DetailFits(b))
    BY <1>3, <2>1 DEF LoadsMarkets, DetailFits
  <2>3. AskDetail(a) = b
    BY <1>3 DEF b
  <2>4. QED BY <2>1, <2>2, <2>3
<1>4. CASE a.form.key = 0
  <2>1. [a.picker EXCEPT !.detailPending = FALSE] \in Picker
    BY <1>1 DEF Picker
  <2>2. PICK picker \in Picker : picker = [a.picker EXCEPT !.detailPending = FALSE]
    BY <2>1
  <2>3. /\ picker.detailFor = a.picker.detailFor /\ picker.detail = a.picker.detail
        /\ picker.marketsPending = a.picker.marketsPending
    BY <1>1, <2>2 DEF Picker
  <2>4. [a EXCEPT !.picker.detailPending = FALSE] = [a EXCEPT !.picker = picker]
    BY <1>1, <2>2 DEF App, Picker
  <2>5. AskDetail(a) = [a EXCEPT !.picker = picker]
    BY <1>4, <2>4 DEF AskDetail
  <2>6. QED BY <1>3, <2>3, <2>5
<1>5. CASE a.form.key # 0
  <2> DEFINE wanted == [a.picker EXCEPT !.detailFor = SelectedMarket(a), !.fresh = TRUE,
                                        !.detailPending = TRUE, !.detail = None]
  <2>0. PICK market \in Markets \cup {None} : market = SelectedMarket(a)
    BY <1>2
  <2>1. wanted \in Picker
    BY <1>1, <2>0 DEF Picker
  <2>2. PICK picker \in Picker : picker = wanted
    BY <2>1
  <2>3. picker.detail = None /\ picker.marketsPending = a.picker.marketsPending
    BY <1>1, <2>2 DEF Picker
  <2>4. [a EXCEPT !.picker.detailFor = SelectedMarket(a), !.picker.fresh = TRUE,
                  !.picker.detailPending = TRUE, !.picker.detail = None] = [a EXCEPT !.picker = picker]
    BY <1>1, <2>0, <2>2 DEF App, Picker
  <2>5. AskDetail(a) = [a EXCEPT !.picker = picker]
    BY <1>5, <2>4 DEF AskDetail
  <2>6. QED BY <1>3, <2>3, <2>5
<1>6. QED BY <1>4, <1>5

(* A step that leaves the form and the grid alone and starts no snapshot task. *)
LEMMA LaunchKeeps ==
  ASSUME TuiInv, app' \in App, app'.pending = app.pending, app'.revision = app.revision,
         app'.snapshot = app.snapshot, app'.selected = app.selected, app'.scroll = app.scroll,
         SameForm(app, app'), app'.picker = app.picker \/ app.picker # None,
         DetailFits(app'), flight' \in [Tasks -> Nat],
         \A r \in Nat : r <= MaxRevision => flight'[SnapshotTask(r)] = flight[SnapshotTask(r)],
         LoadsMarkets(app') => \E p \in Products : flight'[[kind |-> "markets", product |-> p]] > 0,
         configured' \in Sources \cup {None},
         configured' = configured \/ Agrees(configured', app),
         UNCHANGED <<given, stored, session>>, uiPc' \in {"loop", "input", "gone"}
  PROVE  TuiInv'
<1>0. AppInv /\ ShownInv /\ BuiltInv /\ TasksInv
  BY DEF TuiInv
<1>1. app.revision \in Nat /\ app.revision <= MaxRevision
  BY <1>0 DEF AppInv, App
<1>2. AppInv'
  BY <1>0 DEF AppInv
<1>3. ShownInv'
  <2>1. SnapshotFits(app')
    BY <1>0, SameInForce DEF ShownInv, SnapshotFits
  <2>2. FundingFits(app')
    BY <1>0, SameInForce, FundingStays DEF ShownInv, SameForm
  <2>3. GridFits(app')
    BY <1>0 DEF ShownInv, GridFits, Count
  <2>4. QED BY <2>1, <2>2, <2>3, ShownNext
<1>4. OneSnapshotInFlight'
  <2>1. flight'[SnapshotTask(app.revision)] = flight[SnapshotTask(app.revision)]
    BY <1>1
  <2>2. QED BY <1>0, <2>1 DEF TasksInv, OneSnapshotInFlight, SnapshotTask
<1>5. MarketLoadNotLost'
  BY DEF MarketLoadNotLost, LoadsMarkets
<1>6. \A r \in Nat : app'.revision < r /\ r <= MaxRevision => flight'[SnapshotTask(r)] = 0
  BY <1>0 DEF TasksInv
<1>7. TasksInv'
  BY <1>4, <1>5, <1>6 DEF TasksInv
<1>8. BuiltInv'
  BY <1>0, SameInForce, BuiltNext DEF BuiltInv
<1>9. QED BY <1>2, <1>3, <1>7, <1>8 DEF TuiInv

LEMMA LaunchPickerKeeps == ASSUME TuiInv, LaunchPicker PROVE TuiInv'
<1>0. AppInv /\ ShownInv /\ TasksInv /\ app \in App /\ flight \in [Tasks -> Nat]
      /\ DetailFits(app) /\ configured \in Sources \cup {None}
  BY DEF TuiInv, AppInv, ShownInv, TasksInv
<1> DEFINE a == AskMarkets(app)
           markets == [kind |-> "markets", product |-> app.form.product]
           wanted == [kind |-> "detail", market |-> SelectedMarket(a)]
           asked == IF NeedsMarkets(app) /\ app.form.key > 0 THEN Started(flight, markets) ELSE flight
           loading(b, fl) ==
             LoadsMarkets(b) => \E p \in Products : fl[[kind |-> "markets", product |-> p]] > 0
           snapshots(fl) == \A r \in Nat : r <= MaxRevision => fl[SnapshotTask(r)] = flight[SnapshotTask(r)]
<1>1. app.picker # None /\ uiPc' = "input" /\ UNCHANGED <<configured, given, stored, session>>
  BY DEF LaunchPicker
<1>2. PICK due \in BOOLEAN :
        /\ app' = IF NeedsDetail(a, due) THEN AskDetail(a) ELSE a
        /\ flight' = IF NeedsDetail(a, due) /\ a.form.key > 0 THEN Started(asked, wanted) ELSE asked
  BY DEF LaunchPicker
<1>3. /\ a \in App
      /\ a.pending = app.pending /\ a.revision = app.revision /\ a.snapshot = app.snapshot
      /\ a.selected = app.selected /\ a.scroll = app.scroll /\ DetailFits(a) /\ SameForm(app, a)
      /\ LoadsMarkets(a) => LoadsMarkets(app) \/ (NeedsMarkets(app) /\ app.form.key > 0)
  BY <1>0, <1>1, AskMarketsEffect
<1>4. markets \in Tasks /\ app.form.product \in Products
  <2>1. app.form.product \in Products
    BY <1>0 DEF App, Forms
  <2>2. QED BY <2>1, TaskTypes
<1> HIDE DEF a
<1>5. asked \in [Tasks -> Nat] /\ snapshots(asked) /\ loading(a, asked)
  <2>1. CASE NeedsMarkets(app) /\ app.form.key > 0
    <3>1. asked = Started(flight, markets)
      BY <2>1
    <3>2. asked \in [Tasks -> Nat] /\ asked[markets] = flight[markets] + 1 /\ flight[markets] \in Nat
          /\ \A other \in Tasks : other # markets => asked[other] = flight[other]
      BY <1>0, <1>4, <3>1, StartedType
    <3>3. \A r \in Nat : SnapshotTask(r) # markets
      BY <1>4, TaskTypes
    <3>4. snapshots(asked)
      BY <3>2, <3>3, TaskTypes
    <3>5. asked[markets] > 0
      BY <3>2
    <3>6. \E p \in Products : asked[[kind |-> "markets", product |-> p]] > 0
      BY <1>4, <3>5
    <3> HIDE DEF asked
    <3>7. QED BY <3>2, <3>4, <3>6
  <2>2. CASE ~(NeedsMarkets(app) /\ app.form.key > 0)
    <3>1. asked = flight
      BY <2>2
    <3>2. LoadsMarkets(a) => LoadsMarkets(app)
      BY <1>3, <2>2
    <3>3. loading(app, flight)
      BY <1>0 DEF TasksInv, MarketLoadNotLost, LoadsMarkets
    <3>4. QED BY <1>0, <3>1, <3>2, <3>3
  <2>3. QED BY <2>1, <2>2
<1> HIDE DEF asked, markets
<1>6. CASE ~NeedsDetail(a, due)
  <2>1. app' = a /\ flight' = asked
    BY <1>2, <1>6
  <2>2. QED BY <1>0, <1>1, <1>3, <1>5, <2>1, LaunchKeeps
<1>7. CASE NeedsDetail(a, due)
  <2>0. a.picker # None
    BY <1>7 DEF NeedsDetail, SelectedMarket
  <2>1. /\ AskDetail(a) \in App
        /\ AskDetail(a).pending = a.pending /\ AskDetail(a).revision = a.revision
        /\ AskDetail(a).snapshot = a.snapshot
        /\ AskDetail(a).selected = a.selected /\ AskDetail(a).scroll = a.scroll
        /\ DetailFits(AskDetail(a)) /\ (LoadsMarkets(AskDetail(a)) => LoadsMarkets(a))
        /\ SameForm(app, AskDetail(a))
    BY <1>3, <2>0, AskDetailEffect DEF SameForm
  <2>2. app' = AskDetail(a)
    BY <1>2, <1>7
  <2>3. CASE a.form.key > 0
    <3>1. flight' = Started(asked, wanted)
      BY <1>2, <1>7, <2>3
    <3>2. SelectedMarket(a) \in Markets
      <4>1. SelectedMarket(a) \in Markets \cup {None}
        BY <1>3, SelectedType
      <4>2. QED BY <1>7, <4>1 DEF NeedsDetail
    <3>3. wanted \in Tasks
      BY <3>2, TaskTypes
    <3>4. /\ \A r \in Nat : SnapshotTask(r) # wanted
          /\ \A p \in Products : [kind |-> "markets", product |-> p] # wanted
      BY <3>2, TaskTypes
    <3> HIDE DEF wanted
    <3>5. flight' \in [Tasks -> Nat]
          /\ \A other \in Tasks : other # wanted => flight'[other] = asked[other]
      BY <1>5, <3>1, <3>3, StartedType
    <3>6. \A p \in Products :
            flight'[[kind |-> "markets", product |-> p]] = asked[[kind |-> "markets", product |-> p]]
      BY <3>4, <3>5, TaskTypes
    <3>7. \A r \in Nat : r <= MaxRevision => flight'[SnapshotTask(r)] = asked[SnapshotTask(r)]
      BY <3>4, <3>5, TaskTypes
    <3>8. snapshots(flight')
      BY <1>5, <3>7
    <3>9. loading(app', flight')
      BY <1>5, <2>1, <2>2, <3>6
    <3>10. QED BY <1>0, <1>1, <1>3, <2>1, <2>2, <3>5, <3>8, <3>9, LaunchKeeps
  <2>4. CASE ~(a.form.key > 0)
    <3>1. flight' = asked
      BY <1>2, <2>4
    <3>2. loading(app', flight')
      BY <1>5, <2>1, <2>2, <3>1
    <3>3. QED BY <1>0, <1>1, <1>3, <1>5, <2>1, <2>2, <3>1, <3>2, LaunchKeeps
  <2>5. QED BY <2>3, <2>4
<1>8. QED BY <1>6, <1>7

(* What is built from the form has the texts of the form, half-typed ones included. *)
LEMMA BuiltFromForm ==
  ASSUME NEW a \in App
  PROVE  LET source == [form |-> a.form, halfTyped |-> Edited(a)]
         IN source \in Sources /\ Agrees(source, a)
<1>1. a.form \in Forms /\ Edited(a) \subseteq Fields
  BY DEF App, Edited
<1>2. \A f \in Fields \ Edited(a) : a.editing # f
  BY DEF Edited
<1>3. \A f \in Fields \ Edited(a) : a.form[f] = InForce(a)[f]
  BY <1>2, InForceFields
<1>4. QED BY <1>1, <1>3 DEF Sources, Agrees

(* A task takes the subaccount from the form of the moment. *)
LEMMA TaskSource ==
  ASSUME NEW a \in App, NEW source \in Sources, Agrees(source, a)
  PROVE  SnapshotSource(source, a) \in Sources /\ Agrees(SnapshotSource(source, a), a)
<1> DEFINE form == [source.form EXCEPT !.subaccount = a.form.subaccount]
           halfTyped == (source.halfTyped \ {"subaccount"}) \cup (Edited(a) \cap {"subaccount"})
<1>1. source.form \in Forms /\ a.form \in Forms /\ source.halfTyped \subseteq Fields
  BY DEF App, Sources
<1>2. /\ form \in Forms /\ form.subaccount = a.form.subaccount
      /\ \A f \in Fields : f # "subaccount" => form[f] = source.form[f]
  BY <1>1 DEF Forms, Fields, TextFields
<1>3. halfTyped \subseteq Fields
  BY <1>1 DEF Edited
<1> HIDE DEF form
<1>4. ASSUME NEW f \in Fields \ halfTyped PROVE form[f] = InForce(a)[f]
  <2>1. CASE f = "subaccount"
    <3>1. a.editing # f
      BY <1>4, <2>1 DEF Edited
    <3>2. InForce(a)[f] = a.form[f]
      BY <1>4, <3>1, InForceFields
    <3>3. QED BY <1>2, <2>1, <3>2
  <2>2. CASE f # "subaccount"
    <3>1. source.form[f] = InForce(a)[f]
      BY <1>4, <2>2 DEF Agrees
    <3>2. QED BY <1>2, <1>4, <2>2, <3>1
  <2>3. QED BY <2>1, <2>2
<1>5. SnapshotSource(source, a) = [form |-> form, halfTyped |-> halfTyped]
  BY DEF SnapshotSource, form
<1>6. QED BY <1>2, <1>3, <1>4, <1>5 DEF Sources, Agrees

LEMMA LaunchSnapshotKeeps == ASSUME TuiInv, LaunchSnapshot PROVE TuiInv'
<1>0. AppInv /\ ShownInv /\ BuiltInv /\ TasksInv /\ app \in App /\ flight \in [Tasks -> Nat]
      /\ DetailFits(app) /\ configured \in Sources \cup {None}
  BY DEF TuiInv, AppInv, ShownInv, TasksInv
<1>1. app.revision \in Nat /\ app.revision <= MaxRevision
  BY <1>0 DEF AppInv, App
<1> DEFINE a == [app EXCEPT !.refreshNow = FALSE]
<1>2. /\ a \in App /\ a.pending = app.pending /\ a.revision = app.revision
      /\ a.snapshot = app.snapshot /\ a.picker = app.picker
      /\ a.selected = app.selected /\ a.scroll = app.scroll /\ SameForm(app, a)
  BY ZenonT(40), <1>0 DEF App, SameForm
<1>3. app.picker = None /\ UNCHANGED <<stored, session>>
  BY DEF LaunchSnapshot
<1>4. \/ configured # None /\ ~app.pending
           /\ app' = [a EXCEPT !.pending = TRUE]
           /\ flight' = Started(flight, SnapshotTask(app.revision))
           /\ given' = [given EXCEPT ![app.revision] = SnapshotSource(configured, app)]
           /\ uiPc' = "input" /\ UNCHANGED configured
      \/ app' = a /\ uiPc' = "input" /\ UNCHANGED <<configured, flight, given>>
      \/ app' = [a EXCEPT !.refreshNow = TRUE]
           /\ configured' = [form |-> app.form, halfTyped |-> Edited(app)]
           /\ UNCHANGED <<flight, given, uiPc>>
      \/ app' = SetError(a) /\ uiPc' = "input" /\ UNCHANGED <<configured, flight, given>>
  BY DEF LaunchSnapshot, SnapshotTask
<1> HIDE DEF a
<1>5. LoadsMarkets(app') => app'.picker # None
  BY DEF LoadsMarkets
\* The grid is left alone and no task is started.
<1>6. ASSUME app' \in App, app'.pending = app.pending, app'.revision = app.revision,
             app'.snapshot = app.snapshot, app'.picker = app.picker,
             app'.selected = app.selected, app'.scroll = app.scroll, SameForm(app, app'),
             configured' \in Sources \cup {None},
             configured' = configured \/ Agrees(configured', app),
             UNCHANGED <<flight, given>>, uiPc' \in {"loop", "input", "gone"}
      PROVE  TuiInv'
  <2>1. DetailFits(app') /\ ~LoadsMarkets(app')
    BY <1>3, <1>6 DEF DetailFits, LoadsMarkets
  <2>2. QED BY <1>0, <1>3, <1>6, <2>1, LaunchKeeps
<1>7. CASE configured # None /\ ~app.pending
           /\ app' = [a EXCEPT !.pending = TRUE]
           /\ flight' = Started(flight, SnapshotTask(app.revision))
           /\ given' = [given EXCEPT ![app.revision] = SnapshotSource(configured, app)]
           /\ uiPc' = "input" /\ UNCHANGED configured
  <2>1. /\ app' \in App /\ app'.pending = TRUE /\ app'.revision = app.revision
        /\ app'.snapshot = app.snapshot /\ app'.picker = app.picker
        /\ app'.selected = app.selected /\ app'.scroll = app.scroll /\ SameForm(app, app')
    BY <1>2, <1>7 DEF App, SameForm
  <2>2. SnapshotTask(app.revision) \in Tasks
    BY <1>1, TaskTypes
  <2>3. flight[SnapshotTask(app.revision)] = 0
    BY <1>0, <1>7 DEF TasksInv, OneSnapshotInFlight, SnapshotTask
  <2>4. /\ flight' \in [Tasks -> Nat]
        /\ flight'[SnapshotTask(app.revision)] = flight[SnapshotTask(app.revision)] + 1
        /\ \A other \in Tasks : other # SnapshotTask(app.revision) => flight'[other] = flight[other]
    BY <1>0, <1>7, <2>2, StartedType
  <2>5. flight'[SnapshotTask(app.revision)] = 1
    BY <2>3, <2>4
  <2>6. \A r \in Nat : app'.revision < r /\ r <= MaxRevision => flight'[SnapshotTask(r)] = 0
    <3> SUFFICES ASSUME NEW r \in Nat, app.revision < r, r <= MaxRevision
                 PROVE  flight'[SnapshotTask(r)] = 0
      BY <2>1
    <3>1. SnapshotTask(r) \in Tasks /\ flight[SnapshotTask(r)] = 0
      BY <1>0, TaskTypes DEF TasksInv
    <3>2. r # app.revision
      BY <1>1
    <3>3. SnapshotTask(r) # SnapshotTask(app.revision)
      BY <1>1, <3>2, SnapshotTasksDiffer
    <3>4. QED BY <2>4, <3>1, <3>3
  <2>7. OneSnapshotInFlight'
    BY <2>1, <2>5 DEF OneSnapshotInFlight, SnapshotTask
  <2>8. MarketLoadNotLost'
    BY <1>3, <2>1 DEF MarketLoadNotLost
  <2>9. TasksInv'
    BY <2>4, <2>6, <2>7, <2>8 DEF TasksInv
  <2>10. SnapshotSource(configured, app) \in Sources /\ Agrees(SnapshotSource(configured, app), app)
    BY <1>0, <1>7, TaskSource DEF BuiltInv
  <2>11. /\ given' \in [0 .. MaxRevision -> Sources \cup {None}]
         /\ given'[app.revision] = SnapshotSource(configured, app)
    BY <1>0, <1>1, <1>7, <2>10, TerminalUIAssumption DEF AppInv, TerminalUIAssumption
  <2>12. AppInv'
    BY <1>0, <1>3, <1>7, <2>1, <2>11 DEF AppInv
  <2>13. BuiltInv'
    <3>1. configured' # None => Agrees(configured', app')
      BY <1>0, <1>7, <2>1, SameInForce DEF BuiltInv
    <3>2. given'[app'.revision] \in Sources /\ Agrees(given'[app'.revision], app')
      BY <2>1, <2>10, <2>11, SameInForce
    <3>3. QED BY <3>1, <3>2, BuiltNext
  <2>14. ShownInv'
    <3>1. SnapshotFits(app') /\ FundingFits(app')
      BY <1>0, <2>1, SameInForce, FundingStays DEF ShownInv, SnapshotFits, SameForm
    <3>2. GridFits(app') /\ DetailFits(app')
      BY <1>0, <2>1 DEF ShownInv, GridFits, DetailFits, Count
    <3>3. QED BY <3>1, <3>2, ShownNext
  <2>15. QED BY <2>9, <2>12, <2>13, <2>14 DEF TuiInv
<1>8. CASE app' = a /\ uiPc' = "input" /\ UNCHANGED <<configured, flight, given>>
  BY <1>0, <1>2, <1>6, <1>8
<1>9. CASE app' = [a EXCEPT !.refreshNow = TRUE]
           /\ configured' = [form |-> app.form, halfTyped |-> Edited(app)]
           /\ UNCHANGED <<flight, given, uiPc>>
  <2>1. /\ app' \in App /\ app'.pending = app.pending /\ app'.revision = app.revision
        /\ app'.snapshot = app.snapshot /\ app'.picker = app.picker
        /\ app'.selected = app.selected /\ app'.scroll = app.scroll /\ SameForm(app, app')
    BY <1>2, <1>9 DEF App, SameForm
  <2>2. uiPc' \in {"loop", "input", "gone"}
    BY <1>0, <1>9 DEF AppInv
  <2>3. configured' \in Sources /\ Agrees(configured', app)
    BY <1>0, <1>9, BuiltFromForm
  <2>4. QED BY <1>6, <1>9, <2>1, <2>2, <2>3
<1>10. CASE app' = SetError(a) /\ uiPc' = "input" /\ UNCHANGED <<configured, flight, given>>
  <2>1. /\ app' \in App /\ app'.pending = app.pending /\ app'.revision = app.revision
        /\ app'.snapshot = app.snapshot /\ app'.picker = app.picker
        /\ app'.selected = app.selected /\ app'.scroll = app.scroll /\ SameForm(app, app')
    BY <1>2, <1>10 DEF App, SetError, SameForm
  <2>2. QED BY <1>0, <1>6, <1>10, <2>1
<1>11. QED BY <1>4, <1>7, <1>8, <1>9, <1>10

-----------------------------------------------------------------------------
(***************************************************************************)
(* The steps of the user.                                                  *)
(***************************************************************************)
LEMMA InputKeeps == ASSUME TuiInv, Input PROVE TuiInv'
<1>1. app \in App /\ session \in Sessions /\ stored \in Forms \cup {None}
  BY DEF TuiInv, AppInv
<1>2. session.fields \subseteq Fields
  BY <1>1, TerminalUIAssumption DEF TerminalUIAssumption
<1>3. UNCHANGED <<flight, given, stored, session>>
  BY DEF Input
<1>4. PICK a : NextIteration(a) /\ (a = app \/ \E e \in session.events : a \in Handled(app, e))
  BY DEF Input
<1>5. Touch(app, a)
  <2>1. CASE a = app
    BY <1>1, <2>1, NoChange
  <2>2. CASE \E e \in session.events : a \in Handled(app, e)
    BY <1>1, <1>2, <2>2, HandledTouches
  <2>3. QED BY <1>4, <2>1, <2>2
<1>6. stored' \in Forms \cup {None}
  BY <1>1, <1>3
<1>7. QED BY <1>3, <1>4, <1>5, <1>6, IterationKeeps

LEMMA LoadKeyTouches ==
  ASSUME NEW a \in App, NEW profile \in Forms, a.funding = None
  PROVE  Touch(a, LoadEncryptedKey([a EXCEPT !.password = None], profile))
<1> DEFINE c == [a EXCEPT !.password = None]
           filled == [c EXCEPT !.form.key = profile.key]
           b == LoadEncryptedKey(c, profile)
<1>1. c \in App /\ c.revision = a.revision /\ c.pending = a.pending /\ c.picker = a.picker
      /\ c.form = a.form /\ c.funding = None
  BY DEF App
<1>2. profile.key \in 0 .. MaxText /\ c.form \in Forms
  BY <1>1 DEF Forms, App
<1>3. PICK form \in Forms : form = [c.form EXCEPT !.key = profile.key]
  BY <1>2 DEF Forms
<1> HIDE DEF c
<1>4. filled = [c EXCEPT !.form = form]
  BY <1>1, <1>2, <1>3 DEF App, Forms
<1>5. filled \in App
  BY <1>1, <1>4 DEF App
<1>6. /\ filled.revision = c.revision /\ filled.pending = c.pending /\ filled.picker = c.picker
      /\ filled.funding = None
  BY <1>1, <1>4 DEF App
<1> HIDE DEF filled
<1> DEFINE changed == SettingsChanged(filled)
<1>7. changed \in App /\ changed.pending = c.pending /\ changed.revision = c.revision + 1
      /\ changed.snapshot = None /\ changed.picker = c.picker /\ changed.funding = None
  BY <1>5, <1>6, SettingsChangedApp DEF SameForm
<1> HIDE DEF changed
<1>8. b = [changed EXCEPT !.markets = <<>>, !.loadedFor = None]
  BY DEF b, LoadEncryptedKey, ForgetMarkets, changed, filled
<1>9. b \in App /\ b.pending = c.pending /\ b.revision = c.revision + 1
      /\ b.snapshot = None /\ b.picker = c.picker /\ b.funding = None
  BY <1>7, <1>8 DEF App
<1> HIDE DEF b
<1>10. FundingFits(b)
  BY <1>9 DEF FundingFits
<1>11. Touch(a, b)
  BY <1>1, <1>9, <1>10, NewSettings
<1>12. QED BY <1>11 DEF b, c

LEMMA SubmitPasswordKeeps == ASSUME TuiInv, SubmitPassword PROVE TuiInv'
<1>1. app \in App /\ stored \in Forms \cup {None} /\ app.form \in Forms
  BY DEF TuiInv, AppInv, App
<1> DEFINE a == [app EXCEPT !.password = None]
<1>2. UNCHANGED <<flight, given, session>> /\ app.funding = None
  BY DEF SubmitPassword
<1>3. \/ NextIteration(a) /\ stored' = app.form
      \/ stored # None /\ NextIteration(LoadEncryptedKey(a, stored)) /\ UNCHANGED stored
  BY DEF SubmitPassword
<1>4. Touch(app, a)
  <2>1. "config" \in TabNames /\ TRUE \in BOOLEAN
    BY TabTypes
  <2>2. QED BY <1>1, <2>1, ModeTouches
<1>5. CASE NextIteration(a) /\ stored' = app.form
  <2> HIDE DEF a
  <2>1. QED BY <1>1, <1>2, <1>4, <1>5, IterationKeeps
<1>6. CASE stored # None /\ NextIteration(LoadEncryptedKey(a, stored)) /\ UNCHANGED stored
  <2>1. stored \in Forms
    BY <1>1, <1>6
  <2>2. Touch(app, LoadEncryptedKey(a, stored))
    BY <1>1, <1>2, <2>1, LoadKeyTouches
  <2> HIDE DEF a
  <2>3. QED BY <1>1, <1>2, <1>6, <2>2, IterationKeeps
<1>7. QED BY <1>3, <1>5, <1>6

LEMMA ResetKeeps == ASSUME TuiInv, Reset PROVE TuiInv'
<1>1. app \in App /\ app.form \in Forms
  BY DEF TuiInv, AppInv, App
<1> DEFINE filled == [app EXCEPT !.form = [Defaults EXCEPT !.key = app.form.key]]
           b == ResetProfile(app)
<1>2. UNCHANGED <<flight, given, session>> /\ stored' = None /\ NextIteration(b) /\ app.funding = None
  BY DEF Reset, AtPlainKeys
<1>3. Defaults \in Forms
  <2>1. 0 \in 0 .. MaxText /\ 1 \in 0 .. MaxText
    BY TerminalUIAssumption DEF TerminalUIAssumption
  <2>2. QED BY <2>1, ListingTypes DEF Defaults, Forms, Products
<1>4. app.form.key \in 0 .. MaxText
  BY <1>1 DEF Forms
<1>5. PICK form \in Forms : form = [Defaults EXCEPT !.key = app.form.key]
  BY <1>3, <1>4 DEF Forms
<1>6. filled = [app EXCEPT !.form = form]
  BY <1>5
<1>7. filled \in App
  BY <1>1, <1>6 DEF App
<1>8. /\ filled.revision = app.revision /\ filled.pending = app.pending /\ filled.picker = app.picker
      /\ filled.funding = None
  BY <1>1, <1>2, <1>6 DEF App
<1> HIDE DEF filled
<1> DEFINE changed == SettingsChanged(filled)
<1>9. changed \in App /\ changed.pending = app.pending /\ changed.revision = app.revision + 1
      /\ changed.snapshot = None /\ changed.picker = app.picker /\ changed.funding = None
  BY <1>7, <1>8, SettingsChangedApp DEF SameForm
<1> HIDE DEF changed
<1>10. b = [changed EXCEPT !.markets = <<>>, !.loadedFor = None]
  BY DEF b, ResetProfile, ForgetMarkets, changed, filled
<1>11. b \in App /\ b.pending = app.pending /\ b.revision = app.revision + 1
      /\ b.snapshot = None /\ b.picker = app.picker /\ b.funding = None
  BY <1>9, <1>10 DEF App
<1> HIDE DEF b
<1>12. FundingFits(b)
  BY <1>11 DEF FundingFits
<1>13. Touch(app, b)
  BY <1>1, <1>11, <1>12, NewSettings
<1>14. QED BY <1>2, <1>13, IterationKeeps

LEMMA TuiInvStep == TuiInv /\ [TuiNext]_uiVars => TuiInv'
<1> SUFFICES ASSUME TuiInv, [TuiNext]_uiVars PROVE TuiInv'
  OBVIOUS
<1> DEFINE rests == UNCHANGED <<app, configured, flight, given, stored, session>>
                    /\ uiPc' \in {"loop", "input", "gone"}
<1>1. CASE rests
  <2>1. ShownInv'
    BY <1>1, ShownNext DEF TuiInv, ShownInv
  <2>2. BuiltInv'
    BY <1>1, BuiltNext DEF TuiInv, BuiltInv
  <2>3. AppInv' /\ TasksInv'
    BY <1>1 DEF TuiInv, AppInv, TasksInv, OneSnapshotInFlight, MarketLoadNotLost
  <2>4. QED BY <2>1, <2>2, <2>3 DEF TuiInv
<1>2. CASE \E task \in Tasks : Receive(task)
  BY <1>2, ReceiveKeeps
<1>3. CASE LaunchPicker
  BY <1>3, LaunchPickerKeeps
<1>4. CASE LaunchSnapshot
  BY <1>4, LaunchSnapshotKeeps
<1>5. CASE LaunchNothing
  BY <1>1, <1>5 DEF LaunchNothing
<1>6. CASE Input
  BY <1>6, InputKeeps
<1>7. CASE SubmitPassword
  BY <1>7, SubmitPasswordKeeps
<1>8. CASE Reset
  BY <1>8, ResetKeeps
<1>9. CASE Quit
  BY <1>1, <1>9 DEF Quit
<1>10. CASE Gone \/ UNCHANGED uiVars
  BY <1>1, <1>10 DEF Gone, uiVars, TuiInv, AppInv
<1>11. QED BY <1>2, <1>3, <1>4, <1>5, <1>6, <1>7, <1>8, <1>9, <1>10 DEF TuiNext

LEMMA TuiInvariance == TuiSpec => []TuiInv
  BY TuiInvInit, TuiInvStep, PTL DEF TuiSpec

-----------------------------------------------------------------------------
(***************************************************************************)
(* What follows.                                                           *)
(***************************************************************************)

(* The fields of App have their types at any time. *)
THEOREM UiTypeCorrect == TuiSpec => []TuiTypeOK
<1>1. TuiInv => TuiTypeOK
  <2> SUFFICES ASSUME TuiInv PROVE TuiTypeOK
    OBVIOUS
  <2>1. app \in App /\ app.revision <= MaxRevision /\ app.selected <= MaxSelected
    BY DEF TuiInv, AppInv
  <2>2. app.revision \in 0 .. MaxRevision /\ app.selected \in 0 .. MaxSelected
    BY <2>1, TerminalUIAssumption DEF App, TerminalUIAssumption
  <2>3. QED BY <2>1, <2>2 DEF TuiTypeOK, TuiInv, AppInv, TasksInv, App
<1>2. QED BY <1>1, TuiInvariance, PTL

(* The grid on display was computed from the values of the settings in force, field by field,
   however late the answers come in and however often the settings change meanwhile; only a text
   that was half typed when it was read may be another (main.rs:3071-3113, 3265-3271, 3308-3319). *)
THEOREM GridIsOfTheSettings == TuiSpec => []SnapshotIsCurrent
<1>1. TuiInv => SnapshotIsCurrent
  BY DEF TuiInv, ShownInv, SnapshotFits, SnapshotIsCurrent
<1>2. QED BY <1>1, TuiInvariance, PTL

(* So are the funding instructions, as long as they are open: what the user does behind them changes
   no setting but the one that was being edited when they were opened (main.rs:3506-3542,
   3588-3596, 4184-4247). *)
THEOREM InstructionsAreOfTheSettings == TuiSpec => []FundingIsCurrent
<1>1. TuiInv => FundingIsCurrent
  BY DEF TuiInv, ShownInv, FundingFits, FundingIsCurrent
<1>2. QED BY <1>1, TuiInvariance, PTL

(* One snapshot at most is under way for the settings in force, and the loop knows whether
   (main.rs:3027-3034, 3265-3268). *)
THEOREM OneSnapshotUnderWay == TuiSpec => []OneSnapshotInFlight
<1>1. TuiInv => OneSnapshotInFlight
  BY DEF TuiInv, TasksInv
<1>2. QED BY <1>1, TuiInvariance, PTL

(* The selected price and the top of the page lie in the grid on display, for every number of
   columns and rows (main.rs:123-157). *)
THEOREM SelectionStaysOnGrid == TuiSpec => []GridOnScreen
<1>1. TuiInv => GridOnScreen
  <2> SUFFICES ASSUME TuiInv, Count(app) > 0
               PROVE  app.selected < Count(app) /\ FirstIndex(app) < Count(app)
    BY DEF GridOnScreen
  <2>1. app \in App /\ app.selected < Count(app) /\ app.scroll < Count(app)
    BY DEF TuiInv, AppInv, ShownInv, GridFits
  <2>2. app.scroll \in Nat /\ Count(app) \in Nat
    BY <2>1, CountType DEF App
  <2>3. FirstIndex(app) \in Nat /\ FirstIndex(app) <= app.scroll
    BY <2>2, FirstIndexBound
  <2>4. QED BY <2>1, <2>2, <2>3
<1>2. QED BY <1>1, TuiInvariance, PTL

(* A picker that shows a list being loaded will be answered (main.rs:3038-3040, 3189-3201). *)
THEOREM LoadIsAnswered == TuiSpec => []MarketLoadNotLost
<1>1. TuiInv => MarketLoadNotLost
  BY DEF TuiInv, TasksInv
<1>2. QED BY <1>1, TuiInvariance, PTL

(* The detail on display is the one asked for last (main.rs:3060-3064). *)
THEOREM DetailIsOfTheRow == TuiSpec => []DetailForRowAsked
<1>1. TuiInv => DetailForRowAsked
  BY DEF TuiInv, ShownInv, DetailFits, DetailForRowAsked
<1>2. QED BY <1>1, TuiInvariance, PTL
=============================================================================
