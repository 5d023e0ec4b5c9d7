----------------------------- MODULE MCGridBot -----------------------------
(***************************************************************************)
(* A small instance of every part of a process of the grid bot.            *)
(***************************************************************************)
EXTENDS GridBot

-----------------------------------------------------------------------------
(* The terminal UI.                                                        *)

\* Two Perp markets and a Spot market.
MCListing == [perp |-> <<"btc", "eth">>, spot |-> <<"apt">>]

MCCommandLines == {[key |-> 0, subaccount |-> 0], [key |-> 1, subaccount |-> 1]}

\* No profile yet, or one with an encrypted key.
MCProfiles == {None, [product |-> "spot", market |-> "apt", key |-> 1, number |-> 1, subaccount |-> 1]}

Using(events, fields) == [events |-> events, fields |-> fields]

\* Editing; the picker and the choice of a market; the picker and a change of the product; the board;
\* profiles and the funding instructions; instructions opened in the middle of an edit.
MCSessions ==
  {Using({"Enter", "Esc", "Char", "Backspace", "ClickTab", "F2"}, {"key", "number"}),
   Using({"m", "Enter", "ClickRow", "f"}, {"market"}),
   Using({"m", "Esc", "Char"}, {"product"}),
   Using({"Up", "Down", "PageUp", "PageDown", "ScrollUp", "ScrollDown", "BackTab", "ClickCell", "u"}, {}),
   Using({"CtrlS", "CtrlR", "Enter", "Esc", "u", "p", "ClickFunding"}, {"product"}),
   Using({"Enter", "Esc", "Char", "ClickTab", "ClickFunding"}, {"subaccount"})}

-----------------------------------------------------------------------------
(* The event stream.                                                       *)

\* A price; a fill; a rejection behind a record of another market; two events in one frame.
MCFrames == {<<"mid">>, <<"fill">>, <<"foreign", "reject">>, <<"fill", "mid">>}
MCBackoff == <<1, 5>>

-----------------------------------------------------------------------------
(* The plans.                                                              *)

\* Fixed bounds of three to nine ticks and a total budget of quote; variations of it.
Bounded ==
  [product |-> "spot", mode |-> "neutral", range |-> "bounds", lower |-> 6, upper |-> 18,
   percent |-> 0, total |-> 3, allocation |-> "budget", amount |-> 160, quote |-> NoPlan,
   base |-> NoPlan, autoConvert |-> TRUE, fee |-> 1, margin |-> 0, leverage |-> 1]

SeparateBudgets == [Bounded EXCEPT !.quote = 70, !.base = 5]
Stepped == [Bounded EXCEPT !.range = "step", !.percent = 50, !.total = 2, !.amount = 80]
Percentage == [Bounded EXCEPT !.range = "percent", !.percent = 40, !.total = 2, !.allocation = "fixed", !.amount = 2]
Perp == [Bounded EXCEPT !.product = "perp", !.leverage = 2]
SteppedPerp == [Perp EXCEPT !.range = "step", !.percent = 20, !.amount = 50]
LongPerp == [Perp EXCEPT !.mode = "long", !.total = 2]
Invalid == [Bounded EXCEPT !.total = 4]

\* A lower bound of less than a tick.
LowSpot == [Bounded EXCEPT !.lower = 1, !.total = 2]
LowPerp == [Perp EXCEPT !.lower = 1, !.total = 2]

MCSettings == {Bounded, SeparateBudgets, Stepped, Percentage, Perp, SteppedPerp, LongPerp, Invalid, LowSpot, LowPerp}

\* Not enough for every projection, and enough for all.
MCBalances == {[base |-> 3, quote |-> 60], [base |-> 20, quote |-> 200]}
=============================================================================
