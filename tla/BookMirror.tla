----------------------------- MODULE BookMirror -----------------------------
(***************************************************************************)
(* What the market-data subsystem promises to whoever prices with a local  *)
(* order book, whatever the venue, the connection and the resynchroniser   *)
(* do: either no book is shown at all, or the book shown is exactly the    *)
(* book the venue had at one of its versions, and while it stays visible   *)
(* that version never moves backwards.                                     *)
(***************************************************************************)
EXTENDS Integers

CONSTANT Levels          \* the price levels of the instrument

VARIABLES
  history,   \* history[v]: the venue's book right after its update v
  shown      \* Hidden, or the version shown together with its levels

mirrorVars == <<history, shown>>

Hidden == [visible |-> FALSE]
View(v, levels) == [visible |-> TRUE, at |-> v, levels |-> levels]

Book == [Levels -> Nat]

MirrorInit ==
  /\ history \in [{0} -> Book]
  /\ shown = Hidden

\* The venue moves on; its past never changes.
VenueMoves ==
  /\ DOMAIN history \subseteq DOMAIN history'
  /\ \A v \in DOMAIN history : history'[v] = history[v]
  /\ UNCHANGED shown

Show(v) ==
  /\ shown.visible => v >= shown.at
  /\ shown' = View(v, history[v])
  /\ UNCHANGED history

Hide ==
  /\ shown' = Hidden
  /\ UNCHANGED history

MirrorNext == VenueMoves \/ (\E v \in DOMAIN history : Show(v)) \/ Hide

MirrorSpec == MirrorInit /\ [][MirrorNext]_mirrorVars
=============================================================================
