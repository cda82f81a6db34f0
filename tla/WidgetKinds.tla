----------------------------- MODULE WidgetKinds -----------------------------
(* The widgets that the application and the page speak of, and the window    *)
(* flags that both go by.                                                    *)
EXTENDS FiniteSets

CONSTANTS
    Widgets,     \* addresses, used as identifiers; none is used twice
    NoWidget,
    KindOf,      \* windowType()
    Modal        \* the windows with a modality

ASSUME KindAssumption ==
    /\ IsFiniteSet(Widgets)
    /\ KindOf \in [Widgets -> {"Widget", "Window", "Dialog", "Popup"}]
    /\ Modal \subseteq Widgets
    /\ NoWidget \notin Widgets

\* QWidget::isWindow.
IsWindow(w) == KindOf[w] # "Widget"

\* (flags & 3) === 3 and flags & 8.
IsDialog(w) == KindOf[w] = "Dialog"
IsPopup(w) == KindOf[w] = "Popup"
=============================================================================
