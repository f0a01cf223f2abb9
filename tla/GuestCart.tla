----------------------------- MODULE GuestCart -----------------------------
(***************************************************************************)
(* The cart of who is not logged in (App.tsx): React state in each tab,    *)
(* and a copy in localStorage that the tabs share.  A tab that changes its *)
(* state writes the copy in an effect after rendering; the others are told *)
(* by the browser or over a channel, read the copy, render, and write what *)
(* they had read.                                                          *)
(***************************************************************************)
EXTENDS Integers, FiniteSets

CONSTANTS Tabs, Products, Available

VARIABLES
  storage,   \* the rows in localStorage
  guest,     \* per tab: guestCartItems, as rendered
  pending,   \* per tab: the rows it is about to render, or none
  heard,     \* tabs with a storage event or a message to handle
  wanted     \* history: the rows that the last click was to leave

guestVars == <<storage, guest, pending, heard, wanted>>

Empty   == [p \in Products |-> 0]
Nothing == <<>>
Rows    == [Products -> 0..Available]

\* The rows in the latest state, rendered or not.
Latest(t) == IF pending[t] = Nothing THEN guest[t] ELSE pending[t][1]

\* The browser tells the other tabs that the copy changed.
StorageEvents(t, rows) == IF rows = storage THEN {} ELSE Tabs \ {t}

\* A tab begins to show the guest cart, having rows in its state.  In one
\* commit the first effect reads the copy and the second writes the state over
\* it; what was read is rendered after.
Mutant_ShowGuest(t, rows) ==
  /\ storage' = rows
  /\ guest' = [guest EXCEPT ![t] = rows]
  /\ pending' = [pending EXCEPT ![t] = Nothing]
  /\ heard' = (heard \ {t}) \cup StorageEvents(t, rows)
  /\ UNCHANGED wanted
ShowGuest(t, rows) ==
  /\ storage' = rows
  /\ guest' = [guest EXCEPT ![t] = rows]
  /\ pending' = [pending EXCEPT ![t] = <<storage>>]
  /\ heard' = (heard \ {t}) \cup StorageEvents(t, rows)
  /\ UNCHANGED wanted

\* A tab no longer shows it: the effects do nothing and no event is handled.
\* The state stays as it is.
HideGuest(t) ==
  /\ guest' = [guest EXCEPT ![t] = Latest(t)]
  /\ pending' = [pending EXCEPT ![t] = Nothing]
  /\ heard' = heard \ {t}
  /\ UNCHANGED <<storage, wanted>>

\* The page is gone, with its state.
CloseGuest(t) ==
  /\ guest' = [guest EXCEPT ![t] = Empty]
  /\ pending' = [pending EXCEPT ![t] = Nothing]
  /\ heard' = heard \ {t}
  /\ UNCHANGED <<storage, wanted>>

\* handleStorage and handleMessage: syncFromStorage.
Hear(t) ==
  /\ t \in heard
  /\ heard' = heard \ {t}
  /\ pending' = [pending EXCEPT ![t] = <<storage>>]
  /\ UNCHANGED <<storage, guest, wanted>>

\* Rendering, and the effect that writes the copy.
Render(t) ==
  /\ pending[t] # Nothing
  /\ guest' = [guest EXCEPT ![t] = pending[t][1]]
  /\ storage' = pending[t][1]
  /\ heard' = heard \cup StorageEvents(t, pending[t][1])
  /\ pending' = [pending EXCEPT ![t] = Nothing]
  /\ UNCHANGED wanted

\* A click changes the latest state, is rendered and written at once, and the
\* message goes to every tab that listens, this one too.
SetGuest(t, p, n) ==
  LET rows == [Latest(t) EXCEPT ![p] = n] IN
  /\ storage' = rows /\ wanted' = rows
  /\ guest' = [guest EXCEPT ![t] = rows]
  /\ pending' = [pending EXCEPT ![t] = Nothing]
  /\ heard' = Tabs

\* The guest branches of addToCart and updateCartQuantity.  They check what is
\* rendered; the latter changes a row only if the latest state still has it.
AddGuest(t, p) ==
  /\ guest[t][p] < Available
  /\ SetGuest(t, p, Latest(t)[p] + 1)

UpdateGuest(t, p, n) ==
  /\ guest[t][p] > 0 /\ n <= Available
  /\ SetGuest(t, p, IF Latest(t)[p] > 0 THEN n ELSE 0)

=============================================================================
