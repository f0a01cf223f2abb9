---------------------------- MODULE AddressPanel ----------------------------
(***************************************************************************)
(* The shipping part of the shop's cart page (App.tsx): the customer's     *)
(* saved addresses as the page lists them, the one that is selected, and   *)
(* the shipping quote for it, beside the address book that the gateway     *)
(* keeps.  Every call is served in one step and answered in a later one,   *)
(* calls of several clicks overlap, and the page itself tells what to show *)
(* after a change instead of reading the book again.                       *)
(*                                                                         *)
(* A book, and a list, is a sequence of [id, default], the row updated     *)
(* last first; Zone stands for city and region.  The cart is its number of *)
(* units of one product.  Money is in tenths of a dollar.                  *)
(***************************************************************************)
EXTENDS Integers, Sequences, SequencesExt

CONSTANTS
  Ids,        \* ids of addresses; a new address gets one that was never used
  Saved,      \* a sequence of ids: some that are saved when the behaviour starts
  Zone,       \* [Ids -> {"metro", "lima", "other"}]
  Units,      \* numbers of units a cart can have
  Clicks,     \* slots for address calls that are under way
  MaxEvents   \* clicks, failures, and changes made elsewhere

ASSUME AddressPanelAssumption == Saved \in Seq(Ids)

VARIABLES
  book,       \* the rows of user_shipping_addresses of the customer
  used,       \* ids given out so far
  token,      \* "none", "valid" or "expired"
  list,       \* shippingAddresses
  selected,   \* selectedAddressId, or Nobody
  calls,      \* per slot: the address call
  units,      \* cartItems
  asking,     \* the call of the latest quote effect, or NoCall
  quote,      \* shippingQuote, [id, units], or NoQuote
  mixed,      \* history: the list may differ from the book, see below
  events

bookVars  == <<book, used>>
panelVars == <<token, list, selected, calls, units, asking, quote>>
shippingVars == <<bookVars, panelVars, mixed>>

Nobody  == "nobody"
NoCall  == [phase |-> "free"]
NoQuote == [id |-> Nobody, units |-> 0]

Rows     == [id : Ids, default : BOOLEAN]
Marked   == {a \in Rows : a.default}
Unmarked == Rows \ Marked

\* The elements of s that are in T, in their order.  (SelectSeq, written so that
\* it can be reasoned about.)
Filter(s, T) ==
  LET upTo[n \in 0..Len(s)] ==
        IF n = 0 THEN <<>>
        ELSE IF s[n] \in T THEN Append(upTo[n - 1], s[n]) ELSE upTo[n - 1]
  IN upTo[Len(s)]

IdsIn(s) == {s[i].id : i \in DOMAIN s}
Without(s, id) == Filter(s, {a \in Rows : a.id # id})

\* ORDER BY is_default DESC, and the page's sort, which is stable.
DefaultsFirst(s) == Filter(s, Marked) \o Filter(s, Unmarked)

\* The default address, or else the first.
Preferred(s) == IF s = <<>> THEN Nobody ELSE DefaultsFirst(s)[1].id

Event == events < MaxEvents /\ events' = events + 1

UnderWay == {k \in Clicks : calls[k].phase # "free"}

-----------------------------------------------------------------------------
(* The gateway.                                                            *)

\* verifyToken: the token of a call is good until it expires, logged out or
\* not; there is one token at a time, and older ones expired before it.
VerifyToken(auth) == auth = "valid" /\ token # "expired"
AuthGuard(auth) == auth # "none" /\ VerifyToken(auth)

\* buildShippingQuote
BuildShippingQuote(zone, n) ==
  CASE zone = "metro" -> 79 + 11 * (n - 1)
    [] zone = "lima"  -> 129 + 18 * (n - 1)
    [] zone = "other" -> 129 + 25 + 18 * (n - 1)

\* create: a new default takes the mark off the others, which updates them.
Created(row) ==
  LET cleared == IF row.default THEN Filter(book, Marked) ELSE <<>>
      rest    == IF row.default THEN Filter(book, Unmarked) ELSE book
  IN <<row>> \o [i \in DOMAIN cleared |-> [cleared[i] EXCEPT !.default = FALSE]] \o rest

-----------------------------------------------------------------------------
(* The quote effect: it runs when the token, the selected address or the   *)
(* cart changes, and what an earlier run asked for is ignored.             *)

Quoted(tok, sel, n) == tok # "none" /\ sel # Nobody /\ n > 0

Mutant_QuoteEffect(tok, sel, n) ==
  IF ~Quoted(tok, sel, n)
    THEN asking' = NoCall /\ quote' = NoQuote
    ELSE IF sel = selected THEN UNCHANGED <<asking, quote>>
    ELSE /\ asking' = [phase |-> "sent", id |-> sel, units |-> n]
         /\ UNCHANGED quote
QuoteEffect(tok, sel, n) ==
  IF ~Quoted(tok, sel, n)
    THEN asking' = NoCall /\ quote' = NoQuote
    ELSE /\ asking' = [phase |-> "sent", id |-> sel, units |-> n]
         /\ UNCHANGED quote

\* The panel shows list s and selects sel.
Show(s, sel) ==
  /\ list' = s
  /\ selected' = sel
  /\ IF sel = selected THEN UNCHANGED <<asking, quote>> ELSE QuoteEffect(token, sel, units)
  /\ UNCHANGED <<token, units>>

\* quoteShipping: 409 when the customer has no such address.
QuoteShipping ==
  /\ asking.phase = "sent"
  /\ asking' = [asking EXCEPT !.phase =
                  IF AuthGuard(token) /\ asking.id \in IdsIn(book) THEN "priced" ELSE "failed"]
  /\ UNCHANGED <<bookVars, token, list, selected, calls, units, quote, mixed, events>>

QuoteFails ==
  /\ asking.phase \in {"sent", "priced"}
  /\ Event
  /\ asking' = [asking EXCEPT !.phase = "failed"]
  /\ UNCHANGED <<bookVars, token, list, selected, calls, units, quote, mixed>>

LoadQuote ==
  /\ asking.phase \in {"priced", "failed"}
  /\ quote' = IF asking.phase = "priced" THEN [id |-> asking.id, units |-> asking.units]
                                         ELSE NoQuote
  /\ asking' = NoCall
  /\ UNCHANGED <<bookVars, token, list, selected, calls, units, mixed, events>>

\* The cart changes, in this tab or in another one (Storefront).
CartChanges(n) ==
  /\ token # "none" /\ n # units
  /\ Event
  /\ units' = n
  /\ QuoteEffect(token, selected, n)
  /\ UNCHANGED <<bookVars, token, list, selected, calls, mixed>>

-----------------------------------------------------------------------------
(* Clicks.                                                                 *)

\* A click while another address call is under way may mix up the list.
Send(k, call) ==
  /\ calls[k] = NoCall
  /\ calls' = [calls EXCEPT ![k] = call]
  /\ mixed' = (mixed \/ UnderWay # {})

\* The effect of a new token starts loadAddresses, and the cart is loaded.
Login(k) ==
  /\ token = "none"
  /\ Event
  /\ token' = "valid"
  /\ Send(k, [phase |-> "sent", auth |-> "valid", op |-> "load"])
  /\ units' \in Units
  /\ QuoteEffect("valid", selected, units')
  /\ UNCHANGED <<bookVars, list, selected>>

\* The answer to loadAddresses is ignored from now on; other answers are not.
HandleLogout ==
  /\ token # "none"
  /\ Event
  /\ token' = "none"
  /\ list' = <<>> /\ selected' = Nobody /\ units' = 0
  /\ QuoteEffect("none", Nobody, 0)
  /\ calls' = [k \in Clicks |-> IF calls[k].phase # "free" /\ calls[k].op = "load"
                                  THEN NoCall ELSE calls[k]]
  /\ mixed' = (mixed \/ UnderWay # {})
  /\ UNCHANGED bookVars

TokenExpires ==
  /\ token = "valid"
  /\ Event
  /\ token' = "expired"
  /\ UNCHANGED <<bookVars, list, selected, calls, units, asking, quote, mixed>>

\* isDefault is decided by what is shown when the form is submitted.
Mutant_HandleCreateAddress(k) ==
  /\ token # "none"
  /\ Event
  /\ \E id \in Ids \ used :
       /\ used' = used \cup {id}
       /\ Send(k, [phase |-> "sent", auth |-> token, op |-> "create",
                  row |-> [id |-> id, default |-> TRUE]])
  /\ UNCHANGED <<book, token, list, selected, units, asking, quote>>
HandleCreateAddress(k) ==
  /\ token # "none"
  /\ Event
  /\ \E id \in Ids \ used :
       /\ used' = used \cup {id}
       /\ Send(k, [phase |-> "sent", auth |-> token, op |-> "create",
                  row |-> [id |-> id, default |-> list = <<>>]])
  /\ UNCHANGED <<book, token, list, selected, units, asking, quote>>

\* The button deletes the selected address; the handler keeps the list and
\* the selection of the click.
HandleDeleteAddress(k) ==
  /\ token # "none" /\ selected # Nobody
  /\ Event
  /\ Send(k, [phase |-> "sent", auth |-> token, op |-> "delete",
              id |-> selected, list |-> list])
  /\ UNCHANGED <<bookVars, token, list, selected, units, asking, quote>>

SelectAddress(sel) ==
  /\ token # "none" /\ sel # selected
  /\ Event
  /\ Show(list, sel)
  /\ UNCHANGED <<bookVars, calls, mixed>>

-----------------------------------------------------------------------------
(* The calls at the gateway and their answers.                             *)

Move(k, call) == calls' = [calls EXCEPT ![k] = call]
Sent(k, op) == calls[k].phase = "sent" /\ calls[k].op = op /\ AuthGuard(calls[k].auth)
AsShown == UNCHANGED <<token, list, selected, units, asking, quote>>

\* listByUserId.  Read with nothing else under way, the list will be right.
GetMyShippingAddresses(k) ==
  /\ Sent(k, "load")
  /\ Move(k, [phase |-> "served", op |-> "load", list |-> DefaultsFirst(book)])
  /\ mixed' = (UnderWay # {k})
  /\ UNCHANGED <<bookVars, events>> /\ AsShown

CreateMyShippingAddress(k) ==
  /\ Sent(k, "create")
  /\ book' = Created(calls[k].row)
  /\ Move(k, [calls[k] EXCEPT !.phase = "served"])
  /\ UNCHANGED <<used, mixed, events>> /\ AsShown

DeleteMyShippingAddress(k) ==
  /\ Sent(k, "delete")
  /\ book' = Without(book, calls[k].id)
  /\ Move(k, [calls[k] EXCEPT !.phase = "served"])
  /\ UNCHANGED <<used, mixed, events>> /\ AsShown

\* 401 Token expired.
CallRefused(k) ==
  /\ calls[k].phase = "sent" /\ ~AuthGuard(calls[k].auth)
  /\ Move(k, [calls[k] EXCEPT !.phase = "failed"])
  /\ mixed' = TRUE
  /\ UNCHANGED <<bookVars, events>> /\ AsShown

\* The call or its answer is lost.
CallFails(k) ==
  /\ calls[k].phase \in {"sent", "served"}
  /\ Event
  /\ Move(k, [calls[k] EXCEPT !.phase = "failed"])
  /\ mixed' = TRUE
  /\ UNCHANGED bookVars /\ AsShown

Answered(k, op) == calls[k].phase = "served" /\ calls[k].op = op /\ Move(k, NoCall)

\* The selection stays when it is listed.
AddressesLoaded(k) ==
  /\ Answered(k, "load")
  /\ LET s == calls[k].list IN
       Show(s, IF selected \in IdsIn(s) THEN selected ELSE Preferred(s))
  /\ UNCHANGED <<bookVars, mixed, events>>

AddressCreated(k) ==
  /\ Answered(k, "create")
  /\ LET row == calls[k].row IN
       Show(DefaultsFirst(<<row>> \o Without(list, row.id)), row.id)
  /\ UNCHANGED <<bookVars, mixed, events>>

AddressDeleted(k) ==
  /\ Answered(k, "delete")
  /\ LET s == Without(calls[k].list, calls[k].id) IN Show(s, Preferred(s))
  /\ UNCHANGED <<bookVars, mixed, events>>

\* Only a failed loadAddresses changes what is shown.
CallFailed(k) ==
  /\ calls[k].phase = "failed"
  /\ Move(k, NoCall)
  /\ IF calls[k].op = "load" THEN Show(<<>>, Nobody) ELSE AsShown
  /\ UNCHANGED <<bookVars, mixed, events>>

Answer(k) == AddressesLoaded(k) \/ AddressCreated(k) \/ AddressDeleted(k) \/ CallFailed(k)
Serve(k) == GetMyShippingAddresses(k) \/ CreateMyShippingAddress(k)
            \/ DeleteMyShippingAddress(k) \/ CallRefused(k)

\* The customer changes the book with another browser.
ChangedElsewhere ==
  /\ Event
  /\ \/ \E id \in Ids \ used, mark \in BOOLEAN :
          book' = Created([id |-> id, default |-> mark]) /\ used' = used \cup {id}
     \/ \E id \in IdsIn(book) : book' = Without(book, id) /\ UNCHANGED used
  /\ mixed' = TRUE
  /\ UNCHANGED panelVars

ShippingNext ==
  \/ \E k \in Clicks :
       \/ Login(k) \/ HandleCreateAddress(k) \/ HandleDeleteAddress(k)
       \/ Serve(k) \/ CallFails(k) \/ Answer(k)
  \/ \E sel \in IdsIn(list) \cup {Nobody} : SelectAddress(sel)
  \/ \E n \in Units : CartChanges(n)
  \/ HandleLogout \/ TokenExpires \/ ChangedElsewhere
  \/ QuoteShipping \/ QuoteFails \/ LoadQuote

\* Some time after the addresses were loaded.
ShippingInit ==
  /\ \E n \in 0..Len(Saved), d \in BOOLEAN :
     LET s == [i \in 1..n |-> [id |-> Saved[i], default |-> d /\ i = 1]] IN
       book = s /\ list = s /\ used = IdsIn(s) /\ selected = Preferred(s)
  /\ token = "valid"
  /\ calls = [k \in Clicks |-> NoCall]
  /\ units \in Units
  /\ asking = NoCall
  /\ quote = IF Quoted(token, selected, units) THEN [id |-> selected, units |-> units]
                                               ELSE NoQuote
  /\ mixed = FALSE
  /\ events = 0

-----------------------------------------------------------------------------
(* Properties.                                                             *)

\* The page never reads the address book again after a change; what it shows
\* is the book all the same, in its order and with its default mark, and the
\* selected address exists: unless address calls overlapped or failed, or the
\* book was changed elsewhere, since the addresses were loaded.
PanelMatchesBook ==
  token # "none" /\ UnderWay = {} /\ ~mixed =>
    /\ list = DefaultsFirst(book)
    /\ selected \in IdsIn(book) \cup {Nobody}

=============================================================================
