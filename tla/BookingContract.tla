-------------------------- MODULE BookingContract --------------------------
(***************************************************************************)
(* What POST expenses promises its clients, with no cache, store, ledger   *)
(* or outbox: a key books at most one expense, made from a request that    *)
(* carries the key, and a confirmation names an expense booked under the   *)
(* request's own key.  A request without a key books its own expense.      *)
(***************************************************************************)
EXTENDS Integers, Sequences

CONSTANTS Requests, Keys, NoKey, Bodies

VARIABLES
  key,       \* request -> its idempotency key
  body,      \* request -> its body
  bookings,  \* the expenses booked, never changed once there
  answer     \* request -> the number of the expense it got confirmed

vars == <<key, body, bookings, answer>>

Pending == 0    \* no answer yet
Refused == -1   \* 400, 409 or 500

Init ==
  /\ key  \in [Requests -> Keys \cup {NoKey}]
  /\ body \in [Requests -> Bodies]
  /\ bookings = << >>
  /\ answer = [r \in Requests |-> Pending]

NewBooking(r) == Append(bookings, [key |-> key[r], body |-> body[r]])

Book(r) ==
  /\ answer[r] = Pending
  /\ key[r] # NoKey
  /\ \A i \in DOMAIN bookings : bookings[i].key # key[r]
  /\ bookings' = NewBooking(r)
  /\ UNCHANGED <<key, body, answer>>

Confirm(r) ==
  /\ answer[r] = Pending
  /\ key[r] # NoKey
  /\ \E i \in DOMAIN bookings :
       /\ bookings[i].key = key[r]
       /\ answer' = [answer EXCEPT ![r] = i]
  /\ UNCHANGED <<key, body, bookings>>

BookWithoutKey(r) ==
  /\ answer[r] = Pending
  /\ key[r] = NoKey
  /\ bookings' = NewBooking(r)
  /\ answer' = [answer EXCEPT ![r] = Len(bookings) + 1]
  /\ UNCHANGED <<key, body>>

Refuse(r) ==
  /\ answer[r] = Pending
  /\ answer' = [answer EXCEPT ![r] = Refused]
  /\ UNCHANGED <<key, body, bookings>>

Next == \E r \in Requests :
          Book(r) \/ Confirm(r) \/ BookWithoutKey(r) \/ Refuse(r)

Spec == Init /\ [][Next]_vars
=============================================================================
