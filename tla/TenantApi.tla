------------------------------ MODULE TenantApi ------------------------------
(***************************************************************************)
(* The requests of several businesses, from the bearer token to the rows    *)
(* they write: authentication (auth/), API keys, customers and the creation *)
(* of invoices.  A handler acts for the business the middleware has read,   *)
(* one or more queries earlier.                                             *)
(***************************************************************************)
EXTENDS LineItems, FiniteSets

CONSTANTS
  Businesses,      \* the tenants
  KeyPrefixes,     \* bound: the first 17 characters of a key
  Bodies,          \* bound: the rest of it
  SeedToken,       \* the key each business is set up with
  KeyIds,          \* bound: ids of api_keys
  SeedId,          \* the id of each business's first key
  CustomerIds,     \* bound: ids of customers
  Emails,          \* bound: email addresses, as text
  Folded,          \* an address as citext compares it
  NoEmail,         \* a customer without one
  InvoiceIds,      \* bound: ids of invoices
  Orders,          \* bound: line items a request may carry
  Requests         \* bound: concurrent requests

\* Token generation is random over 36 characters: any token may come up.  SHA-256 is
\* taken as injective, so comparing hashes compares tokens.
Tokens == KeyPrefixes \X Bodies

ASSUME TenantAssumption ==
  /\ SeedToken \in [Businesses -> Tokens]
  /\ SeedId \in [Businesses -> KeyIds]
  /\ \A b, c \in Businesses :
       b # c => SeedId[b] # SeedId[c] /\ SeedToken[b][1] # SeedToken[c][1]
  /\ Folded \in [Emails -> Emails]
  /\ NoEmail \notin Emails
  /\ Orders \subseteq Seq(LineItem)

VARIABLES
  keys,            \* api_keys
  customers,       \* customers
  invoices,        \* invoices with their line items
  outbox,          \* webhook_events
  requests,        \* local state of each request
  issued,          \* history: the business each token was handed to
  acted            \* history: <<token, business>> for every row written

vars == <<keys, customers, invoices, outbox, requests, issued, acted>>
tables == <<keys, customers, invoices, outbox, issued, acted>>

-----------------------------------------------------------------------------
\* An id that no row has yet.
Free == [business |-> "nobody"]

\* Nothing writes expires_at, so no key expires; last_used_at is read by nobody.
KeyRow == [business : Businesses, token : Tokens, revoked : BOOLEAN]

CustomerRow == [business : Businesses, email : Emails \cup {NoEmail}]

InvoiceRow == [business : Businesses, customer : CustomerIds, items : Orders,
               amounts : Seq(Nat), total_cents : Nat]

EventRow == [business : Businesses, invoice : InvoiceIds, total_cents : Nat]

Results == {"none", "ok", "unauthorized", "not_found", "conflict", "validation_error",
            "internal_error"}

RequestState ==
  [pc : {"idle"}, result : Results]
    \cup [pc : {"handler"}, business : Businesses, token : Tokens]
    \cup [pc : {"insert"}, business : Businesses, token : Tokens, customer : CustomerIds,
          items : Orders]

Init ==
  /\ keys = [k \in KeyIds |->
               IF \E b \in Businesses : SeedId[b] = k
               THEN LET b == CHOOSE b \in Businesses : SeedId[b] = k
                    IN  [business |-> b, token |-> SeedToken[b], revoked |-> FALSE]
               ELSE Free]
  /\ customers = [c \in CustomerIds |-> Free]
  /\ invoices = [i \in InvoiceIds |-> Free]
  /\ outbox = {}
  /\ requests = [r \in Requests |-> [pc |-> "idle", result |-> "none"]]
  /\ issued = {<<SeedToken[b], b>> : b \in Businesses}
  /\ acted = {}

Answer(r, result) == requests' = [requests EXCEPT ![r] = [pc |-> "idle", result |-> result]]

\* The request in its handler writes a row of its business.
Acts(r) == acted' = acted \cup {<<requests[r].token, requests[r].business>>}

-----------------------------------------------------------------------------
(* require_api_key                                                         *)

derive_prefix(token) == token[1]

\* Faulty: revoked_at is not looked at.
VerifiesRevoked(k, token) ==
  /\ keys[k] # Free
  /\ derive_prefix(keys[k].token) = derive_prefix(token)
  /\ keys[k].token = token

\* The row found by prefix, active, whose hash is that of the token.
Verifies(k, token) ==
  /\ keys[k] # Free
  /\ derive_prefix(keys[k].token) = derive_prefix(token)
  /\ ~keys[k].revoked
  /\ keys[k].token = token

Authenticate(r, token) ==
  /\ requests[r].pc = "idle"
  /\ \E k \in KeyIds :
       /\ Verifies(k, token)
       /\ requests' = [requests EXCEPT ![r] =
                         [pc |-> "handler", business |-> keys[k].business, token |-> token]]
  /\ UNCHANGED tables

\* No such key, a revoked one, or another secret behind the same prefix.
Unauthorized(r, token) ==
  /\ requests[r].pc = "idle"
  /\ \A k \in KeyIds : ~Verifies(k, token)
  /\ Answer(r, "unauthorized")
  /\ UNCHANGED tables

-----------------------------------------------------------------------------
(* /v1/api-keys                                                            *)

\* Faulty: the index covers active keys only.
PrefixTakenByActive(prefix) ==
  \E k \in KeyIds :
    keys[k] # Free /\ derive_prefix(keys[k].token) = prefix /\ ~keys[k].revoked

\* uq_api_keys_prefix
PrefixTaken(prefix) ==
  \E k \in KeyIds : keys[k] # Free /\ derive_prefix(keys[k].token) = prefix

CreateKey(r, k, token) ==
  /\ requests[r].pc = "handler"
  /\ keys[k] = Free /\ ~PrefixTaken(derive_prefix(token))
  /\ keys' = [keys EXCEPT ![k] = [business |-> requests[r].business, token |-> token,
                                  revoked |-> FALSE]]
  /\ issued' = issued \cup {<<token, requests[r].business>>}
  /\ Acts(r)
  /\ Answer(r, "ok")
  /\ UNCHANGED <<customers, invoices, outbox>>

CreateKeyCollides(r, token) ==
  /\ requests[r].pc = "handler"
  /\ PrefixTaken(derive_prefix(token))
  /\ Answer(r, "internal_error")
  /\ UNCHANGED tables

\* Faulty: any id is revoked, whosever it is.
RevocableByAnyone(r, k) == keys[k] # Free /\ ~keys[k].revoked

\* The WHERE clause of revoke.
Revocable(r, k) ==
  keys[k] # Free /\ keys[k].business = requests[r].business /\ ~keys[k].revoked

RevokeKey(r, k) ==
  /\ requests[r].pc = "handler"
  /\ Revocable(r, k)
  /\ keys' = [keys EXCEPT ![k] = [@ EXCEPT !.revoked = TRUE]]
  /\ Acts(r)
  /\ Answer(r, "ok")
  /\ UNCHANGED <<customers, invoices, outbox, issued>>

RevokeNotFound(r, k) ==
  /\ requests[r].pc = "handler"
  /\ ~Revocable(r, k)
  /\ Answer(r, "not_found")
  /\ UNCHANGED tables

-----------------------------------------------------------------------------
(* /v1/customers                                                           *)

\* uq_customers_business_email
EmailTaken(b, email) ==
  /\ email # NoEmail
  /\ \E c \in CustomerIds :
       /\ customers[c] # Free
       /\ customers[c].business = b /\ customers[c].email # NoEmail
       /\ Folded[customers[c].email] = Folded[email]

CreateCustomer(r, c, email) ==
  /\ requests[r].pc = "handler"
  /\ customers[c] = Free /\ ~EmailTaken(requests[r].business, email)
  /\ customers' = [customers EXCEPT ![c] = [business |-> requests[r].business, email |-> email]]
  /\ Acts(r)
  /\ Answer(r, "ok")
  /\ UNCHANGED <<keys, invoices, outbox, issued>>

CustomerExists(r, email) ==
  /\ requests[r].pc = "handler"
  /\ EmailTaken(requests[r].business, email)
  /\ Answer(r, "conflict")
  /\ UNCHANGED tables

\* An implausible address, or neither name nor address.
CustomerInvalid(r) ==
  /\ requests[r].pc = "handler"
  /\ Answer(r, "validation_error")
  /\ UNCHANGED tables

-----------------------------------------------------------------------------
(* POST /v1/invoices                                                       *)

\* Faulty: the customer may be anybody's.
HasCustomerAnyone(b, c) == customers[c] # Free

\* SELECT EXISTS(.. WHERE id AND business_id), outside the transaction.
HasCustomer(b, c) == customers[c] # Free /\ customers[c].business = b

InvoiceInvalid(r, items) ==
  /\ requests[r].pc = "handler"
  /\ ~ValidItems(items)
  /\ Answer(r, "validation_error")
  /\ UNCHANGED tables

CustomerNotFound(r, c, items) ==
  /\ requests[r].pc = "handler"
  /\ ValidItems(items) /\ ~HasCustomer(requests[r].business, c)
  /\ Answer(r, "not_found")
  /\ UNCHANGED tables

CheckInvoice(r, c, items) ==
  /\ requests[r].pc = "handler"
  /\ ValidItems(items) /\ HasCustomer(requests[r].business, c)
  /\ requests' = [requests EXCEPT ![r] =
                    [pc |-> "insert", business |-> requests[r].business,
                     token |-> requests[r].token, customer |-> c, items |-> items]]
  /\ UNCHANGED tables

\* invoice.created, its payload carrying the total sync_total returned.
CreatedEvent(r, i) ==
  [business |-> requests[r].business, invoice |-> i, total_cents |-> Sum(Amounts(requests[r].items))]

\* One transaction: the invoice, its line items, the total, the event.  The CHECKs of
\* the tables (quantity > 0, no negative price or total) ask again what
\* validate_line_items has asked and are left out: the model relies on the first alone.
InsertInvoice(r, i) ==
  LET req == requests[r]
  IN  /\ req.pc = "insert"
      /\ invoices[i] = Free
      /\ Representable(req.items)
      /\ invoices' = [invoices EXCEPT ![i] =
                        [business |-> req.business, customer |-> req.customer,
                         items |-> req.items, amounts |-> Amounts(req.items),
                         total_cents |-> Sum(Amounts(req.items))]]
      /\ outbox' = outbox \cup {CreatedEvent(r, i)}
      /\ Acts(r)
      /\ Answer(r, "ok")
      /\ UNCHANGED <<keys, customers, issued>>

\* Faulty: the event is written outside the transaction.
InsertOverflowsEmitted(r) ==
  /\ requests[r].pc = "insert"
  /\ ~Representable(requests[r].items)
  /\ outbox' = outbox \cup {CreatedEvent(r, i) : i \in InvoiceIds}
  /\ Answer(r, "internal_error")
  /\ UNCHANGED <<keys, customers, invoices, issued, acted>>

\* A product or the sum exceeds bigint: everything is rolled back.
InsertOverflows(r) ==
  /\ requests[r].pc = "insert"
  /\ ~Representable(requests[r].items)
  /\ Answer(r, "internal_error")
  /\ UNCHANGED tables

\* The client disconnects, the process dies or a statement fails: an open
\* transaction is rolled back.
Abandon(r) ==
  /\ requests[r].pc # "idle"
  /\ Answer(r, "none")
  /\ UNCHANGED tables

Next ==
  \E r \in Requests :
    \/ \E token \in Tokens :
         \/ Authenticate(r, token) \/ Unauthorized(r, token)
         \/ CreateKeyCollides(r, token)
         \/ \E k \in KeyIds : CreateKey(r, k, token)
    \/ \E k \in KeyIds : RevokeKey(r, k) \/ RevokeNotFound(r, k)
    \/ \E email \in Emails \cup {NoEmail} :
         CustomerExists(r, email) \/ \E c \in CustomerIds : CreateCustomer(r, c, email)
    \/ CustomerInvalid(r)
    \/ \E items \in Orders :
         \/ InvoiceInvalid(r, items)
         \/ \E c \in CustomerIds : CustomerNotFound(r, c, items) \/ CheckInvoice(r, c, items)
    \/ \E i \in InvoiceIds : InsertInvoice(r, i)
    \/ InsertOverflows(r) \/ Abandon(r)

Spec == Init /\ [][Next]_vars

-----------------------------------------------------------------------------
(* Properties                                                              *)

\* Tables and requests keep their shapes.
TypeOK ==
  /\ keys \in [KeyIds -> KeyRow \cup {Free}]
  /\ customers \in [CustomerIds -> CustomerRow \cup {Free}]
  /\ invoices \in [InvoiceIds -> InvoiceRow \cup {Free}]
  /\ outbox \subseteq EventRow
  /\ requests \in [Requests -> RequestState]
  /\ issued \subseteq Tokens \X Businesses
  /\ acted \subseteq Tokens \X Businesses

\* Whoever writes for a business holds a token that was handed to it, and no token
\* is ever handed to two: rows are found by prefix, and the prefix of a revoked key
\* stays taken.
ActsForOwner ==
  /\ acted \subseteq issued
  /\ \A p, q \in issued : p[1] = q[1] => p[2] = q[2]

\* A key is revoked by a request of its own business, for good, and is otherwise
\* never rewritten.
RevokedByOwner ==
  [][\A k \in KeyIds :
       keys[k] # Free /\ keys'[k] # keys[k] =>
         /\ keys'[k] = [keys[k] EXCEPT !.revoked = TRUE]
         /\ \E r \in Requests :
              /\ requests[r].pc = "handler" /\ requests'[r].pc = "idle"
              /\ requests[r].business = keys[k].business]_vars

\* A revoked token never opens a request again, although keys are found by prefix and
\* any token may be generated anew.  (A request opened before goes on: the middleware
\* reads the key once.)
RevokedForGood ==
  [][\A r \in Requests, k \in KeyIds :
       /\ requests[r].pc = "idle" /\ requests'[r].pc = "handler"
       /\ keys[k] # Free /\ keys[k].revoked
       => keys[k].token # requests'[r].token]_vars

\* An invoice's customer is of the invoice's business, although the check runs
\* before the transaction and the foreign key names no business.
OwnCustomers ==
  \A i \in InvoiceIds :
    invoices[i] # Free => /\ customers[invoices[i].customer] # Free
                          /\ customers[invoices[i].customer].business = invoices[i].business

\* Amounts and total of an invoice are those of its items.
Exact(row) ==
  LET Product(n) == row.items[n].quantity * row.items[n].unit_amount_cents
  IN  /\ \A n \in DOMAIN row.items : row.amounts[n] = Product(n)
      /\ row.total_cents = MapThenSumSet(Product, DOMAIN row.items)
      /\ row.total_cents \in 0 .. MaxBigint

\* A stored amount is the exact product and a stored total the exact sum: an
\* overflow of either never reaches the books.
ExactTotals == \A i \in InvoiceIds : invoices[i] # Free => Exact(invoices[i])

\* There is one invoice.created for each invoice, of the same business and with the
\* same total, and none for an invoice that was rolled back.
CreatedOnce ==
  /\ \A e \in outbox : /\ invoices[e.invoice] # Free
                       /\ invoices[e.invoice].business = e.business
                       /\ invoices[e.invoice].total_cents = e.total_cents
  /\ \A i \in InvoiceIds :
       invoices[i] # Free => Cardinality({e \in outbox : e.invoice = i}) = 1

-----------------------------------------------------------------------------
(* The inductive invariant                                                 *)

\* Tokens and key rows correspond one to one, and a prefix finds one row.
KeysIssued ==
  /\ \A k \in KeyIds : keys[k] # Free => <<keys[k].token, keys[k].business>> \in issued
  /\ \A p \in issued : \E k \in KeyIds :
       keys[k] # Free /\ keys[k].token = p[1] /\ keys[k].business = p[2]
  /\ \A j, k \in KeyIds :
       /\ keys[j] # Free /\ keys[k] # Free
       /\ derive_prefix(keys[j].token) = derive_prefix(keys[k].token)
       => j = k

\* What a request has read still holds when it is used: its token is its business's, and
\* what it is about to insert was checked.
RequestsSound ==
  \A r \in Requests :
    /\ requests[r].pc # "idle" => <<requests[r].token, requests[r].business>> \in issued
    /\ requests[r].pc = "insert" =>
         /\ HasCustomer(requests[r].business, requests[r].customer)
         /\ ValidItems(requests[r].items)

\* Rows, tokens and the requests that act on them belong together as they were written.
TenantInv ==
  /\ TypeOK
  /\ KeysIssued
  /\ RequestsSound
  /\ ActsForOwner
  /\ OwnCustomers
  /\ ExactTotals
  /\ CreatedOnce
=============================================================================
