----------------------------- MODULE Endpoints -----------------------------
(* Whose rows a request reaches (apps/api/src/app.ts): the principals a    *)
(* route admits, the tenant filter of its query, and the lists that are     *)
(* read page by page with a cursor (packages/database/src/identity.ts and   *)
(* registry.ts, packages/client/src/client.ts).                             *)
(*                                                                          *)
(* One caller, with credentials that ApiGate has let in, reads one list to  *)
(* its end while rows are added, and calls the other routes in between.  A  *)
(* row's time is the one its request took on arrival, so rows appear out of *)
(* the order of their times.  An address belongs to one network.            *)
EXTENDS Integers, Sequences, FiniteSets

CONSTANTS
  ListApps, CallersApp, Addresses, TestnetAddresses,
  RowIds,            \* a number stands for an id that compares as text
  CreatedTimes,
  PageLimit, MaxPages

NoOwner == "none"

ASSUME EndpointsAssumption ==
  /\ CallersApp \in ListApps /\ NoOwner \notin ListApps \union Addresses /\ TestnetAddresses \subseteq Addresses
  /\ RowIds \subseteq Nat /\ CreatedTimes \subseteq Nat
  /\ {PageLimit, MaxPages} \subseteq Nat \ {0}

VARIABLES
  caller,            \* the principal
  listRead,            \* the list the caller reads: its workflows, or the markets
  asked,             \* the owner and the network its requests name
  listRows,          \* the rows of that list
  paging,            \* the rows returned so far, the cursor, and the rows there were at the first page
  reached            \* whose row another route has shown or changed last

endpointVars == <<caller, listRead, asked, listRows, paging, reached>>

NetworkOf(address) == IF address \in TestnetAddresses THEN "testnet" ELSE "mainnet"
Networks == {"mainnet", "testnet"}
AllScopes == {"markets:read", "positions:read", "quotes:write", "workflows:write", "webhooks:manage"}

\* A key speaks for its app, a session for one address in it, a client id for the app's pages.
Principals ==
  [kind : {"key"}, app : {CallersApp}, address : {NoOwner}, scopes : {AllScopes, {"markets:read"}}]
    \union [kind : {"session"}, app : {CallersApp}, address : Addresses, scopes : {{}}]
    \union [kind : {"client"}, app : {CallersApp}, address : {NoOwner}, scopes : {{}}]

Rows == [id : RowIds, app : ListApps, owner : Addresses, createdAt : CreatedTimes]
NoCursor == [id |-> -1, createdAt |-> -1]

NotReached == [app |-> NoOwner, owner |-> NoOwner]

EndpointsInit ==
  /\ caller \in Principals /\ listRead \in {"workflows", "markets"}
  /\ asked \in [owner : Addresses \union {NoOwner}, network : Networks]
  /\ listRows = {}
  /\ paging = [stage |-> "first", items |-> <<>>, cursor |-> NoCursor, pages |-> 0, atStart |-> {}]
  /\ reached = NotReached

-----------------------------------------------------------------------------
(* What a route asks of its caller. *)

\* requireScope: only keys have scopes.
HasScope(scope) == caller.kind = "key" => scope \in caller.scopes

MayListMarkets == HasScope("markets:read")
MayUseWorkflows == caller.kind # "client" /\ HasScope("workflows:write")
MayReadPositions == caller.kind # "client" /\ HasScope("positions:read")

\* A session is for one network; the list of workflows and the risk of a market do not ask which.
OnItsNetwork == caller.kind = "session" => NetworkOf(caller.address) = asked.network

\* Whose rows: a session's own whatever it asks for, a key's as asked.
OwnerFilter == IF caller.kind = "session" THEN caller.address ELSE asked.owner

\* The tenant filter is part of the query.
OfTenant(row, owner) == row.app = caller.app /\ (owner = NoOwner \/ row.owner = owner)

\* The rows of the list: of one network, and for workflows of the tenant.
InList(row) ==
  /\ NetworkOf(row.owner) = asked.network
  /\ listRead = "workflows" => OfTenant(row, OwnerFilter)

-----------------------------------------------------------------------------
(* Rows appear. *)

\* A workflow is inserted with the time its request began, a market by a release of the registry.
RowIsAdded ==
  /\ \E row \in Rows :
       /\ \A other \in listRows : other.id # row.id
       /\ listRead = "markets" => row.app = caller.app /\ row.createdAt = CHOOSE t \in CreatedTimes : TRUE
       /\ listRows' = listRows \union {row}
  /\ UNCHANGED <<caller, listRead, asked, paging, reached>>

-----------------------------------------------------------------------------
(* A list, page by page. *)

\* Newest first by time and id for workflows, by id for markets.
Precedes(a, b) ==
  IF listRead = "workflows" THEN a.createdAt > b.createdAt \/ (a.createdAt = b.createdAt /\ a.id > b.id)
  ELSE a.id < b.id

\* The mutated form: the cursor carries the time alone.
BeyondTime(cursor, row) ==
  cursor = NoCursor \/ (IF listRead = "workflows" THEN row.createdAt < cursor.createdAt ELSE cursor.id < row.id)
\* listWorkflowsForTenant, listMarkets, listCapabilities: the rows after the last key.
Beyond(cursor, row) == cursor = NoCursor \/ Precedes(cursor, row)

\* The first rows beyond the cursor, in order: one more than the limit, to learn whether there is another page.
Fetched(page) ==
  LET beyond == {row \in listRows : InList(row) /\ Beyond(paging.cursor, row)}
      shown == {page[n] : n \in DOMAIN page}
  IN  /\ shown \subseteq beyond
      /\ \A m, n \in DOMAIN page : m < n => Precedes(page[m], page[n])
      /\ \A row \in beyond \ shown : Len(page) = PageLimit + 1 /\ \A n \in DOMAIN page : Precedes(page[n], row)

\* The cursor a route's answer carries: the key of its last row, when there are more.
NextCursor(fits, more) ==
  IF more THEN [id |-> fits[Len(fits)].id, createdAt |-> fits[Len(fits)].createdAt] ELSE NoCursor

\* The route's page: a client asks for another one while there is a cursor.
ReadPage ==
  /\ paging.stage \in {"first", "next"}
  /\ IF listRead = "markets" THEN MayListMarkets ELSE MayUseWorkflows
  /\ \E length \in 0..(PageLimit + 1) : \E page \in [1..length -> listRows] :
       LET more == length > PageLimit
           fits == SubSeq(page, 1, IF more THEN PageLimit ELSE length)
       IN  /\ Fetched(page)
           /\ paging' = [stage |-> IF ~more THEN "done"
                                   ELSE IF paging.pages + 1 = MaxPages THEN "unfinished" ELSE "next",
                         items |-> paging.items \o fits,
                         cursor |-> NextCursor(fits, more),
                         pages |-> paging.pages + 1,
                         atStart |-> IF paging.stage = "first" THEN {row \in listRows : InList(row)} ELSE paging.atStart]
  /\ UNCHANGED <<caller, listRead, asked, listRows, reached>>

-----------------------------------------------------------------------------
(* The other routes. *)

Reaches(app, owner) ==
  /\ reached' = [app |-> app, owner |-> owner]
  /\ UNCHANGED <<caller, listRead, asked, listRows, paging>>

\* findWorkflowForTenant; another tenant's workflow is not found.
FoundForTenant(row) == listRead = "workflows" /\ OfTenant(row, caller.address) /\ NetworkOf(row.owner) = asked.network

ReadOneWorkflow(row) == MayUseWorkflows /\ OnItsNetwork /\ FoundForTenant(row) /\ Reaches(row.app, row.owner)

\* A report of a signature finds its workflow by the same query; nothing else is asked of its network.
ReportSignature(row) == MayUseWorkflows /\ FoundForTenant(row) /\ Reaches(row.app, row.owner)

\* Positions, portfolio and performance of one owner, whom a key must name.
ReadPositions ==
  /\ MayReadPositions /\ OnItsNetwork /\ OwnerFilter # NoOwner
  /\ Reaches(caller.app, OwnerFilter)

\* A market's evidence and the prices of a network: rows that belong to nobody.
ReadShared ==
  /\ MayListMarkets
  /\ reached' = NotReached
  /\ UNCHANGED <<caller, listRead, asked, listRows, paging>>

\* The risk of a market, for an owner when there is one.
ReadRisk == MayReadPositions /\ Reaches(caller.app, OwnerFilter)

\* A quote, a plan and a start are for the session's address, or for the owner a key names.
ActFor ==
  /\ caller.kind # "client" /\ \E scope \in {"quotes:write", "workflows:write"} : HasScope(scope)
  /\ OnItsNetwork /\ OwnerFilter # NoOwner
  /\ Reaches(caller.app, OwnerFilter)

\* An endpoint is created for, listed for and deleted from the app of a key; no session manages one.
ManageWebhooks == caller.kind = "key" /\ HasScope("webhooks:manage") /\ Reaches(caller.app, NoOwner)

EndpointsNext ==
  \/ RowIsAdded \/ ReadPage \/ ReadPositions \/ ReadShared \/ ReadRisk \/ ActFor \/ ManageWebhooks
  \/ \E row \in listRows : ReadOneWorkflow(row) \/ ReportSignature(row)

EndpointsSpec == EndpointsInit /\ [][EndpointsNext]_endpointVars

-----------------------------------------------------------------------------

\* Caller, rows and paging keep their types, and ids are unique.
EndpointsTypeOK ==
  /\ caller \in Principals /\ listRead \in {"workflows", "markets"}
  /\ listRows \subseteq Rows /\ \A a, b \in listRows : a.id = b.id => a = b
  /\ paging.stage \in {"first", "next", "done", "unfinished"} /\ paging.pages \in 0..MaxPages
  /\ paging.items \in Seq(listRows) /\ paging.atStart \subseteq listRows
  /\ reached \in [app : ListApps \union {NoOwner}, owner : Addresses \union {NoOwner}]

\* A list followed to its end has given every row the caller had when it began, once, though rows are
\* added between its pages, many at one time and out of the order of their times; a list cut short says so.
\* And no page and no other route gives a session more than its own address in its app, or a key a workflow
\* of another app (the tenant filters and keyset cursors of identity.ts, registry.ts and app.ts).
OwnRowsOnce ==
  /\ \A i, j \in DOMAIN paging.items : i < j => paging.items[i] # paging.items[j]
  /\ paging.stage = "done" => \A row \in paging.atStart : \E i \in DOMAIN paging.items : paging.items[i] = row
  /\ listRead = "workflows" => \A i \in DOMAIN paging.items :
       /\ paging.items[i].app = caller.app
       /\ caller.kind = "session" => paging.items[i].owner = caller.address
  /\ reached # NotReached => reached.app = caller.app /\ (caller.kind = "session" => reached.owner = caller.address)
=============================================================================
