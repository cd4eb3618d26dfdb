------------------------------ MODULE ReadRoutes ------------------------------
(***************************************************************************)
(* The routes of the read path: from the page (lib/api/indexer.ts) to the  *)
(* gateway's controllers, services and providers, over the indexer's       *)
(* private controllers to its queries.  Each layer is a table from what it *)
(* is asked for to what it asks of the next; the steps that use the tables *)
(* are RequestPipeline's.                                                  *)
(***************************************************************************)
EXTENDS Integers, FiniteSets, FiniteSetsExt

CONSTANTS
  DefaultLimit, MaxLimit,  \* 100 and 1000, the bounds of the DTOs
  ShownRows                \* 10, the rows of TransactionHistory

ASSUME LimitsInOrder == /\ {DefaultLimit, MaxLimit, ShownRows} \subseteq Nat \ {0}
                        /\ ShownRows <= DefaultLimit /\ DefaultLimit <= MaxLimit

None == "none"
NoLimit == -1   \* a limit that is not given

(* An address is [name, spelling]: spelled in lower or mixed case, or malformed. *)
ToLowerCase(address) == [address EXCEPT !.spelling = "lower"]

-----------------------------------------------------------------------------
(* The page.  A list or a total that cannot be fetched is shown as empty   *)
(* or 0; the events' methods throw.                                        *)
Fetches(route, limit, otherwise) == [route |-> route, limit |-> limit, otherwise |-> otherwise]

IndexerAPIClient ==
  [getDepositsByUser |-> Fetches("deposits", DefaultLimit, "empty"),
   getWithdrawalsByUser |-> Fetches("withdrawals", DefaultLimit, "empty"),
   getTotalDeposited |-> Fetches("totalDeposited", NoLimit, "empty"),
   getTotalWithdrawn |-> Fetches("totalWithdrawn", NoLimit, "empty"),
   getLoansByUser |-> Fetches("loans", DefaultLimit, "empty"),
   getActiveLoansByUser |-> Fetches("activeLoans", NoLimit, "empty"),
   getRepaymentsByUser |-> Fetches("repayments", DefaultLimit, "empty"),
   getTotalBorrowed |-> Fetches("totalBorrowed", NoLimit, "empty"),
   getRecentEvents |-> Fetches("events", DefaultLimit, "throw"),
   getEventsByType |-> Fetches("eventsByType", DefaultLimit, "throw"),
   getEventsByTransaction |-> Fetches("eventsByTransaction", NoLimit, "throw")]

(* The queries of the hooks, each kept under its name and the address.     *)
UseDeposits == [deposits |-> "getDepositsByUser", withdrawals |-> "getWithdrawalsByUser",
                totalDeposited |-> "getTotalDeposited", totalWithdrawn |-> "getTotalWithdrawn"]
UseLoans == [loans |-> "getLoansByUser", activeLoans |-> "getActiveLoansByUser",
             repayments |-> "getRepaymentsByUser", totalBorrowed |-> "getTotalBorrowed"]

QueryFn(key, address) ==
  LET method == IF key \in DOMAIN UseDeposits THEN UseDeposits[key] ELSE UseLoans[key]
      fetch == IndexerAPIClient[method]
  IN [route |-> fetch.route, value |-> ToLowerCase(address), limit |-> fetch.limit]

-----------------------------------------------------------------------------
(* The gateway.  "query": ?limit is read; "default": the DTO's default is  *)
(* always taken, since limit is looked for in the path; None: no limit.    *)
Route(param, limit, method) == [param |-> param, limit |-> limit, method |-> method]

DepositsController ==
  [deposits |-> Route("userAddress", "query", "getUserDeposits"),
   withdrawals |-> Route("userAddress", "query", "getUserWithdrawals"),
   totalDeposited |-> Route("userAddress", None, "getTotalDeposited"),
   totalWithdrawn |-> Route("userAddress", None, "getTotalWithdrawn")]

LoansController ==
  [loans |-> Route("userAddress", "query", "getUserLoans"),
   activeLoans |-> Route("userAddress", None, "getActiveUserLoans"),
   totalBorrowed |-> Route("userAddress", None, "getTotalBorrowed"),
   repayments |-> Route("userAddress", "query", "getRepaymentsByUser"),
   liquidations |-> Route("borrowerAddress", "query", "getLiquidationsByBorrower")]

EventsController ==
  [events |-> Route(None, "query", "getRecentEvents"),
   eventsByType |-> Route("eventType", "default", "getEventsByType"),
   eventsByBlock |-> Route("blockNumber", None, "getEventsByBlock"),
   eventsByTransaction |-> Route("transactionHash", None, "getEventsByTransaction")]

Routes == DOMAIN DepositsController \cup DOMAIN LoansController \cup DOMAIN EventsController

Controller(route) ==
  CASE route \in DOMAIN DepositsController -> DepositsController[route]
    [] route \in DOMAIN LoansController -> LoansController[route]
    [] route \in DOMAIN EventsController -> EventsController[route]

(* Services rename; a provider names the indexer's path and its parameter, *)
(* and whether it sends a limit.                                           *)
DepositsService ==
  [getUserDeposits |-> "getDepositsByUser", getUserWithdrawals |-> "getWithdrawalsByUser",
   getTotalDeposited |-> "getTotalDeposited", getTotalWithdrawn |-> "getTotalWithdrawn"]
LoansService ==
  [getUserLoans |-> "getLoansByUser", getActiveUserLoans |-> "getActiveLoansByUser",
   getTotalBorrowed |-> "getTotalBorrowed", getRepaymentsByUser |-> "getRepaymentsByUser",
   getLiquidationsByBorrower |-> "getLiquidationsByBorrower"]
EventsService ==
  [m \in {"getRecentEvents", "getEventsByType", "getEventsByBlock", "getEventsByTransaction"} |-> m]

IndexerRoutes ==
  [deposits |-> [user |-> "userAddress", withdrawals |-> "userAddress",
                 totalDeposited |-> "userAddress", totalWithdrawn |-> "userAddress"],
   loans |-> [user |-> "userAddress", active |-> "userAddress", totalBorrowed |-> "userAddress",
              liquidations |-> "borrowerAddress", repayments |-> "userAddress"],
   events |-> [recent |-> None, type |-> "eventType", block |-> "blockNumber",
               tx |-> "transactionHash"]]

Get(url, path, limited) == [url |-> url, path |-> path, limited |-> limited]

DepositsProvider ==
  [getDepositsByUser |-> Get("deposits", "user", TRUE),
   getWithdrawalsByUser |-> Get("deposits", "withdrawals", TRUE),
   getTotalDeposited |-> Get("deposits", "totalDeposited", FALSE),
   getTotalWithdrawn |-> Get("deposits", "totalWithdrawn", FALSE)]
LoansProvider ==
  [getLoansByUser |-> Get("loans", "user", TRUE),
   getActiveLoansByUser |-> Get("loans", "active", FALSE),
   getTotalBorrowed |-> Get("loans", "totalBorrowed", FALSE),
   getRepaymentsByUser |-> Get("loans", "repayments", TRUE),
   getLiquidationsByBorrower |-> Get("loans", "liquidations", TRUE)]
EventsProvider ==
  [getRecentEvents |-> Get("events", "recent", TRUE),
   getEventsByType |-> Get("events", "type", TRUE),
   getEventsByBlock |-> Get("events", "block", FALSE),
   getEventsByTransaction |-> Get("events", "tx", FALSE)]

Provider(method) ==
  CASE method \in DOMAIN DepositsService -> DepositsProvider[DepositsService[method]]
    [] method \in DOMAIN LoansService -> LoansProvider[LoansService[method]]
    [] method \in DOMAIN EventsService -> EventsProvider[EventsService[method]]

(* What the gateway sends to the indexer for an accepted request.          *)
Forwarded(request) ==
  LET route == Controller(request.route)
      get == Provider(route.method)
  IN [url |-> get.url, path |-> get.path, value |-> request.value,
      limit |-> IF ~get.limited THEN NoLimit
                ELSE IF route.limit = "query" /\ request.limit # NoLimit THEN request.limit
                ELSE DefaultLimit]

-----------------------------------------------------------------------------
(* The indexer: the parameter that a private controller's DTO expects, and *)
(* the query it runs.                                                      *)
Private(param, limited, query) == [param |-> param, limited |-> limited, query |-> query]

PrivateDepositsController ==
  [user |-> Private("userAddress", TRUE, "getDepositsByUser"),
   withdrawals |-> Private("userAddress", TRUE, "getWithdrawalsByUser"),
   totalDeposited |-> Private("userAddress", FALSE, "getTotalDeposited"),
   totalWithdrawn |-> Private("userAddress", FALSE, "getTotalWithdrawn")]
PrivateLoansController ==
  [user |-> Private("userAddress", TRUE, "getLoansByUser"),
   active |-> Private("userAddress", FALSE, "getActiveLoansByUser"),
   totalBorrowed |-> Private("userAddress", FALSE, "getTotalBorrowed"),
   repayments |-> Private("userAddress", TRUE, "getRepaymentsByUser"),
   liquidations |-> Private("userAddress", TRUE, "getLiquidationsByBorrower")]
PrivateEventsController ==
  [recent |-> Private(None, TRUE, "getRecentEvents"),
   type |-> Private("eventType", TRUE, "getEventsByType"),
   block |-> Private("blockNumber", FALSE, "getEventsByBlock"),
   tx |-> Private("transactionHash", FALSE, "getEventsByTransaction")]

PrivateController(url, path) ==
  CASE url = "deposits" -> PrivateDepositsController[path]
    [] url = "loans" -> PrivateLoansController[path]
    [] url = "events" -> PrivateEventsController[path]

(* Rows, and the events written with them: a row is [table, user, time];   *)
(* its table stands for the event's type, its time for its block and its   *)
(* transaction.  A total is represented by the rows it adds up.            *)
Select(tables, by, newest) == [tables |-> tables, by |-> by, newest |-> newest]
Tables == {"deposits", "withdrawals", "loans", "repayments", "liquidations"}

DepositsQueries ==
  [getDepositsByUser |-> Select({"deposits"}, "user", TRUE),
   getWithdrawalsByUser |-> Select({"withdrawals"}, "user", TRUE),
   getTotalDeposited |-> Select({"deposits"}, "user", FALSE),
   getTotalWithdrawn |-> Select({"withdrawals"}, "user", FALSE)]
LoansQueries ==
  [getRepaymentsByUser |-> Select({"repayments"}, "user", TRUE),
   getLoansByUser |-> Select({"loans"}, "user", TRUE),
   getActiveLoansByUser |-> Select({"loans"}, "user", FALSE),
   getLiquidationsByBorrower |-> Select({"liquidations"}, "user", TRUE),
   getTotalBorrowed |-> Select({"loans"}, "user", FALSE)]
EventsQueries ==
  [getEventsByBlock |-> Select(Tables, "time", FALSE),
   getEventsByTransaction |-> Select(Tables, "time", FALSE),
   getEventsByType |-> Select(Tables, "table", TRUE),
   getRecentEvents |-> Select(Tables, None, TRUE)]

QueryOf(name) ==
  CASE name \in DOMAIN DepositsQueries -> DepositsQueries[name]
    [] name \in DOMAIN LoansQueries -> LoansQueries[name]
    [] name \in DOMAIN EventsQueries -> EventsQueries[name]

(* orderBy timestamp desc, take n: ties fall either way.                   *)
OldestOf(rows, n) ==
  {some \in SUBSET rows :
     /\ Cardinality(some) = IF Cardinality(rows) < n THEN Cardinality(rows) ELSE n
     /\ \A r \in some, other \in rows \ some : r.time <= other.time}
NewestOf(rows, n) ==
  {some \in SUBSET rows :
     /\ Cardinality(some) = IF Cardinality(rows) < n THEN Cardinality(rows) ELSE n
     /\ \A r \in some, other \in rows \ some : r.time >= other.time}

Matching(name, value, rows, closed) ==
  LET query == QueryOf(name) IN
  {r \in rows :
     /\ r.table \in query.tables
     /\ CASE query.by = "user" -> r.user = ToLowerCase(value)
          [] query.by = "table" -> r.table = value
          [] query.by = "time" -> r.time = value
          [] OTHER -> TRUE
     /\ name = "getActiveLoansByUser" => r \notin closed}

(* The answers an indexer with these rows may give to a query, the closed  *)
(* ones among them being the loans whose status is no longer ACTIVE.       *)
Found(name, value, limit, rows, closed) ==
  LET matching == Matching(name, value, rows, closed) IN
  IF QueryOf(name).newest
  THEN NewestOf(matching, IF limit = NoLimit THEN DefaultLimit ELSE limit)
  ELSE {matching}

-----------------------------------------------------------------------------
(* What the DTOs accept in a path or query parameter.                      *)
UserAddressParamDTO(address) == address.spelling # "malformed"
BorrowerAddressParamDTO(address) == address.spelling # "malformed"
GetEventsByTypeDTO(eventType) == eventType \in Tables
GetEventsByTransactionDTO(transaction) == transaction >= 0

PaginationQueryDTO == [min |-> 1, max |-> MaxLimit, isOptional |-> TRUE]
ApiPropertyNumber(dto, value) ==
  (dto.isOptional /\ value = NoLimit) \/ (dto.min <= value /\ value <= dto.max)
LimitAccepted(limit) == ApiPropertyNumber(PaginationQueryDTO, limit)

ParamAccepted(param, value) ==
  CASE param = "userAddress" -> UserAddressParamDTO(value)
    [] param = "borrowerAddress" -> BorrowerAddressParamDTO(value)
    [] param = "eventType" -> GetEventsByTypeDTO(value)
    [] param \in {"blockNumber", "transactionHash"} -> GetEventsByTransactionDTO(value)
    [] OTHER -> TRUE

AcceptedByGateway(request) ==
  LET route == Controller(request.route) IN
  /\ ParamAccepted(route.param, request.value)
  /\ route.limit = "query" => LimitAccepted(request.limit)

(* The DTO knows its own parameter only: one of another name is refused    *)
(* (forbidNonWhitelisted).                                                 *)
AcceptedByIndexer(request) ==
  LET private == PrivateController(request.url, request.path) IN
  /\ private.param = IndexerRoutes[request.url][request.path]
  /\ ParamAccepted(private.param, request.value)
  /\ private.limited => LimitAccepted(request.limit)
=============================================================================
