-------------------------- MODULE MCService_proofs --------------------------
(* The API, the clients, the adapters and the portfolio side by side, as    *)
(* TLC explores them (MCService): what the run checks of small instances    *)
(* follows, for every value of the constants, from the theorems about each. *)
EXTENDS MCService, Service_proofs, Client_proofs, Adapters_proofs

---------------------------------------------------------------------------
(* Every behaviour of the run is one of each component. *)

\* What a step of the run is for each: a step of its own, or none.
LEMMA RunStepIsOfEach ==
  ASSUME [Next]_serviceVars
  PROVE  /\ [AdmissionNext]_admissionVars /\ [GateNext]_gateVars /\ [WebhooksNext]_webhookVars
         /\ [CacheNext]_cacheVars /\ [RequestsNext]_requestVars /\ [DepositNext]_depositVars
         /\ [WithdrawalNext]_withdrawalVars /\ [CreditNext]_creditVars /\ [SdkNext]_sdkVars
         /\ [PortfolioNext]_portfolioVars /\ [ScreensNext]_screenVars /\ [RoutesNext]_routeVars
         /\ [EndpointsNext]_endpointVars /\ [PerformanceNext]_performanceVars
<1>1. CASE Next
  BY <1>1 DEF Next, Rest
<1>2. CASE UNCHANGED serviceVars
  BY <1>2 DEF serviceVars
<1> QED BY <1>1, <1>2

LEMMA RunIsOfTheApi == Spec => AdmissionSpec /\ GateSpec /\ WebhooksSpec /\ EndpointsSpec /\ PerformanceSpec
<1>1. Init => AdmissionInit /\ GateInit /\ WebhooksInit /\ EndpointsInit /\ PerformanceInit
  BY DEF Init
<1>2. [Next]_serviceVars => /\ [AdmissionNext]_admissionVars /\ [GateNext]_gateVars /\ [WebhooksNext]_webhookVars
                            /\ [EndpointsNext]_endpointVars /\ [PerformanceNext]_performanceVars
  BY RunStepIsOfEach
<1> QED BY <1>1, <1>2, PTL DEF Spec, AdmissionSpec, GateSpec, WebhooksSpec, EndpointsSpec, PerformanceSpec

LEMMA RunIsOfTheClients == Spec => CacheSpec /\ RequestsSpec /\ SdkSpec /\ ScreensSpec
<1>1. Init => CacheInit /\ RequestsInit /\ SdkInit /\ ScreensInit
  BY DEF Init
<1>2. [Next]_serviceVars => /\ [CacheNext]_cacheVars /\ [RequestsNext]_requestVars
                            /\ [SdkNext]_sdkVars /\ [ScreensNext]_screenVars
  BY RunStepIsOfEach
<1> QED BY <1>1, <1>2, PTL DEF Spec, CacheSpec, RequestsSpec, SdkSpec, ScreensSpec

LEMMA RunIsOfTheAdapters == Spec => DepositSpec /\ WithdrawalSpec /\ CreditSpec /\ RoutesSpec /\ PortfolioSpec
<1>1. Init => DepositInit /\ WithdrawalInit /\ CreditInit /\ RoutesInit /\ PortfolioInit
  BY DEF Init
<1>2. [Next]_serviceVars => /\ [DepositNext]_depositVars /\ [WithdrawalNext]_withdrawalVars /\ [CreditNext]_creditVars
                            /\ [RoutesNext]_routeVars /\ [PortfolioNext]_portfolioVars
  BY RunStepIsOfEach
<1> QED BY <1>1, <1>2, PTL DEF Spec, DepositSpec, WithdrawalSpec, CreditSpec, RoutesSpec, PortfolioSpec

---------------------------------------------------------------------------
(* What the run checks. *)

\* Every variable of the service keeps its type, whatever the constants.
THEOREM ServiceKeepsItsTypes == Spec => []TypeOK
<1>1. /\ AdmissionTypeOK /\ GateTypeOK /\ WebhooksTypeOK /\ EndpointsTypeOK /\ PerformanceTypeOK
      /\ CacheTypeOK /\ RequestsTypeOK /\ SdkTypeOK /\ ScreensTypeOK
      /\ DepositTypeOK /\ WithdrawalTypeOK /\ CreditTypeOK /\ RoutesTypeOK /\ PortfolioTypeOK
      => TypeOK
  BY DEF TypeOK
<1>2. Spec => []AdmissionTypeOK /\ []GateTypeOK /\ []WebhooksTypeOK /\ []EndpointsTypeOK /\ []PerformanceTypeOK
  BY RunIsOfTheApi, AdmissionTypes, LimitIsNeverPassed, GivenUpAfterAllTries, OwnRowsAreGivenOnce,
     NoYieldIsInvented, PTL
<1>3. Spec => []CacheTypeOK /\ []RequestsTypeOK /\ []SdkTypeOK /\ []ScreensTypeOK
  BY RunIsOfTheClients, DroppedLoadsStayDropped, WritesRunOnce, HostSpendsWithinQuote, WalletIsOpenedOnce, PTL
<1>4. Spec => []DepositTypeOK /\ []WithdrawalTypeOK /\ []CreditTypeOK /\ []RoutesTypeOK /\ []PortfolioTypeOK
  BY RunIsOfTheAdapters, CompleteDepositIsMinted, ClosedWithdrawalAddsUp, NothingUnsafeIsSigned,
     QuotedFloorHolds, PortfolioIsOfSnapshots, PTL
<1> QED BY <1>1, <1>2, <1>3, <1>4, PTL

\* The promises of the service at once: keys and quotes, signatures, limits, deliveries and lists of the API; loads,
\* writes, spending and wallets of the clients; deposits, withdrawals, routes, credit and the portfolio.
THEOREM ServiceIsSafe ==
  Spec => /\ [](KeyNamesOneWorkflow /\ StartedFromLiveQuote /\ SwitchedOffStops /\ SignatureJudgedOnce /\ WithinLimit)
          /\ [](AbandonedAfterAllTries /\ OwnRowsOnce /\ EarnedIsAhead)
          /\ [](DroppedStaysDropped /\ WritesOnce /\ SpentWithinQuote) /\ WalletOpensOnce
          /\ [](TroubleIsAnswered /\ CompleteIsExact)
          /\ CompleteDepositStays /\ WithdrawalAddsUp /\ SafeToSign /\ FloorKept
<1>1. Spec => [](KeyNamesOneWorkflow /\ StartedFromLiveQuote /\ SwitchedOffStops /\ SignatureJudgedOnce /\ WithinLimit)
  BY RunIsOfTheApi, KeyIsIdempotent, StartsFromLiveQuote, OffStaysOff, OneSignatureIsJudged, LimitIsNeverPassed, PTL
<1>2. Spec => [](AbandonedAfterAllTries /\ OwnRowsOnce /\ EarnedIsAhead)
  BY RunIsOfTheApi, GivenUpAfterAllTries, OwnRowsAreGivenOnce, NoYieldIsInvented, PTL
<1>3. Spec => [](DroppedStaysDropped /\ WritesOnce /\ SpentWithinQuote) /\ WalletOpensOnce
  BY RunIsOfTheClients, DroppedLoadsStayDropped, WritesRunOnce, HostSpendsWithinQuote, WalletIsOpenedOnce, PTL
<1>4. Spec => [](TroubleIsAnswered /\ CompleteIsExact)
  BY RunIsOfTheAdapters, NoTroubleIsHidden, CompletePortfolioIsExact, PTL
<1>5. Spec => CompleteDepositStays /\ WithdrawalAddsUp /\ SafeToSign /\ FloorKept
  BY RunIsOfTheAdapters, CompleteDepositIsMinted, ClosedWithdrawalAddsUp, NothingUnsafeIsSigned, QuotedFloorHolds, PTL
<1> QED BY <1>1, <1>2, <1>3, <1>4, <1>5, PTL

=============================================================================
