----------------------------- MODULE MCService -----------------------------
(***************************************************************************)
(* The API, the clients and the adapters on small instances.  No two of    *)
(* these components share a variable, so one run explores them side by     *)
(* side: `component` names the only one that moves in a behaviour, and the *)
(* others rest in their initial states.  Every behaviour of a component is *)
(* one of the run, and an invariant of one says nothing of the others.     *)
(***************************************************************************)
EXTENDS Admission, ApiGate, Webhooks, ClientCache, ClientRequests,
        SbtcDeposit, SbtcWithdrawal, Credit, SdkWorkflow, Portfolio, Screens, Routes,
        Endpoints, Performance

VARIABLE component

\* One vault whose shares are worth an asset each, and one that has earned half of one.
TwoRates == {<<1, 1>>, <<2, 3>>}

Components == {"admission", "gate", "webhooks", "cache", "requests", "deposit",
               "withdrawal", "credit", "sdk", "portfolio", "screens", "routes",
               "endpoints", "performance"}

\* The initial states of a component that rests are one.
RestingCaller == CHOOSE resting \in Principals \X {"markets"} \X [owner : Addresses, network : Networks] : TRUE

Init ==
    /\ component \in Components
    /\ AdmissionInit
    /\ GateInit
    /\ WebhooksInit
    /\ CacheInit
    /\ RequestsInit
    /\ DepositInit
    /\ WithdrawalInit
    /\ CreditInit
    /\ SdkInit
    /\ PortfolioInit
    /\ ScreensInit
    /\ RoutesInit
    /\ EndpointsInit
    /\ component # "endpoints" => <<caller, listRead, asked>> = RestingCaller
    /\ PerformanceInit

\* Every component but the one named rests.
Rest(name) ==
    /\ UNCHANGED component
    /\ name # "admission" => UNCHANGED admissionVars
    /\ name # "gate" => UNCHANGED gateVars
    /\ name # "webhooks" => UNCHANGED webhookVars
    /\ name # "cache" => UNCHANGED cacheVars
    /\ name # "requests" => UNCHANGED requestVars
    /\ name # "deposit" => UNCHANGED depositVars
    /\ name # "withdrawal" => UNCHANGED withdrawalVars
    /\ name # "credit" => UNCHANGED creditVars
    /\ name # "sdk" => UNCHANGED sdkVars
    /\ name # "portfolio" => UNCHANGED portfolioVars
    /\ name # "screens" => UNCHANGED screenVars
    /\ name # "routes" => UNCHANGED routeVars
    /\ name # "endpoints" => UNCHANGED endpointVars
    /\ name # "performance" => UNCHANGED performanceVars

Next ==
    \/ component = "admission" /\ AdmissionNext /\ Rest("admission")
    \/ component = "gate" /\ GateNext /\ Rest("gate")
    \/ component = "webhooks" /\ WebhooksNext /\ Rest("webhooks")
    \/ component = "cache" /\ CacheNext /\ Rest("cache")
    \/ component = "requests" /\ RequestsNext /\ Rest("requests")
    \/ component = "deposit" /\ DepositNext /\ Rest("deposit")
    \/ component = "withdrawal" /\ WithdrawalNext /\ Rest("withdrawal")
    \/ component = "credit" /\ CreditNext /\ Rest("credit")
    \/ component = "sdk" /\ SdkNext /\ Rest("sdk")
    \/ component = "portfolio" /\ PortfolioNext /\ Rest("portfolio")
    \/ component = "screens" /\ ScreensNext /\ Rest("screens")
    \/ component = "routes" /\ RoutesNext /\ Rest("routes")
    \/ component = "endpoints" /\ EndpointsNext /\ Rest("endpoints")
    \/ component = "performance" /\ PerformanceNext /\ Rest("performance")

serviceVars == <<component, admissionVars, gateVars, webhookVars, cacheVars, requestVars, depositVars,
                 withdrawalVars, creditVars, sdkVars, portfolioVars, screenVars, routeVars,
                 endpointVars, performanceVars>>

Spec == Init /\ [][Next]_serviceVars

\* Every variable keeps its type: rows, requests, screens and evidence stay within what the code can hold.
TypeOK ==
    /\ AdmissionTypeOK
    /\ GateTypeOK
    /\ WebhooksTypeOK
    /\ CacheTypeOK
    /\ RequestsTypeOK
    /\ DepositTypeOK
    /\ WithdrawalTypeOK
    /\ CreditTypeOK
    /\ SdkTypeOK
    /\ PortfolioTypeOK
    /\ ScreensTypeOK
    /\ RoutesTypeOK
    /\ EndpointsTypeOK
    /\ PerformanceTypeOK

=============================================================================
