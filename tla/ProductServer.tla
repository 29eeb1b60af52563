--------------------------- MODULE ProductServer ---------------------------
(***************************************************************************)
(* The product server: its file (ProductStore), and, while it is hosted,   *)
(* the browser capabilities its approval requests need.                    *)
(***************************************************************************)
EXTENDS ProductStore, HostedCapabilities

serverVars == <<storeVars, capabilityVars>>

ServerInit == StoreInit /\ CapabilityInit

\* GET /session and the hosted POSTs reach the table while the server is up;
\* they count against the bound on requests.
Browse ==
  /\ serving /\ mode = "HOSTED_DEMO"
  /\ \/ /\ \E b \in Browsers, request \in BrowserRequests : Read(b, request)
        /\ requests < MaxRequests /\ requests' = requests + 1
     \/ /\ TickInstant \/ \E b \in Browsers : Issue(b) \/ Validate(b)
        /\ UNCHANGED requests
  /\ UNCHANGED <<mode, serving, store, session, edits, told>>

ServerNext ==
  \/ StoreStep /\ (IF serving' THEN UNCHANGED capabilityVars ELSE CapabilityReset)
  \/ Browse

ServerSpec == ServerInit /\ [][ServerNext]_serverVars
------------------------------------------------------------------------------
\* Type invariant of the file, its sessions and the table of capabilities.
ServerTypeOK == StoreTypeOK /\ CapabilityTypeOK
==============================================================================
