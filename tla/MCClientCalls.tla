---------------------------- MODULE MCClientCalls ----------------------------
(* RestGateway for TLC.  HTTPS_PROXY is set but empty: what hides it matters. *)
EXTENDS RestGateway

CONSTANTS P1, P2, P3, u1, s1, r1

MCEnv == [n \in {"HTTPS_PROXY", "https_proxy", "HTTP_PROXY", "http_proxy", "ALL_PROXY",
                 "all_proxy"} |-> IF n = "HTTPS_PROXY" THEN Empty
                                  ELSE IF n = "https_proxy" THEN P1
                                  ELSE IF n = "all_proxy" THEN P3 ELSE Unset]
=============================================================================
