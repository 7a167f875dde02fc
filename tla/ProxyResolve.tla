---------------------------- MODULE ProxyResolve ----------------------------
(***************************************************************************)
(* How crates/zpr/src/grpc.rs picks the proxy of one gRPC connection       *)
(* (resolve_proxy).  A proxy is a model value; NoProxy is a direct         *)
(* connection, Garbage a text that is no URI.  An environment variable is  *)
(* Unset, Empty, or holds a proxy or Garbage.                              *)
(***************************************************************************)
EXTENDS Sequences

CONSTANTS Unset, Empty, Garbage, NoProxy,
          Env,       \* the environment: a function from variable names to values
          Scheme     \* of the target: "https" or "http"

\* std::env::var(n).ok() for the first name that is set, then the filter on emptiness
EnvVarAny(names) ==
    LET found == SelectSeq(names, LAMBDA n : Env[n] # Unset)
    IN  IF found = <<>> \/ Env[Head(found)] = Empty THEN Unset ELSE Env[Head(found)]

\* s.parse().ok()
Parsed(text) == IF text \in {Garbage, Empty, Unset} THEN NoProxy ELSE text

SchemeVars == IF Scheme = "https" THEN <<"HTTPS_PROXY", "https_proxy">>
                                  ELSE <<"HTTP_PROXY", "http_proxy">>
AllVars == <<"ALL_PROXY", "all_proxy">>

FromEnv == IF EnvVarAny(SchemeVars) # Unset THEN EnvVarAny(SchemeVars) ELSE EnvVarAny(AllVars)

\* resolve_proxy, with what zpr_grpc_set_proxy has in its slot; `excluded` says that NO_PROXY
\* or no_proxy matches the target's host.
ResolveProxy(override, excluded) ==
    IF override # Unset THEN Parsed(override)
    ELSE IF excluded THEN NoProxy
    ELSE Parsed(FromEnv)
=============================================================================
