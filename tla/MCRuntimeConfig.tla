-------------------------- MODULE MCRuntimeConfig --------------------------
(***************************************************************************)
(* The settings the admin API can change.                                  *)
(***************************************************************************)
EXTENDS RuntimeConfig

AllSettings ==
  {IPBanShape, RateLimitShape, SyncWritesShape, RetentionShape, AccessLogShape,
   TrustedProxyShape}
=============================================================================
