-------------------------- MODULE MCProviderConfig --------------------------
(* Connections and old layouts for ProviderConfig.                         *)
EXTENDS ProviderConfig

CONSTANTS m1, m2

MCBackends == {[kind |-> "klava", base |-> "none", key |-> "none"],
               [kind |-> "openai", base |-> "router", key |-> "env"],
               [kind |-> "openai", base |-> "router", key |-> "inline"],
               [kind |-> "qwen", base |-> "none", key |-> "none"]}
MCLogin == [kind |-> "klava", base |-> "api", key |-> "none"]
MCLegacy ==
  {<<>>,
   <<[name |-> "legacy", kind |-> "openai", base |-> "router", key |-> "inline",
      completion |-> m1, reasoning |-> NoModel],
     [name |-> "other", kind |-> "openai", base |-> "router", key |-> "env",
      completion |-> m1, reasoning |-> m2]>>}
=============================================================================
