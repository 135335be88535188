------------------------- MODULE MCSchemaMigration -------------------------
(* The real tables in their real orders; databases of version 3, of an          *)
(* unreadable version, of a later dqueryd, and from before the version row.     *)
EXTENDS SchemaMigration

MCMeta == "dquery_schema_metadata"
MCDropOrder ==
    <<"account_sessions", "local_passwords", "dquery_users", "dns_domain_actions",
      "dns_user_rule_set_preferences", "dquery_known_rule_domains", "dquery_known_rule_sets",
      "dns_block_settings", "dns_query_logs", "dns_rule_sets", "dns_profile_tokens",
      "dns_rules", "dns_profiles", MCMeta>>
MCCreateOrder ==
    <<MCMeta, "dquery_users", "local_passwords", "dns_profiles", "dns_rules",
      "dns_profile_tokens", "dns_rule_sets", "dns_query_logs", "dns_block_settings",
      "dquery_known_rule_sets", "dquery_known_rule_domains", "dns_user_rule_set_preferences",
      "dns_domain_actions", "account_sessions">>
MCListed ==
    {"dquery_users", "local_passwords", "dns_profiles", "dns_rules", "dns_profile_tokens",
     "dns_rule_sets", "account_sessions"}

\* The last table of a reset alone, the profiles with what hangs on them, every table.
MCBeforeRow ==
    {{"dns_profiles"}, {"dns_profiles", "dns_rules", "dns_block_settings"},
     InOrder(MCCreateOrder) \ {MCMeta}}
=============================================================================
