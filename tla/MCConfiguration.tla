--------------------------- MODULE MCConfiguration ---------------------------
\* Small instances of Configuration.
EXTENDS Configuration

TwoSections == <<"s1", "s2">>
\* Directives whose effects meet, and handlers that find them.
AllTopics ==
  {<<"RubySafeLevel", "fixup">>,
   <<"RubyAddPath", "RubyRequire", "trans">>,
   <<"RubyRequire", "RubyAddPath">>,
   <<"RubyKanjiCode", "type">>,
   <<"init", "handler", "cleanup">>,
   <<"post_read", "access">>,
   <<"RubyOutputMode", "authz">>,
   <<"RubyRestrictDirectives", "RubySetEnv", "RubyRequire", "handler">>,
   <<"RubySetEnv", "RubyPassEnv", "authen">>,
   <<"RubyPassEnv", "RubyTimeOut", "header_parser", "log">>}
LongInVhost == {<<"vhost", "vhost">>}
InitTopics == {<<"init", "handler">>}

\* A bound: Apache 1.x only where it has a hook of its own.
HooksInit ==
  /\ Init
  /\ ~ apache2 => ToSet(topic) \cap {"init", "header_parser"} # {}
HooksSpec == HooksInit /\ [][Next]_vars
=============================================================================
