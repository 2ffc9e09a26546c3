---------------------- MODULE ConfigurationRequests -----------------------
(***************************************************************************)
(* Proofs about what a request is configured with.  The invariants build   *)
(* on each other:                                                          *)
(*   Sound          the types, and which scopes have configurations        *)
(*   Progress       which merge of them the request has, in each phase     *)
(*   AsWritten      each says what its lines say, once they are read       *)
(*   SettingsFound  so what handlers found is what their scopes say, and   *)
(*                  stays so when later steps change what is written       *)
(* A directive is used at most once in a scope, as Line has it.            *)
(***************************************************************************)
EXTENDS ConfigurationProofs

-----------------------------------------------------------------------------
(* What a step may change.                                                 *)

\* What a directive does to the configurations: of the scope it is in, the fields
\* that the properties are about.
DirTaken(d, l) ==
  LET old == dir_config[current]
      new == dir_config'[current]
  IN  /\ new.kcode = IF d = "RubyKanjiCode" THEN current ELSE old.kcode
      /\ new.load_path = IF d = "RubyAddPath" /\ ~ IsServer(current)
                           THEN Pushed(old.load_path, current) ELSE old.load_path
      /\ \A p \in Phases :
           new.handlers[p] = IF d = p THEN Pushed(old.handlers[p], current) ELSE old.handlers[p]
      /\ new.safe_level = IF d = "RubySafeLevel" THEN l ELSE old.safe_level
      /\ new.env = IF d = "RubySetEnv" THEN <<current>> ELSE old.env
      /\ new.output_mode = IF d = "RubyOutputMode" THEN current ELSE old.output_mode
ServerTaken(d) ==
  LET old == server_config[current]
      new == server_config'[current]
  IN  /\ new.timeout = IF d = "RubyTimeOut" THEN current ELSE old.timeout
      /\ new.restrict_directives = IF d = "RubyRestrictDirectives" THEN TRUE ELSE old.restrict_directives
      /\ new.load_path = IF d = "RubyAddPath" THEN Append(old.load_path, current) ELSE old.load_path
      /\ new.env = IF d = "RubySetEnv" THEN <<current>>
                   ELSE IF d = "RubyPassEnv" THEN <<"passed">> ELSE old.env
LibraryTaken(d) ==
  /\ stage = "serving" => required' = required
  /\ ruby'.default_load_path = ruby.default_load_path
  /\ d # "RubyRequire" \/ stage # "serving" => loaded' = loaded
  /\ d = "RubyRequire" /\ stage = "serving" =>
       loaded' = Append(loaded, [library |-> current,
                                 path |-> SetupLoadpath(server_config[CmdServer], dir_config[current])])
Taken(d, l) ==
  /\ Allowed(d, l)
  /\ d \in ServerOnly => IsServer(current)
  /\ d = "RubySafeLevel" => l \in Int
  /\ \A s \in DOMAIN dir_config \ {current} : dir_config'[s] = dir_config[s]
  /\ \A s \in Servers \ {current} : server_config'[s] = server_config[s]
  /\ DirTaken(d, l)
  /\ IF IsServer(current) THEN ServerTaken(d) ELSE server_config' = server_config
  /\ DOMAIN dir_config' = DOMAIN dir_config
  /\ default_safe_level' = IF d = "RubySafeLevel" THEN DefaultLevel(l) ELSE default_safe_level
  /\ LibraryTaken(d)

LEMMA ByDirSetting ==
  ASSUME Sound, NEW d \in Directives, d # "RubyRequire", d # "RubySafeLevel", d # "RubySetEnv",
         d # "RubyPassEnv", NEW c, DirSetting(d, c),
         d \in ServerOnly => IsServer(current),
         d \in {"RubyTimeOut", "RubyRestrictDirectives", "RubyAddPath"} => ~ IsServer(current),
         c.kcode = IF d = "RubyKanjiCode" THEN current ELSE dir_config[current].kcode,
         c.load_path = IF d = "RubyAddPath" THEN Pushed(dir_config[current].load_path, current)
                       ELSE dir_config[current].load_path,
         \A p \in Phases : c.handlers[p] = IF d = p THEN Pushed(dir_config[current].handlers[p], current)
                                           ELSE dir_config[current].handlers[p],
         c.safe_level = dir_config[current].safe_level, c.env = dir_config[current].env,
         c.output_mode = IF d = "RubyOutputMode" THEN current ELSE dir_config[current].output_mode
  PROVE  Taken(d, NULL)
<1>1. /\ Allowed(d, NULL) /\ dir_config' = [dir_config EXCEPT ![current] = c]
      /\ UNCHANGED <<default_safe_level, server_config, required, ruby, loaded>>
  BY DEF DirSetting
<1>2. /\ dir_config'[current] = c /\ DOMAIN dir_config' = DOMAIN dir_config
      /\ \A s \in DOMAIN dir_config \ {current} : dir_config'[s] = dir_config[s]
  BY <1>1, SoundFacts
<1>3. DirTaken(d, NULL)
  BY <1>2 DEF DirTaken
<1>4. IsServer(current) => ServerTaken(d)
  BY <1>1 DEF ServerTaken
<1>5. LibraryTaken(d)
  BY <1>1 DEF LibraryTaken
<1>6. QED
  BY <1>1, <1>2, <1>3, <1>4, <1>5 DEF Taken

LEMMA ByServerSetting ==
  ASSUME Sound, NEW d \in Directives, d # "RubyRequire", d # "RubySafeLevel", d # "RubyKanjiCode",
         d # "RubySetEnv", d # "RubyOutputMode", d \notin Phases,
         NEW c, ServerSetting(d, c),
         current \in {"main", "vhost"} =>
           /\ c.timeout = IF d = "RubyTimeOut" THEN current ELSE server_config[current].timeout
           /\ c.restrict_directives = IF d = "RubyRestrictDirectives" THEN TRUE
                                      ELSE server_config[current].restrict_directives
           /\ c.load_path = IF d = "RubyAddPath" THEN Append(server_config[current].load_path, current)
                            ELSE server_config[current].load_path
           /\ c.env = IF d = "RubyPassEnv" THEN <<"passed">> ELSE server_config[current].env
  PROVE  Taken(d, NULL)
<1>1. /\ Allowed(d, NULL) /\ server_config' = [server_config EXCEPT ![current] = c]
      /\ IsServer(current) /\ current \in {"main", "vhost"}
      /\ UNCHANGED <<default_safe_level, dir_config, required, ruby, loaded>>
  BY DEF ServerSetting, IsServer
<1>2. server_config'[current] = c /\ \A s \in Servers \ {current} : server_config'[s] = server_config[s]
  BY <1>1, SoundFacts DEF Servers
<1>3. DirTaken(d, NULL)
  BY <1>1 DEF DirTaken
<1>4. ServerTaken(d)
  BY <1>1, <1>2 DEF ServerTaken
<1>5. LibraryTaken(d)
  BY <1>1 DEF LibraryTaken
<1>6. QED
  BY <1>1, <1>2, <1>3, <1>4, <1>5 DEF Taken

LEMMA SettingsAreTaken ==
  ASSUME Sound, \/ RubyKanjiCode \/ RubyOutputMode \/ RubyTimeOut \/ RubyRestrictDirectives
                \/ RubyPassEnv \/ RubyAddPath \/ \E phase \in Phases : RubyHandler(phase)
  PROVE  \E d \in Directives : Taken(d, NULL)
<1> DEFINE c == dir_config[current]
           sc == server_config[current]
<1>1. c \in DirConfigs(AllScopes)
  BY SoundFacts
<1>2. current \in {"main", "vhost"} => sc \in ServerConfigs(AllScopes)
  BY SoundFacts DEF Servers
<1>4. Phases \subseteq Directives /\ {"RubySafeLevel", "RubyAddPath", "RubyRequire", "RubyKanjiCode",
         "RubyOutputMode", "RubyRestrictDirectives", "RubySetEnv", "RubyPassEnv", "RubyTimeOut"}
           \subseteq Directives
  BY DEF Directives
<1>n. {"RubySafeLevel", "RubyAddPath", "RubyRequire", "RubyKanjiCode",
         "RubyOutputMode", "RubyRestrictDirectives", "RubySetEnv", "RubyPassEnv", "RubyTimeOut"}
           \cap Phases = {}
  BY DEF Phases
<1> HIDE DEF c, sc
<1>5. CASE RubyKanjiCode
  <2> DEFINE e == [c EXCEPT !.kcode = current]
  <2>1. DirSetting("RubyKanjiCode", e)
    BY <1>5 DEF RubyKanjiCode, c
  <2>2. e.kcode = current /\ e.load_path = c.load_path /\ e.handlers = c.handlers /\ e.safe_level = c.safe_level
        /\ e.env = c.env /\ e.output_mode = c.output_mode
    BY <1>1 DEF DirConfigs
  <2> HIDE DEF e
  <2>3. Taken("RubyKanjiCode", NULL)
    BY <1>4, <1>n, <2>1, <2>2, ByDirSetting DEF ServerOnly, c
  <2>4. QED
    BY <1>4, <2>3
<1>6. CASE RubyOutputMode
  <2> DEFINE e == [c EXCEPT !.output_mode = current]
  <2>1. DirSetting("RubyOutputMode", e)
    BY <1>6 DEF RubyOutputMode, c
  <2>2. e.kcode = c.kcode /\ e.load_path = c.load_path /\ e.handlers = c.handlers /\ e.safe_level = c.safe_level
        /\ e.env = c.env /\ e.output_mode = current
    BY <1>1 DEF DirConfigs
  <2> HIDE DEF e
  <2>3. Taken("RubyOutputMode", NULL)
    BY <1>4, <1>n, <2>1, <2>2, ByDirSetting DEF ServerOnly, c
  <2>4. QED
    BY <1>4, <2>3
<1>7. CASE RubyTimeOut
  <2> DEFINE e == [sc EXCEPT !.timeout = current]
  <2>1. ServerSetting("RubyTimeOut", e)
    BY <1>7 DEF RubyTimeOut, sc
  <2>2. current \in {"main", "vhost"} => /\ e.timeout = current /\ e.load_path = sc.load_path
                                         /\ e.restrict_directives = sc.restrict_directives
                                         /\ e.env = sc.env
    BY <1>2 DEF ServerConfigs
  <2> HIDE DEF e
  <2>3. Taken("RubyTimeOut", NULL)
    BY <1>4, <1>n, <2>1, <2>2, ByServerSetting DEF sc
  <2>4. QED
    BY <1>4, <2>3
<1>8. CASE RubyRestrictDirectives
  <2> DEFINE e == [sc EXCEPT !.restrict_directives = TRUE]
  <2>1. ServerSetting("RubyRestrictDirectives", e)
    BY <1>8 DEF RubyRestrictDirectives, sc
  <2>2. current \in {"main", "vhost"} => /\ e.timeout = sc.timeout /\ e.load_path = sc.load_path
                                         /\ e.restrict_directives = TRUE
                                         /\ e.env = sc.env
    BY <1>2 DEF ServerConfigs
  <2> HIDE DEF e
  <2>3. Taken("RubyRestrictDirectives", NULL)
    BY <1>4, <1>n, <2>1, <2>2, ByServerSetting DEF sc
  <2>4. QED
    BY <1>4, <2>3
<1>9. CASE RubyPassEnv
  <2> DEFINE e == [sc EXCEPT !.env = <<"passed">>]
  <2>1. ServerSetting("RubyPassEnv", e)
    BY <1>9 DEF RubyPassEnv, sc
  <2>2. current \in {"main", "vhost"} => /\ e.timeout = sc.timeout /\ e.load_path = sc.load_path
                                         /\ e.restrict_directives = sc.restrict_directives
                                         /\ e.env = <<"passed">>
    BY <1>2 DEF ServerConfigs
  <2> HIDE DEF e
  <2>3. Taken("RubyPassEnv", NULL)
    BY <1>4, <1>n, <2>1, <2>2, ByServerSetting DEF sc
  <2>4. QED
    BY <1>4, <2>3
<1>10. CASE RubyAddPath /\ IsServer(current)
  <2> DEFINE path == Append(sc.load_path, current)
             e == [sc EXCEPT !.load_path = path]
  <2>1. ServerSetting("RubyAddPath", e) /\ current \in {"main", "vhost"}
    BY <1>10 DEF RubyAddPath, IsServer, sc
  <2> HIDE DEF path
  <2>2. e.timeout = sc.timeout /\ e.load_path = path /\ e.restrict_directives = sc.restrict_directives
        /\ e.env = sc.env
    BY <1>2, <2>1 DEF ServerConfigs
  <2> HIDE DEF e
  <2>3. Taken("RubyAddPath", NULL)
    BY <1>4, <1>n, <2>1, <2>2, ByServerSetting DEF sc, path
  <2>4. QED
    BY <1>4, <2>3
<1>11. CASE RubyAddPath /\ ~ IsServer(current)
  <2> DEFINE path == Pushed(c.load_path, current)
             e == [c EXCEPT !.load_path = path]
  <2>1. DirSetting("RubyAddPath", e)
    BY <1>11 DEF RubyAddPath, c
  <2> HIDE DEF path
  <2>2. e.kcode = c.kcode /\ e.load_path = path /\ e.handlers = c.handlers /\ e.safe_level = c.safe_level
        /\ e.env = c.env /\ e.output_mode = c.output_mode
    BY <1>1 DEF DirConfigs
  <2> HIDE DEF e
  <2>3. Taken("RubyAddPath", NULL)
    BY <1>4, <1>n, <1>11, <2>1, <2>2, ByDirSetting DEF ServerOnly, c, path
  <2>4. QED
    BY <1>4, <2>3
<1>12. ASSUME NEW phase \in Phases, RubyHandler(phase)
       PROVE  Taken(phase, NULL)
  <2> DEFINE pushed == Pushed(c.handlers[phase], current)
             e == [c EXCEPT !.handlers[phase] = pushed]
  <2>1. DirSetting(phase, e) /\ (phase \in ServerOnly => IsServer(current))
    BY <1>12 DEF RubyHandler, c
  <2> HIDE DEF pushed
  <2>2. /\ e.kcode = c.kcode /\ e.load_path = c.load_path /\ e.safe_level = c.safe_level
        /\ e.env = c.env /\ e.output_mode = c.output_mode
        /\ \A p \in Phases : e.handlers[p] = IF phase = p THEN pushed ELSE c.handlers[p]
    BY <1>1 DEF DirConfigs
  <2> HIDE DEF e
  <2>3. QED
    BY <1>4, <1>n, <2>1, <2>2, ByDirSetting DEF c, pushed
<1>13. QED
  BY <1>4, <1>5, <1>6, <1>7, <1>8, <1>9, <1>10, <1>11, <1>12

LEMMA OthersAreTaken ==
  ASSUME Sound, RubySetEnv \/ RubyRequire \/ \E level \in Levels : RubySafeLevel(level)
  PROVE  \E d \in Directives, l \in Int \cup {NULL} : Taken(d, l)
<1> DEFINE c == dir_config[current]
           sc == server_config[current]
<1>1. c \in DirConfigs(AllScopes)
  BY SoundFacts
<1>2. current \in {"main", "vhost"} => sc \in ServerConfigs(AllScopes)
  BY SoundFacts DEF Servers
<1>3. {"RubySetEnv", "RubyRequire", "RubySafeLevel"} \subseteq Directives
  BY DEF Directives
<1>4. {"RubySetEnv", "RubyRequire", "RubySafeLevel"} \cap (ServerOnly \cup Phases) = {}
  BY DEF ServerOnly, Phases
<1> HIDE DEF c, sc
<1>5. CASE RubySetEnv
  <2>1. /\ Allowed("RubySetEnv", NULL)
        /\ dir_config' = [dir_config EXCEPT ![current].env = <<current>>]
        /\ server_config' = IF IsServer(current)
             THEN [server_config EXCEPT ![current].env = <<current>>] ELSE server_config
        /\ UNCHANGED <<default_safe_level, required, ruby, loaded>>
    BY <1>5 DEF RubySetEnv
  <2> DEFINE e == [c EXCEPT !.env = <<current>>]
             se == [sc EXCEPT !.env = <<current>>]
  <2>2. e.kcode = c.kcode /\ e.load_path = c.load_path /\ e.handlers = c.handlers /\ e.safe_level = c.safe_level
        /\ e.env = <<current>> /\ e.output_mode = c.output_mode
    BY <1>1 DEF DirConfigs
  <2>3. current \in {"main", "vhost"} => /\ se.timeout = sc.timeout /\ se.load_path = sc.load_path
                                         /\ se.restrict_directives = sc.restrict_directives
                                         /\ se.env = <<current>>
    BY <1>2 DEF ServerConfigs
  <2>4. /\ dir_config'[current] = e /\ DOMAIN dir_config' = DOMAIN dir_config
        /\ \A s \in DOMAIN dir_config \ {current} : dir_config'[s] = dir_config[s]
    BY <2>1, SoundFacts DEF c
  <2>5. /\ IsServer(current) => server_config'[current] = se
        /\ \A s \in Servers \ {current} : server_config'[s] = server_config[s]
    BY <2>1, SoundFacts DEF sc, IsServer, Servers
  <2> HIDE DEF e, se
  <2>6. DirTaken("RubySetEnv", NULL)
    BY <1>4, <2>2, <2>4 DEF DirTaken, c
  <2>7. IsServer(current) => ServerTaken("RubySetEnv")
    BY <2>3, <2>5 DEF ServerTaken, IsServer, sc
  <2>8. LibraryTaken("RubySetEnv")
    BY <2>1 DEF LibraryTaken
  <2>9. Taken("RubySetEnv", NULL)
    BY <1>4, <2>1, <2>4, <2>5, <2>6, <2>7, <2>8 DEF Taken
  <2>10. QED
    BY <1>3, <2>9
<1>6. CASE RubyRequire
  <2>1. /\ Allowed("RubyRequire", NULL)
        /\ UNCHANGED <<default_safe_level, server_config, dir_config>>
    BY <1>6 DEF RubyRequire
  <2>2. LibraryTaken("RubyRequire")
    <3>1. CASE stage = "serving"
      <4> DEFINE path == SetupLoadpath(server_config[CmdServer], dir_config[current])
      <4>1. /\ ruby' = [ruby EXCEPT !.load_path = path]
            /\ loaded' = Append(loaded, [library |-> current, path |-> path])
            /\ required' = required
        BY <1>6, <3>1 DEF RubyRequire
      <4> HIDE DEF path
      <4>2. ruby'.default_load_path = ruby.default_load_path
        BY <4>1, SoundFacts DEF RubyRecords
      <4>3. QED
        BY <3>1, <4>1, <4>2 DEF LibraryTaken, path
    <3>2. CASE stage # "serving"
      BY <1>6, <3>2 DEF RubyRequire, LibraryTaken
    <3>3. QED
      BY <3>1, <3>2
  <2>3. DirTaken("RubyRequire", NULL)
    BY <1>4, <2>1 DEF DirTaken
  <2>4. ServerTaken("RubyRequire")
    BY <2>1 DEF ServerTaken
  <2>5. Taken("RubyRequire", NULL)
    BY <1>4, <2>1, <2>2, <2>3, <2>4 DEF Taken
  <2>6. QED
    BY <1>3, <2>5
<1>7. ASSUME NEW level \in Levels, RubySafeLevel(level)
      PROVE  Taken("RubySafeLevel", level) /\ level \in Int
  <2>1. /\ Allowed("RubySafeLevel", level)
        /\ dir_config' = [dir_config EXCEPT ![current].safe_level = level]
        /\ default_safe_level' = DefaultLevel(level)
        /\ UNCHANGED <<server_config, required, ruby, loaded>>
    BY <1>7 DEF RubySafeLevel
  <2> DEFINE e == [c EXCEPT !.safe_level = level]
  <2>2. e.kcode = c.kcode /\ e.load_path = c.load_path /\ e.handlers = c.handlers /\ e.safe_level = level
        /\ e.env = c.env /\ e.output_mode = c.output_mode
    BY <1>1 DEF DirConfigs
  <2>3. /\ dir_config'[current] = e /\ DOMAIN dir_config' = DOMAIN dir_config
        /\ \A s \in DOMAIN dir_config \ {current} : dir_config'[s] = dir_config[s]
    BY <2>1, SoundFacts DEF c
  <2> HIDE DEF e
  <2>4. DirTaken("RubySafeLevel", level)
    BY <1>4, <2>2, <2>3 DEF DirTaken, c
  <2>5. ServerTaken("RubySafeLevel")
    BY <2>1 DEF ServerTaken
  <2>6. LibraryTaken("RubySafeLevel")
    BY <2>1 DEF LibraryTaken
  <2>7. level \in Int
    BY ConfigurationAssumption
  <2>8. QED
    BY <1>4, <2>1, <2>3, <2>4, <2>5, <2>6, <2>7 DEF Taken
<1>8. QED
  BY <1>3, <1>5, <1>6, <1>7

\* A step before requests are served.
Preparing == stage # "serving" /\ UNCHANGED <<apache2, topic, r, last, ran>>

\* A step that reads the .htaccess file of a request.
HtaccessRead ==
  /\ stage = "serving" /\ r.phase = "htaccess" /\ current' = "htaccess"
  /\ UNCHANGED <<apache2, topic, stage, sections, default_safe_level, server_config, required,
                 last, ran>>
  /\ ruby'.default_load_path = ruby.default_load_path
  /\ DOMAIN dir_config' \ {"htaccess"} = DOMAIN dir_config \ {"htaccess"}
  /\ \A s \in DOMAIN dir_config \ {"htaccess"} : dir_config'[s] = dir_config[s]
  /\ r' = r \/ r' = [r EXCEPT !.phase = Follows("handler", r.dconf)]
  /\ written' = written
     \/ \E w \in LineRecords : w.scope = "htaccess" /\ written' = Append(written, w)

\* A step of a request that leaves the configurations alone.
Serving ==
  /\ UNCHANGED <<apache2, topic, stage, current, sections, default_safe_level, server_config,
                 dir_config, required, written, loaded>>
  /\ ruby'.default_load_path = ruby.default_load_path

LEMMA TakenKind ==
  ASSUME Sound, NEW d \in Directives, NEW l \in Int \cup {NULL}, Taken(d, l)
  PROVE  Preparing \/ (HtaccessRead /\ r' = r)
<1>1. /\ Allowed(d, l) /\ Line(d, l) /\ r' = r
      /\ written' = Append(written, [scope |-> current, directive |-> d, level |-> l,
                                     early |-> DOMAIN dir_config = {"main"}])
      /\ UNCHANGED <<apache2, topic, stage, current, sections, last, ran>>
  BY DEF Taken, Allowed, Line
<1>2. CASE stage = "reading"
  BY <1>1, <1>2 DEF Preparing
<1>3. CASE stage = "serving" /\ current = "htaccess" /\ r.phase = "htaccess"
  <2>1. ~ IsServer(current) /\ current \notin Servers
    BY <1>3 DEF IsServer, Servers
  <2>2. server_config' = server_config
    BY <2>1 DEF Taken
  <2>3. default_safe_level' = default_safe_level
    BY <1>3 DEF Taken, DefaultLevel
  <2>4. required' = required /\ ruby'.default_load_path = ruby.default_load_path
    BY <1>3 DEF Taken, LibraryTaken
  <2>5. /\ \A s \in DOMAIN dir_config \ {"htaccess"} : dir_config'[s] = dir_config[s]
        /\ DOMAIN dir_config' \ {"htaccess"} = DOMAIN dir_config \ {"htaccess"}
    BY <1>3 DEF Taken
  <2> DEFINE w == [scope |-> current, directive |-> d, level |-> l, early |-> DOMAIN dir_config = {"main"}]
  <2>6. w \in LineRecords /\ w.scope = "htaccess"
    BY <1>3, SoundFacts DEF LineRecords
  <2>7. written' = Append(written, w)
    BY <1>1
  <2> HIDE DEF w
  <2>8. QED
    BY <1>1, <1>3, <2>2, <2>3, <2>4, <2>5, <2>6, <2>7 DEF HtaccessRead
<1>4. QED
  BY <1>1, <1>2, <1>3, WhereLines

LEMMA HtaccessKind ==
  ASSUME Sound, RefusedLine \/ OpenHtaccess
  PROVE  HtaccessRead
<1>1. CASE RefusedLine
  <2>1. PICK d \in ToSet(topic) \ ServerOnly : Line(d, NULL)
    BY <1>1 DEF RefusedLine
  <2> DEFINE w == [scope |-> current, directive |-> d, level |-> NULL, early |-> DOMAIN dir_config = {"main"}]
  <2>2. /\ written' = Append(written, w) /\ current = "htaccess"
        /\ UNCHANGED <<apache2, topic, stage, current, sections, last, ran, default_safe_level,
                       server_config, dir_config, required, ruby, loaded>>
        /\ r' = [r EXCEPT !.phase = Follows("handler", r.dconf)]
    BY <1>1, <2>1 DEF RefusedLine, Refused, Line
  <2>3. stage = "serving" /\ r.phase = "htaccess"
    BY <2>1, <2>2, WhereLines
  <2>4. d \in Directives
    <3>1. topic \in Seq(Directives)
      BY ConfigurationAssumption DEF Sound, TypeOK
    <3>2. QED
      BY <2>1, <3>1, SetFacts
  <2>5. w \in LineRecords /\ w.scope = "htaccess"
    BY <2>2, <2>4, SoundFacts DEF LineRecords
  <2> HIDE DEF w
  <2>6. QED
    BY <2>2, <2>3, <2>5 DEF HtaccessRead
<1>2. CASE OpenHtaccess
  <2>1. /\ r.phase = "htaccess" /\ Opened("htaccess") /\ UNCHANGED <<stage, sections, r, written>>
    BY <1>2 DEF OpenHtaccess
  <2>2. stage = "serving"
    BY <2>1, SoundRequest
  <2>3. /\ DOMAIN dir_config' = DOMAIN dir_config \cup {"htaccess"}
        /\ \A s \in DOMAIN dir_config : s # "htaccess" => dir_config'[s] = dir_config[s]
        /\ current' = "htaccess"
        /\ UNCHANGED <<apache2, topic, default_safe_level, server_config, required, ruby, last,
                       loaded, ran>>
    BY <2>1, OpenedTaken, Names
  <2>4. QED
    BY <2>1, <2>2, <2>3 DEF HtaccessRead
<1>3. QED
  BY <1>1, <1>2

LEMMA PhaseKind ==
  ASSUME Sound, NEW phase \in Phases \cup {"late_init"}, Phase(phase)
  PROVE  Serving
<1>1. PICK n \in 1..Len(Handlers(phase)), status \in {"OK", "error"} : RunHandlers(phase, n, status)
  BY DEF Phase
<1> DEFINE path == SetupLoadpath(server_config[Merged(r.server)], r.dconf)
           kcode == IF r.dconf.kcode = NULL THEN ruby.kcode ELSE r.dconf.kcode
<1>2. ruby' = [ruby EXCEPT !.load_path = path, !.kcode = RestoreKcode(kcode)]
  BY <1>1 DEF RunHandlers
<1> HIDE DEF path, kcode
<1>3. ruby'.default_load_path = ruby.default_load_path
  BY <1>2, SoundFacts DEF RubyRecords
<1>4. QED
  BY <1>3 DEF Phase, RequestStays, Serving

GoesOn == PostReadRequest \/ NoTranslation \/ EndOfWalks

LEMMA GoesOnKind ==
  ASSUME GoesOn
  PROVE  Serving /\ UNCHANGED <<ruby, last, ran>>
BY DEF GoesOn, PostReadRequest, NoTranslation, EndOfWalks, RequestStays, Serving

LEMMA StepKinds ==
  ASSUME Sound, [Next]_vars
  PROVE  \/ Preparing
         \/ HtaccessRead
         \/ \E server \in {"main", "vhost"}, within \in SUBSET Open : BeginRequest(server, within)
         \/ GoesOn
         \/ \E phase \in Phases \cup {"late_init"} : Phase(phase)
         \/ UNCHANGED vars
<1>1. CASE \/ RubyKanjiCode \/ RubyOutputMode \/ RubyTimeOut \/ RubyRestrictDirectives
           \/ RubyPassEnv \/ RubyAddPath \/ \E phase \in Phases : RubyHandler(phase)
  BY <1>1, SettingsAreTaken, TakenKind
<1>2. CASE RubySetEnv \/ RubyRequire \/ \E level \in Levels : RubySafeLevel(level)
  BY <1>2, OthersAreTaken, TakenKind
<1>3. CASE RefusedLine \/ OpenHtaccess
  BY <1>3, HtaccessKind
<1>4. CASE \/ OpenVirtualHost \/ CloseSection \/ EndOfFile \/ InitInterpreter
           \/ \E kind \in {"Directory", "Location"} : OpenSection(kind)
  BY <1>4 DEF OpenVirtualHost, OpenSection, Opened, CloseSection, EndOfFile, InitInterpreter, Preparing
<1>5. CASE Idle
  BY <1>5 DEF Idle
<1>6. QED
  BY <1>1, <1>2, <1>3, <1>4, <1>5 DEF Next, GoesOn

-----------------------------------------------------------------------------
(* How far a request is, and which configuration it has then.              *)

\* The place of a phase in the order.
At(p) == CHOOSE i \in 1..16 : Order[i] = p

LEMMA AtOrder == \A k \in 1..16 : At(Order[k]) = k
BY OrderDiffers DEF At

LEMMA AtFacts ==
  /\ At("read") = 1 /\ At("init") = 2 /\ At("post_read") = 3 /\ At("trans") = 4
  /\ At("htaccess") = 5 /\ At("late_init") = 6 /\ At("header_parser") = 7 /\ At("access") = 8
  /\ At("authen") = 9 /\ At("authz") = 10 /\ At("type") = 11 /\ At("fixup") = 12
  /\ At("handler") = 13 /\ At("log") = 14 /\ At("cleanup") = 15 /\ At("none") = 16
BY AtOrder, OrderFacts

LEMMA AtSet ==
  /\ \A p \in ToSet(Order) : At(p) \in 1..16 /\ Order[At(p)] = p
  /\ \A p \in Phases \cup {"late_init"} : p \in ToSet(Order) /\ At(p) # 16 /\ At(p) # 1 /\ At(p) # 5
  /\ \A p \in ToSet(Order) : p \in AfterWalks <=> At(p) \in 6..13
<1>1. \A p \in ToSet(Order) : At(p) \in 1..16 /\ Order[At(p)] = p
  <2>1. ASSUME NEW p \in ToSet(Order) PROVE \E i \in 1..16 : Order[i] = p
    BY OrderFacts DEF ToSet
  <2>2. QED
    BY <2>1 DEF At
<1>2. \A p \in Phases \cup {"late_init"} : p \in ToSet(Order)
  BY OrderSet
<1>3. \A p \in Phases \cup {"late_init"} : At(p) # 16 /\ At(p) # 1 /\ At(p) # 5
  BY AtFacts DEF Phases
<1>4. ASSUME NEW p \in ToSet(Order) PROVE p \in AfterWalks <=> At(p) \in 6..13
  BY AtFacts, OrderSet DEF AfterWalks, Phases
<1>5. QED
  BY <1>1, <1>2, <1>3, <1>4

\* The phase that follows comes later, and a request stops at none in between.
LEMMA FollowsAt ==
  ASSUME NEW p \in ToSet(Order), p # "none", NEW dconf
  PROVE  /\ Follows(p, dconf) \in ToSet(Order)
         /\ At(p) < At(Follows(p, dconf))
         /\ StopsAt(Follows(p, dconf), dconf)
         /\ \A q \in ToSet(Order) : At(p) < At(q) /\ At(q) < At(Follows(p, dconf)) => ~ StopsAt(q, dconf)
<1>1. At(p) \in 1..15 /\ Order[At(p)] = p
  BY AtSet, OrderFacts
<1> DEFINE k == At(p)
<1>2. PICK j \in k + 1..16 : /\ Follows(Order[k], dconf) = Order[j]
                             /\ StopsAt(Order[j], dconf)
                             /\ \A i \in k + 1..j - 1 : ~ StopsAt(Order[i], dconf)
  BY <1>1, FollowsFact
<1>3. j \in 1..16 /\ Follows(p, dconf) = Order[j]
  BY <1>1, <1>2
<1>4. At(Follows(p, dconf)) = j /\ Follows(p, dconf) \in ToSet(Order)
  BY <1>3, AtOrder, OrderFacts DEF ToSet
<1>5. ASSUME NEW q \in ToSet(Order), At(p) < At(q), At(q) < j PROVE ~ StopsAt(q, dconf)
  <2>1. At(q) \in k + 1..j - 1 /\ Order[At(q)] = q
    BY <1>1, <1>3, <1>5, AtSet
  <2>2. QED
    BY <1>2, <2>1
<1>6. QED
  BY <1>1, <1>2, <1>3, <1>4, <1>5

\* The request always stops for the translation and for the walks.
LEMMA FollowsEarly ==
  ASSUME NEW p \in ToSet(Order), NEW dconf
  PROVE  /\ At(p) < 4 => At(Follows(p, dconf)) <= 4
         /\ At(p) = 4 => Follows(p, dconf) = "htaccess"
<1>1. "trans" \in ToSet(Order) /\ "htaccess" \in ToSet(Order) /\ At("none") = 16 /\ At(p) \in 1..16
  BY OrderSet, AtSet, AtFacts DEF Phases
<1>2. StopsAt("trans", dconf) /\ StopsAt("htaccess", dconf)
  BY DEF StopsAt
<1> DEFINE q == Follows(p, dconf)
<1>3. CASE At(p) <= 4
  <2>1. /\ q \in ToSet(Order) /\ At(p) < At(q)
        /\ \A o \in ToSet(Order) : At(p) < At(o) /\ At(o) < At(q) => ~ StopsAt(o, dconf)
    BY <1>1, <1>3, FollowsAt
  <2> HIDE DEF q
  <2>2. At(q) \in 1..16
    BY <2>1, AtSet
  <2>3. At(p) < 4 => At(q) <= 4
    BY <1>1, <1>2, <2>1, <2>2, AtFacts
  <2>4. At(p) = 4 => At(q) = 5
    BY <1>1, <1>2, <2>1, <2>2, AtFacts
  <2>5. At(p) = 4 => q = "htaccess"
    BY <2>1, <2>4, AtSet, OrderFacts
  <2>6. QED
    BY <2>3, <2>5 DEF q
<1>4. QED
  BY <1>1, <1>3

\* The configuration with which the URI is translated, and the one of the phases
\* after the walks.
Locations == FoldLeft(MergeDirConfig, dir_config[Merged(r.server)], Matching("Location"))
Whole ==
  FoldLeft(MergeDirConfig, dir_config[Merged(r.server)],
           Matching("Directory") \o Htaccess \o Matching("Location"))

LEMMA MatchingStays ==
  ASSUME Sound, NEW kind, sections' = sections, r'.server = r.server, r'.within = r.within,
         \A s \in DOMAIN dir_config \ {"htaccess"} : dir_config'[s] = dir_config[s]
  PROVE  Matching(kind)' = Matching(kind)
<1> DEFINE its == Those(sections, OfRequest(kind))
<1>1. its \in Seq(SectionRecords) /\ ToSet(its) \subseteq ToSet(sections)
  BY SectionsConfigured, ThoseElements
<1>2. Matching(kind) = [i \in DOMAIN its |-> dir_config[its[i].name]]
  BY DEF Matching
<1>3. Matching(kind)' = [i \in DOMAIN its |-> dir_config'[its[i].name]]
  BY DEF Matching, OfRequest
<1>4. ASSUME NEW i \in DOMAIN its
      PROVE  its[i].name \in DOMAIN dir_config \ {"htaccess"}
  <2>1. its[i] \in ToSet(sections)
    BY <1>1, <1>4, SetFacts
  <2>2. its[i].name \in DOMAIN dir_config /\ its[i].name \in Sections
    BY <2>1, SectionsConfigured DEF SectionRecords
  <2>3. QED
    BY <2>2, Names
<1> HIDE DEF its
<1>5. QED
  BY <1>2, <1>3, <1>4

LEMMA LocationsStay ==
  ASSUME Sound, r.phase # "none", sections' = sections, r'.server = r.server, r'.within = r.within,
         \A s \in DOMAIN dir_config \ {"htaccess"} : dir_config'[s] = dir_config[s]
  PROVE  /\ Locations' = Locations
         /\ dir_config'[Merged(r'.server)] = dir_config[Merged(r.server)]
<1>1. Merged(r.server) \in DOMAIN dir_config \ {"htaccess"}
  BY SoundRequest, ServerConfigured DEF Servers
<1>2. Merged(r.server)' = Merged(r.server)
  BY DEF Merged
<1>3. dir_config'[Merged(r'.server)] = dir_config[Merged(r.server)]
  BY <1>1, <1>2
<1>4. Matching("Location")' = Matching("Location")
  BY MatchingStays
<1>5. QED
  BY <1>3, <1>4 DEF Locations

LEMMA WholeStays ==
  ASSUME Sound, dir_config' = dir_config, sections' = sections, r'.server = r.server,
         r'.within = r.within
  PROVE  Locations' = Locations /\ Whole' = Whole
<1>1. Matching("Location")' = Matching("Location") /\ Matching("Directory")' = Matching("Directory")
  BY MatchingStays
<1>2. Htaccess' = Htaccess /\ Merged(r.server)' = Merged(r.server)
  BY DEF Htaccess, Merged
<1>3. QED
  BY <1>1, <1>2 DEF Locations, Whole

\* Those of the handlers of which the sections apply.
Walked == r.phase \in AfterWalks \/ \E i \in DOMAIN ran : ran[i].phase \in AfterWalks

Progress ==
  /\ stage # "serving" => ran = <<>> /\ last = Nothing
  /\ \A i \in DOMAIN ran : At(ran[i].phase) < At(r.phase)
  /\ last.phase # "none" => At(last.phase) < At(r.phase)
  /\ r.phase \in {"read", "init", "post_read"} => r.dconf = dir_config[Merged(r.server)]
  /\ r.phase \in {"trans", "htaccess"} => r.dconf = Locations
  /\ Walked => r.dconf = Whole
  /\ At(r.phase) < 5 => "htaccess" \notin DOMAIN dir_config /\ current = "main"
  /\ r.phase = "late_init" => ~ r.ruby_init_ran
  /\ \A i \in DOMAIN ran : ran[i].phase = "init" => r.ruby_init_ran

LEMMA InitProgress == Init => Progress
<1> SUFFICES ASSUME Init PROVE Progress
  OBVIOUS
<1>1. stage = "reading" /\ ran = <<>> /\ last = Nothing /\ r.phase = "none" /\ last.phase = "none"
  BY DEF Init, NoRequest, Nothing
<1>2. DOMAIN ran = {}
  BY <1>1
<1>3. "none" \notin AfterWalks
  BY DEF AfterWalks, Phases
<1>4. ~ Walked
  BY <1>1, <1>2, <1>3 DEF Walked
<1>5. QED
  BY <1>1, <1>2, <1>4, AtFacts DEF Progress

LEMMA PreparingProgress ==
  ASSUME Sound, Progress, Preparing
  PROVE  Progress'
<1>1. /\ stage # "serving" /\ r' = r /\ ran' = ran /\ last' = last
      /\ r.phase = "none" /\ ran = <<>> /\ last = Nothing /\ last.phase = "none"
  BY SoundFacts DEF Preparing, Progress, NoRequest, Nothing
<1>2. DOMAIN ran' = {}
  BY <1>1
<1>3. "none" \notin AfterWalks
  BY DEF AfterWalks, Phases
<1>4. ~ Walked'
  BY <1>1, <1>2, <1>3 DEF Walked
<1>5. QED
  BY <1>1, <1>2, <1>4, AtFacts DEF Progress

\* Before the walks end no handler has run that comes after them.
LEMMA NotWalked ==
  ASSUME Sound, Progress, At(r.phase) <= 5
  PROVE  ~ Walked /\ \A i \in DOMAIN ran : ran[i].phase \notin AfterWalks
<1>1. r.phase \in ToSet(Order)
  BY SoundRequest DEF RequestRecords
<1>2. \A i \in DOMAIN ran : ran[i].phase \in ToSet(Order)
  <2>1. \A i \in DOMAIN ran : ran[i] \in RunRecords
    BY SoundRequest, SetFacts
  <2>2. QED
    BY <2>1, AtSet DEF RunRecords
<1>3. \A i \in DOMAIN ran : ran[i].phase \notin AfterWalks
  <2>1. ASSUME NEW i \in DOMAIN ran PROVE ran[i].phase \notin AfterWalks
    <3>1. At(ran[i].phase) \in 1..16 /\ At(r.phase) \in 1..16 /\ At(ran[i].phase) < At(r.phase)
      BY <1>1, <1>2, AtSet DEF Progress
    <3>2. At(ran[i].phase) \notin 6..13
      BY <3>1
    <3>3. QED
      BY <1>2, <3>2, AtSet
  <2>2. QED
    BY <2>1
<1>4. r.phase \notin AfterWalks
  BY <1>1, AtSet
<1>5. QED
  BY <1>3, <1>4 DEF Walked

LEMMA HtaccessProgress ==
  ASSUME Sound, Progress, HtaccessRead
  PROVE  Progress'
<1>1. /\ r.phase = "htaccess" /\ stage' = "serving" /\ sections' = sections /\ ran' = ran /\ last' = last
      /\ \A s \in DOMAIN dir_config \ {"htaccess"} : dir_config'[s] = dir_config[s]
      /\ r' = r \/ r' = [r EXCEPT !.phase = Follows("handler", r.dconf)]
  BY DEF HtaccessRead
<1>2. \A i \in DOMAIN ran : ran[i].phase \notin AfterWalks
  BY <1>1, NotWalked, AtFacts
<1>3. CASE r' = r
  <2>1. Locations' = Locations
    BY <1>1, <1>3, LocationsStay
  <2>2. ~ Walked'
    BY <1>1, <1>2, <1>3 DEF Walked, AfterWalks, Phases
  <2>3. QED
    BY <1>1, <1>3, <2>1, <2>2, AtFacts DEF Progress
<1>4. CASE r' = [r EXCEPT !.phase = Follows("handler", r.dconf)]
  <2> DEFINE q == Follows("handler", r.dconf)
  <2>1. q \in ToSet(Order) /\ At("handler") < At(q)
    BY FollowsAt, OrderSet DEF Phases
  <2> HIDE DEF q
  <2>2. r' = [r EXCEPT !.phase = q]
    BY <1>4 DEF q
  <2>3. r'.phase = q /\ r'.ruby_init_ran = r.ruby_init_ran /\ r'.dconf = r.dconf
    BY <2>2, SoundRequest DEF RequestRecords
  <2>4. At(q) \in 14..16
    BY <2>1, AtSet, AtFacts
  <2>5. q \notin {"read", "init", "post_read", "trans", "htaccess", "late_init"} /\ q \notin AfterWalks
    BY <2>1, <2>4, AtFacts, AtSet
  <2>6. ~ Walked'
    BY <1>1, <1>2, <2>3, <2>5 DEF Walked
  <2>7. /\ \A i \in DOMAIN ran : At(ran[i].phase) < At(q)
        /\ last.phase # "none" => At(last.phase) < At(q)
    <3>1. \A i \in DOMAIN ran : ran[i].phase \in ToSet(Order)
      <4>1. \A i \in DOMAIN ran : ran[i] \in RunRecords
        BY SoundRequest, SetFacts
      <4>2. QED
        BY <4>1, AtSet DEF RunRecords
    <3>2. last.phase \in ToSet(Order)
      BY SoundRequest DEF FoundRecords
    <3>3. \A i \in DOMAIN ran : At(ran[i].phase) \in 1..16 /\ At(ran[i].phase) < 5
      BY <1>1, <3>1, AtSet, AtFacts DEF Progress
    <3>4. last.phase # "none" => At(last.phase) \in 1..16 /\ At(last.phase) < 5
      BY <1>1, <3>2, AtSet, AtFacts DEF Progress
    <3>5. QED
      BY <2>4, <3>3, <3>4
  <2>8. QED
    BY <1>1, <2>3, <2>4, <2>5, <2>6, <2>7 DEF Progress
<1>5. QED
  BY <1>1, <1>3, <1>4

LEMMA BeginProgress ==
  ASSUME Sound, Progress, NEW server \in {"main", "vhost"}, NEW within \in SUBSET Open,
         BeginRequest(server, within)
  PROVE  Progress'
<1> DEFINE conf == dir_config[Merged(server)]
<1>1. /\ stage = "serving" /\ stage' = stage /\ (server = "vhost" => "vhost" \in DOMAIN dir_config)
      /\ r' = [NoRequest EXCEPT !.phase = "read", !.count = r.count + 1, !.server = server,
                                !.within = within, !.dconf = conf]
      /\ current' = "main" /\ last' = Nothing /\ ran' = <<>>
      /\ dir_config' = [s \in DOMAIN dir_config \ {"htaccess"} |-> dir_config[s]]
  BY DEF BeginRequest, RequestStays
<1>2. Merged(server) \in DOMAIN dir_config \ {"htaccess"}
  BY <1>1, SoundFacts, ServerConfigured DEF Servers
<1> HIDE DEF conf
<1>3. r'.phase = "read" /\ r'.server = server /\ r'.dconf = conf
  BY <1>1 DEF NoRequest
<1>4. dir_config'[Merged(r'.server)] = conf
  BY <1>1, <1>2, <1>3 DEF conf
<1>5. Merged(r.server)' = Merged(r'.server)
  BY DEF Merged
<1>6. DOMAIN ran' = {} /\ last'.phase = "none" /\ "htaccess" \notin DOMAIN dir_config'
  BY <1>1 DEF Nothing
<1>7. ~ Walked'
  BY <1>3, <1>6 DEF Walked, AfterWalks, Phases
<1>8. QED
  BY <1>1, <1>3, <1>4, <1>5, <1>6, <1>7, AtFacts DEF Progress

\* The walks merge one by one, whichever Apache it is.
LEMMA WalksFold ==
  ASSUME Sound, r.phase # "none"
  PROVE  /\ Walk(dir_config[Merged(r.server)], Matching("Location")) = Locations
         /\ Walk(Walk(dir_config[Merged(r.server)], Matching("Directory") \o Htaccess),
                 Matching("Location")) = Whole
<1> DEFINE base == dir_config[Merged(r.server)]
           ds == Matching("Directory")
           hs == Htaccess
           ls == Matching("Location")
           C == DirConfigs(AllScopes)
           front == ds \o hs
           within == FoldLeft(MergeDirConfig, base, front)
<1>1. base \in C
  BY SoundRequest, ServerConfigured
<1>2. ds \in Seq(C) /\ hs \in Seq(C) /\ ls \in Seq(C)
  BY MatchingType, HtaccessType
<1>3. Locations = FoldLeft(MergeDirConfig, base, ls) /\ Whole = FoldLeft(MergeDirConfig, base, front \o ls)
  BY DEF Locations, Whole
<1> HIDE DEF base, ds, hs, ls
<1>4. front \in Seq(C)
  BY <1>2, ConcatProperties
<1> HIDE DEF front, C
<1>5. /\ Walk(base, ls) = FoldLeft(MergeDirConfig, base, ls)
      /\ Walk(base, front) = within
  BY <1>1, <1>2, <1>4, WalkIsFold, Names DEF C
<1>6. within \in C
  BY <1>1, <1>4, FoldType, Names DEF C
<1>7. FoldLeft(MergeDirConfig, within, ls) = FoldLeft(MergeDirConfig, base, front \o ls)
  BY <1>2, <1>4, FoldConcat
<1> HIDE DEF within
<1>8. Walk(within, ls) = FoldLeft(MergeDirConfig, within, ls)
  BY <1>2, <1>6, WalkIsFold, Names DEF C
<1>9. QED
  BY <1>3, <1>5, <1>7, <1>8 DEF base, ds, hs, ls, front

GoneOn(p, c) == r' = [r EXCEPT !.phase = p, !.dconf = c]

LEMMA GoesOnProgress ==
  ASSUME Sound, Progress, GoesOn
  PROVE  Progress'
<1>1. UNCHANGED <<stage, current, sections, dir_config, ran, last>>
  BY GoesOnKind DEF Serving
<1>2. ASSUME NEW p \in ToSet(Order), NEW c, GoneOn(p, c),
             r.phase # "none", At(r.phase) <= 5, At(r.phase) < At(p),
             p \in {"read", "init", "post_read"} => c = dir_config[Merged(r.server)],
             p \in {"trans", "htaccess"} => c = Locations,
             p \in AfterWalks => c = Whole,
             p = "late_init" => ~ r.ruby_init_ran
      PROVE  Progress'
  <2>1. /\ r'.phase = p /\ r'.dconf = c /\ r'.server = r.server /\ r'.within = r.within
        /\ r'.ruby_init_ran = r.ruby_init_ran /\ r.phase \in ToSet(Order)
    BY <1>2, SoundRequest DEF RequestRecords, GoneOn
  <2>2. Locations' = Locations /\ Whole' = Whole /\ Merged(r.server)' = Merged(r.server)
    BY <1>1, <2>1, WholeStays DEF Merged
  <2>3. Walked' => p \in AfterWalks
    BY <1>1, <1>2, <2>1, NotWalked DEF Walked
  <2>4. /\ \A i \in DOMAIN ran : At(ran[i].phase) < At(p)
        /\ last.phase # "none" => At(last.phase) < At(p)
    <3>1. \A i \in DOMAIN ran : ran[i].phase \in ToSet(Order)
      <4>1. \A i \in DOMAIN ran : ran[i] \in RunRecords
        BY SoundRequest, SetFacts
      <4>2. QED
        BY <4>1, AtSet DEF RunRecords
    <3>2. last.phase \in ToSet(Order)
      BY SoundRequest DEF FoundRecords
    <3>3. At(p) \in 1..16 /\ At(r.phase) \in 1..16 /\ At(last.phase) \in 1..16
          /\ \A i \in DOMAIN ran : At(ran[i].phase) \in 1..16
      BY <2>1, <3>1, <3>2, AtSet
    <3>4. QED
      BY <1>2, <3>3 DEF Progress
  <2>5. At(p) < 5 => At(r.phase) < 5
    <3>1. At(p) \in 1..16 /\ At(r.phase) \in 1..16
      BY <2>1, AtSet
    <3>2. QED
      BY <1>2, <3>1
  <2>6. QED
    BY <1>1, <1>2, <2>1, <2>2, <2>3, <2>4, <2>5 DEF Progress
<1>3. CASE PostReadRequest
  <2> DEFINE p == Follows("read", r.dconf)
             c == ConfigFor(p)
  <2>1. r.phase = "read" /\ GoneOn(p, c)
    BY <1>3 DEF PostReadRequest, GoOn, GoneOn
  <2>2. p \in ToSet(Order) /\ 1 < At(p) /\ At(p) <= 4
    BY FollowsAt, FollowsEarly, OrderSet, AtFacts
  <2>3. c = IF p = "trans" THEN Locations ELSE r.dconf
    BY <2>1, WalksFold DEF ConfigFor
  <2> HIDE DEF p, c
  <2>4. r.dconf = dir_config[Merged(r.server)]
    BY <2>1 DEF Progress
  <2>5. p # "htaccess" /\ p \notin AfterWalks /\ p # "late_init"
    BY <2>2, AtFacts, AtSet
  <2>6. QED
    BY <1>2, <2>1, <2>2, <2>3, <2>4, <2>5, AtFacts
<1>4. CASE NoTranslation
  <2> DEFINE c == ConfigFor("htaccess")
  <2>1. r.phase = "trans" /\ GoneOn("htaccess", c)
    BY <1>4 DEF NoTranslation, GoOn, GoneOn
  <2>2. c = r.dconf
    BY DEF ConfigFor
  <2>3. r.dconf = Locations
    BY <2>1 DEF Progress
  <2>4. "htaccess" \in ToSet(Order) /\ "htaccess" \notin AfterWalks
    BY OrderSet DEF AfterWalks, Phases
  <2> HIDE DEF c
  <2>5. QED
    BY <1>2, <2>1, <2>2, <2>3, <2>4, AtFacts
<1>5. CASE EndOfWalks
  <2> DEFINE directory == Walk(dir_config[Merged(r.server)], Matching("Directory") \o Htaccess)
             c == Walk(directory, Matching("Location"))
             p == Follows("htaccess", c)
  <2>1. r.phase = "htaccess" /\ GoneOn(p, c)
    BY <1>5 DEF EndOfWalks, GoneOn
  <2>2. c = Whole
    BY <2>1, WalksFold
  <2> HIDE DEF c
  <2>3. p \in ToSet(Order) /\ 5 < At(p) /\ StopsAt(p, c)
    BY FollowsAt, OrderSet, AtFacts
  <2>4. p = "late_init" => ~ r.ruby_init_ran
    BY <2>3 DEF StopsAt, RunsLateInit, Phases
  <2> HIDE DEF p
  <2>5. p \notin {"read", "init", "post_read", "trans", "htaccess"}
    BY <2>3, AtFacts
  <2>6. QED
    BY <1>2, <2>1, <2>2, <2>3, <2>4, <2>5, AtFacts
<1>6. QED
  BY <1>3, <1>4, <1>5 DEF GoesOn

\* What is known of the handlers that a phase runs, and of the phase that follows.
LEMMA PhaseFacts ==
  ASSUME Sound, NEW phase \in Phases \cup {"late_init"}, Phase(phase)
  PROVE  \E n \in 1..Len(Handlers(phase)), q \in ToSet(Order), error \in BOOLEAN :
           /\ r.phase = phase /\ r'.phase = q /\ r'.server = r.server /\ r'.within = r.within
           /\ q = IF error THEN Follows("handler", r.dconf) ELSE Follows(phase, r.dconf)
           /\ error => phase \notin {"log", "cleanup"}
           /\ At(phase) < At(q)
           /\ r'.dconf = ConfigFor(q)
           /\ r'.ruby_init_ran = NoteInit(phase)
           /\ ran' = ran \o [i \in 1..n |-> [phase |-> phase, scope |-> Handlers(phase)[i]]]
           /\ last'.phase = phase
           /\ last'.load_path = SetupLoadpath(server_config[Merged(r.server)], r.dconf)
           /\ last'.kcode = r.dconf.kcode
           /\ last'.env = EnvOf(server_config[Merged(r.server)], r.dconf)
           /\ last'.safe_level = r.dconf.safe_level
           /\ last'.timeout = TimeOut(server_config[Merged(r.server)].timeout)
<1>1. PICK n \in 1..Len(Handlers(phase)), status \in {"OK", "error"} :
        /\ RunHandlers(phase, n, status)
        /\ LET next == IF phase \notin {"log", "cleanup"} /\ status = "error"
                         THEN Follows("handler", r.dconf)
                       ELSE Follows(phase, r.dconf)
           IN  r' = [r EXCEPT !.phase = next, !.dconf = ConfigFor(next), !.object = TRUE,
                              !.output_mode = IF r.object THEN @ ELSE r.dconf.output_mode,
                              !.ruby_init_ran = NoteInit(phase)]
  BY DEF Phase
<1>2. r.phase = phase
  BY DEF Phase
<1> DEFINE error == phase \notin {"log", "cleanup"} /\ status = "error"
           q == IF error THEN Follows("handler", r.dconf) ELSE Follows(phase, r.dconf)
           conf == ConfigFor(q)
           mode == IF r.object THEN r.output_mode ELSE r.dconf.output_mode
           noted == NoteInit(phase)
<1>3. r' = [r EXCEPT !.phase = q, !.dconf = conf, !.object = TRUE, !.output_mode = mode,
                     !.ruby_init_ran = noted]
  BY <1>1
<1>4. phase # "none" /\ phase \in ToSet(Order) /\ "handler" \in ToSet(Order) /\ "handler" # "none"
  BY OrderSet DEF Phases
<1>5. /\ Follows(phase, r.dconf) \in ToSet(Order) /\ At(phase) < At(Follows(phase, r.dconf))
      /\ Follows("handler", r.dconf) \in ToSet(Order) /\ 13 < At(Follows("handler", r.dconf))
  BY <1>4, FollowsAt, AtFacts
<1>6. q \in ToSet(Order) /\ At(phase) < At(q)
  <2>1. error => At(phase) <= 13
    BY AtFacts DEF Phases
  <2>2. At(phase) \in 1..16 /\ At(Follows("handler", r.dconf)) \in 1..16
    BY <1>4, <1>5, AtSet
  <2> HIDE DEF error
  <2>3. QED
    BY <1>5, <2>1, <2>2
<1>7. error \in BOOLEAN /\ (error => phase \notin {"log", "cleanup"})
  OBVIOUS
<1>8. /\ ran' = ran \o [i \in 1..n |-> [phase |-> phase, scope |-> Handlers(phase)[i]]]
      /\ last'.phase = phase
      /\ last'.load_path = SetupLoadpath(server_config[Merged(r.server)], r.dconf)
      /\ last'.kcode = IF r.dconf.kcode = NULL THEN ruby.kcode ELSE r.dconf.kcode
      /\ last'.env = EnvOf(server_config[Merged(r.server)], r.dconf)
      /\ last'.safe_level = r.dconf.safe_level
      /\ last'.timeout = TimeOut(server_config[Merged(r.server)].timeout)
  BY <1>1, <1>2 DEF RunHandlers
<1>9. last'.kcode = r.dconf.kcode
  BY <1>8, SoundFacts
<1>10. q = IF error THEN Follows("handler", r.dconf) ELSE Follows(phase, r.dconf)
  OBVIOUS
<1> HIDE DEF error, q, conf, mode, noted
<1>11. /\ r'.phase = q /\ r'.server = r.server /\ r'.within = r.within /\ r'.dconf = conf
       /\ r'.ruby_init_ran = noted
  BY <1>3, SoundRequest DEF RequestRecords
<1>12. /\ r.phase = phase /\ r'.phase = q /\ r'.server = r.server /\ r'.within = r.within
       /\ q = IF error THEN Follows("handler", r.dconf) ELSE Follows(phase, r.dconf)
       /\ error => phase \notin {"log", "cleanup"}
       /\ At(phase) < At(q)
       /\ r'.dconf = ConfigFor(q)
       /\ r'.ruby_init_ran = NoteInit(phase)
  BY <1>2, <1>6, <1>7, <1>10, <1>11 DEF conf, noted
<1>13. QED
  BY <1>6, <1>7, <1>8, <1>9, <1>12

LEMMA Earlier ==
  ASSUME NEW a \in 1..16, NEW b \in 1..16, NEW c \in 1..16, a < b, b < c
  PROVE  a < c
OBVIOUS

LEMMA ConcatFacts ==
  ASSUME NEW A, NEW s \in Seq(A), NEW t \in Seq(A)
  PROVE  /\ s \o t \in Seq(A) /\ Len(s) \in Nat /\ Len(t) \in Nat /\ Len(s \o t) = Len(s) + Len(t)
         /\ DOMAIN s = 1..Len(s) /\ DOMAIN t = 1..Len(t) /\ DOMAIN (s \o t) = 1..Len(s) + Len(t)
         /\ \A i \in 1..Len(s) : (s \o t)[i] = s[i]
         /\ \A i \in 1..Len(t) : (s \o t)[Len(s) + i] = t[i]
<1>1. /\ s \o t \in Seq(A) /\ Len(s \o t) = Len(s) + Len(t)
      /\ \A i \in 1..Len(s) : (s \o t)[i] = s[i]
      /\ \A i \in 1..Len(t) : (s \o t)[Len(s) + i] = t[i]
  BY ConcatProperties
<1>2. /\ Len(s) \in Nat /\ Len(t) \in Nat /\ DOMAIN s = 1..Len(s) /\ DOMAIN t = 1..Len(t)
      /\ DOMAIN (s \o t) = 1..Len(s \o t)
  BY <1>1, LenProperties
<1>3. QED
  BY <1>1, <1>2

\* The handlers that have run after a phase: those before it and those of it.
LEMMA RanThen ==
  ASSUME Sound, NEW phase, NEW hs \in Seq(AllScopes), NEW n \in 1..Len(hs), phase \in Phases \cup {"late_init"},
         ran' = ran \o [i \in 1..n |-> [phase |-> phase, scope |-> hs[i]]]
  PROVE  /\ Len(ran) \in Nat /\ DOMAIN ran = 1..Len(ran) /\ DOMAIN ran' = 1..Len(ran) + n
         /\ \A i \in DOMAIN ran : ran'[i] = ran[i]
         /\ \A i \in 1..n : /\ ran'[Len(ran) + i].phase = phase
                            /\ ran'[Len(ran) + i].scope = hs[i]
         /\ \A i \in DOMAIN ran' \ DOMAIN ran : i - Len(ran) \in 1..n /\ ran'[i].phase = phase
                                                /\ ran'[i].scope = hs[i - Len(ran)]
<1> DEFINE new == [i \in 1..n |-> [phase |-> phase, scope |-> hs[i]]]
<1>1. ran \in Seq(RunRecords) /\ Len(hs) \in Nat /\ DOMAIN hs = 1..Len(hs)
  BY SoundRequest, LenProperties
<1>2. new \in Seq(RunRecords) /\ Len(new) = n
  <2>1. n \in Nat /\ \A i \in 1..n : hs[i] \in AllScopes
    BY <1>1
  <2>2. \A i \in 1..n : [phase |-> phase, scope |-> hs[i]] \in RunRecords
    BY <2>1 DEF RunRecords
  <2>3. QED
    BY <2>1, <2>2
<1>3. \A i \in 1..n : new[i].phase = phase /\ new[i].scope = hs[i]
  OBVIOUS
<1> HIDE DEF new
<1>4. /\ Len(ran) \in Nat /\ DOMAIN ran = 1..Len(ran) /\ DOMAIN ran' = 1..Len(ran) + n
      /\ \A i \in 1..Len(ran) : ran'[i] = ran[i]
      /\ \A i \in 1..n : ran'[Len(ran) + i] = new[i]
  <2>1. ran' = ran \o new
    BY DEF new
  <2>2. /\ Len(ran) \in Nat /\ DOMAIN ran = 1..Len(ran) /\ DOMAIN (ran \o new) = 1..Len(ran) + Len(new)
        /\ \A i \in 1..Len(ran) : (ran \o new)[i] = ran[i]
        /\ \A i \in 1..Len(new) : (ran \o new)[Len(ran) + i] = new[i]
    <3>1. ran \in Seq(RunRecords) /\ new \in Seq(RunRecords)
      BY <1>1, <1>2
    <3>2. QED
      BY <3>1, ConcatFacts
  <2>3. QED
    BY <1>2, <2>1, <2>2
<1>5. ASSUME NEW i \in DOMAIN ran' \ DOMAIN ran
      PROVE  i - Len(ran) \in 1..n /\ ran'[i].phase = phase /\ ran'[i].scope = hs[i - Len(ran)]
  <2>1. i - Len(ran) \in 1..n /\ Len(ran) + (i - Len(ran)) = i
    BY <1>4
  <2>2. QED
    BY <1>3, <1>4, <2>1
<1>6. QED
  BY <1>3, <1>4, <1>5

LEMMA HandlersType ==
  ASSUME Sound, NEW phase \in Phases \cup {"late_init"}, r.phase = phase
  PROVE  Handlers(phase) \in Seq(AllScopes)
<1>1. <<>> \in Seq(AllScopes)
  BY EmptySeq
<1>2. r.dconf.handlers \in [Phases -> Lists(AllScopes)]
  <2>1. phase # "none"
    BY DEF Phases
  <2>2. QED
    BY <2>1, SoundRequest DEF DirConfigs
<1>3. phase # "late_init" => phase \in Phases
  OBVIOUS
<1>4. "init" \in Phases /\ "cleanup" \in Phases
  BY DEF Phases
<1>5. HandlersOf(phase) \in Lists(AllScopes)
  BY <1>2, <1>3, <1>4 DEF HandlersOf, CleanupConfig
<1>6. QED
  BY <1>1, <1>5 DEF Handlers, Lists

LEMMA PhaseRan ==
  ASSUME Sound, NEW phase \in Phases \cup {"late_init"}, Phase(phase)
  PROVE  /\ \A i \in DOMAIN ran : i \in DOMAIN ran' /\ ran'[i] = ran[i]
         /\ \A i \in DOMAIN ran' \ DOMAIN ran : ran'[i].phase = phase
<1>1. PICK n \in 1..Len(Handlers(phase)) :
           /\ r.phase = phase
           /\ ran' = ran \o [i \in 1..n |-> [phase |-> phase, scope |-> Handlers(phase)[i]]]
  BY PhaseFacts
<1> DEFINE hs == Handlers(phase)
<1>2. hs \in Seq(AllScopes) /\ n \in 1..Len(hs)
  BY <1>1, HandlersType
<1> HIDE DEF hs
<1>3. ran' = ran \o [i \in 1..n |-> [phase |-> phase, scope |-> hs[i]]]
  BY <1>1 DEF hs
<1>4. /\ Len(ran) \in Nat /\ DOMAIN ran = 1..Len(ran) /\ DOMAIN ran' = 1..Len(ran) + n
      /\ \A i \in DOMAIN ran : ran'[i] = ran[i]
      /\ \A i \in DOMAIN ran' \ DOMAIN ran : ran'[i].phase = phase
  BY <1>2, <1>3, RanThen
<1>5. QED
  BY <1>4

\* Handlers that run do not bring a request beyond the walks.
LEMMA PhaseWalked ==
  ASSUME Sound, Progress, NEW phase \in Phases \cup {"late_init"}, Phase(phase)
  PROVE  Walked' => Walked
<1>1. PICK q \in ToSet(Order), error \in BOOLEAN :
           /\ r.phase = phase /\ r'.phase = q
           /\ q = IF error THEN Follows("handler", r.dconf) ELSE Follows(phase, r.dconf)
           /\ At(phase) < At(q)
  BY PhaseFacts
<1>2. phase \in ToSet(Order) /\ phase # "none"
  BY OrderSet DEF Phases
<1>3. At(phase) \in 1..16 /\ At(q) \in 1..16 /\ At(phase) # 1 /\ At(phase) # 5 /\ At(phase) < At(q)
  BY <1>1, <1>2, AtSet
<1>4. error => At(q) > 13
  BY <1>1, FollowsAt, OrderSet, AtFacts DEF Phases
<1>5. ~ error => (At(phase) < 4 => At(q) <= 4) /\ (At(phase) = 4 => q = "htaccess")
  BY <1>1, <1>2, FollowsEarly
<1>6. ASSUME q \in AfterWalks PROVE Walked
  <2>1. At(q) \in 6..13 /\ ~ error
    BY <1>3, <1>4, <1>6, AtSet
  <2>2. At(phase) \in 6..13
    BY <1>1, <1>3, <1>5, <2>1, AtFacts
  <2>3. QED
    BY <1>1, <1>2, <2>2, AtSet DEF Walked
<1>7. ASSUME NEW i \in DOMAIN ran', ran'[i].phase \in AfterWalks PROVE Walked
  <2>1. CASE i \in DOMAIN ran
    <3>1. ran[i].phase \in AfterWalks
      BY <1>7, <2>1, PhaseRan
    <3>2. QED
      BY <2>1, <3>1 DEF Walked
  <2>2. CASE i \notin DOMAIN ran
    BY <1>1, <1>7, <2>2, PhaseRan DEF Walked
  <2>3. QED
    BY <2>1, <2>2
<1>8. QED
  BY <1>1, <1>6, <1>7 DEF Walked

LEMMA PhaseProgress ==
  ASSUME Sound, Progress, NEW phase \in Phases \cup {"late_init"}, Phase(phase)
  PROVE  Progress'
<1>1. PICK n \in 1..Len(Handlers(phase)), q \in ToSet(Order), error \in BOOLEAN :
           /\ r.phase = phase /\ r'.phase = q /\ r'.server = r.server /\ r'.within = r.within
           /\ q = IF error THEN Follows("handler", r.dconf) ELSE Follows(phase, r.dconf)
           /\ At(phase) < At(q)
           /\ r'.dconf = ConfigFor(q)
           /\ r'.ruby_init_ran = NoteInit(phase)
           /\ ran' = ran \o [i \in 1..n |-> [phase |-> phase, scope |-> Handlers(phase)[i]]]
           /\ last'.phase = phase
  BY PhaseFacts
<1>2. UNCHANGED <<stage, current, sections, dir_config>>
  BY PhaseKind DEF Serving
<1>3. stage = "serving" /\ phase \in ToSet(Order) /\ phase # "none"
  BY <1>1, SoundRequest, OrderSet DEF Phases
<1>4. At(phase) \in 1..16 /\ At(q) \in 1..16 /\ At(phase) # 1 /\ At(phase) # 5 /\ At(phase) < At(q)
  BY <1>1, <1>3, AtSet
<1>5. /\ \A i \in DOMAIN ran : i \in DOMAIN ran' /\ ran'[i] = ran[i]
      /\ \A i \in DOMAIN ran' \ DOMAIN ran : ran'[i].phase = phase
  BY PhaseRan
<1>6. \A i \in DOMAIN ran' : At(ran'[i].phase) < At(q)
  <2>1. ASSUME NEW i \in DOMAIN ran' PROVE At(ran'[i].phase) < At(q)
    <3>1. CASE i \in DOMAIN ran
      <4>1. ran[i] \in RunRecords
        BY <3>1, SoundRequest, SetFacts
      <4>2. At(ran[i].phase) \in 1..16
        BY <4>1, AtSet DEF RunRecords
      <4>3. At(ran[i].phase) < At(phase)
        BY <1>1, <3>1 DEF Progress
      <4>4. ran'[i] = ran[i]
        BY <1>5, <3>1
      <4>5. At(ran[i].phase) < At(q)
        BY <1>4, <4>2, <4>3, Earlier
      <4>6. QED
        BY <4>4, <4>5
    <3>2. CASE i \notin DOMAIN ran
      BY <1>1, <1>5, <2>1, <3>2
    <3>3. QED
      BY <3>1, <3>2
  <2>2. QED
    BY <2>1
<1>7. Locations' = Locations /\ Whole' = Whole /\ Merged(r.server)' = Merged(r.server)
  BY <1>1, <1>2, WholeStays DEF Merged
<1>8. error => At(q) > 13
  BY <1>1, FollowsAt, OrderSet, AtFacts DEF Phases
<1>9. ~ error => (At(phase) < 4 => At(q) <= 4) /\ (At(phase) = 4 => q = "htaccess")
  BY <1>1, <1>3, FollowsEarly
<1>10. ConfigFor(q) = IF q = "trans" THEN Locations ELSE r.dconf
  BY <1>1, <1>3, WalksFold DEF ConfigFor
<1>11. q \notin {"read", "init", "late_init"} /\ (q = "post_read" => phase = "init")
       /\ (q = "trans" => phase \in {"init", "post_read"}) /\ (q = "htaccess" => phase = "trans")
  <2>1. phase = Order[At(phase)] /\ q = Order[At(q)]
    BY <1>1, <1>3, AtSet
  <2>2. At(q) \notin {1, 2} /\ (At(q) = 3 => At(phase) = 2) /\ (At(q) = 4 => At(phase) \in {2, 3})
        /\ (At(q) = 5 => At(phase) = 4 \/ At(phase) < 4)
    BY <1>1, <1>4
  <2>3. At(q) # 6 /\ (At(q) = 5 => At(phase) = 4)
    BY <1>1, <1>4, <1>8, <1>9, AtFacts
  <2>4. QED
    BY <2>1, <2>2, <2>3, AtFacts, OrderFacts
<1>12. q \in {"read", "init", "post_read"} => r'.dconf = dir_config[Merged(r.server)]
  BY <1>1, <1>10, <1>11 DEF Progress
<1>13. q \in {"trans", "htaccess"} => r'.dconf = Locations
  BY <1>1, <1>10, <1>11 DEF Progress
<1>14. ASSUME Walked' PROVE r'.dconf = Whole
  <2>1. Walked
    BY <1>14, PhaseWalked
  <2>2. r.dconf = Whole
    BY <2>1 DEF Progress
  <2>3. q # "trans"
    <3>1. ASSUME q = "trans" PROVE FALSE
      <4>1. At(r.phase) <= 5
        BY <1>1, <1>11, <3>1, AtFacts
      <4>2. QED
        BY <2>1, <4>1, NotWalked
    <3>2. QED
      BY <3>1
  <2>4. QED
    BY <1>1, <1>10, <2>2, <2>3
<1>15. At(q) < 5 => "htaccess" \notin DOMAIN dir_config /\ current = "main"
  <2>1. At(q) < 5 => At(r.phase) < 5
    BY <1>1, <1>4
  <2>2. QED
    BY <2>1 DEF Progress
<1>16. ASSUME NEW i \in DOMAIN ran', ran'[i].phase = "init" PROVE r'.ruby_init_ran = TRUE
  <2>1. CASE i \in DOMAIN ran
    <3>1. ran[i].phase = "init"
      BY <1>5, <1>16, <2>1
    <3>2. r.ruby_init_ran
      BY <2>1, <3>1 DEF Progress
    <3>3. QED
      BY <1>1, <3>2 DEF NoteInit
  <2>2. CASE i \notin DOMAIN ran
    BY <1>1, <1>5, <1>16, <2>2 DEF NoteInit
  <2>3. QED
    BY <2>1, <2>2
<1>17. QED
  <2>1. stage' = "serving" /\ At(last'.phase) < At(q)
    BY <1>1, <1>2, <1>3
  <2>2. QED
    BY <1>1, <1>2, <1>6, <1>7, <1>11, <1>12, <1>13, <1>14, <1>15, <1>16, <2>1 DEF Progress

LEMMA ProgressStep == Sound /\ Progress /\ [Next]_vars => Progress'
<1> SUFFICES ASSUME Sound, Progress, [Next]_vars PROVE Progress'
  OBVIOUS
<1>1. CASE UNCHANGED vars
  BY <1>1 DEF Progress, Walked, Locations, Whole, Matching, Merged, OfRequest, Htaccess, vars
<1>2. QED
  BY <1>1, StepKinds, PreparingProgress, HtaccessProgress, BeginProgress, GoesOnProgress, PhaseProgress

LEMMA ProgressAlways == Spec => [](Sound /\ Progress)
BY InitSound, SoundStep, InitProgress, ProgressStep, PTL DEF Spec

\* The configuration with which the phases after the walks run is that of the
\* server merged with those of the sections one by one, with either Apache.
THEOREM ConfigurationsMergeAlike == Spec => []GroupsMergeAlike
<1>1. Progress => GroupsMergeAlike
  BY DEF Progress, GroupsMergeAlike, Walked, Whole
<1>2. QED
  BY ProgressAlways, <1>1, PTL

-----------------------------------------------------------------------------
(* Configurations say what was written.                                    *)

Mine(s, d, x, y) == IF Says(s, d) THEN x ELSE y

ConfigAsWritten(s) ==
  /\ dir_config[s].kcode = Mine(s, "RubyKanjiCode", s, NULL)
  /\ dir_config[s].load_path = IF IsServer(s) THEN NULL ELSE Mine(s, "RubyAddPath", <<s>>, NULL)
  /\ \A p \in Phases : dir_config[s].handlers[p] = Mine(s, p, <<s>>, NULL)

\* A scope has its own safe level, or the default that there was at its beginning.
LevelAsWritten(s) ==
  IF Says(s, "RubySafeLevel")
    THEN \A w \in ToSet(written) : w.scope = s /\ w.directive = "RubySafeLevel" =>
           dir_config[s].safe_level = w.level
    ELSE /\ dir_config[s].safe_level \in {1, default_safe_level}
         /\ s = "main" => dir_config[s].safe_level = 1
         /\ MainLevelFirst /\ s # "main" => dir_config[s].safe_level = default_safe_level

ServerAsWritten(s) ==
  /\ server_config[s].timeout = Mine(s, "RubyTimeOut", s, NULL)
  /\ server_config[s].restrict_directives <=> Says(s, "RubyRestrictDirectives")
  /\ (s = "main" => stage # "serving") =>
       server_config[s].load_path = Mine(s, "RubyAddPath", <<s>>, <<>>)

MergedAsWritten ==
  /\ dir_config["merged"] = MergeDirConfig(dir_config["main"], dir_config["vhost"])
  /\ server_config["merged"].timeout = Over(Mine("main", "RubyTimeOut", "main", NULL),
                                            Mine("vhost", "RubyTimeOut", "vhost", NULL))
  /\ server_config["merged"].restrict_directives <=>
       Says("main", "RubyRestrictDirectives") \/ Says("vhost", "RubyRestrictDirectives")
  /\ server_config["merged"].load_path =
       Mine("main", "RubyAddPath", <<"main">>, <<>>) \o Mine("vhost", "RubyAddPath", <<"vhost">>, <<>>)

\* A .htaccess file of which a line is refused says what does not come into effect;
\* the phases after the walks are then not reached.
InEffect(s) == s = "htaccess" => Walked \/ r.phase = "htaccess"

AsWritten ==
  /\ \A w \in ToSet(written) : w.scope \in DOMAIN dir_config
  /\ "htaccess" \in DOMAIN dir_config => current = "htaccess"
  /\ \A s \in DOMAIN dir_config \ {"merged"} : InEffect(s) => ConfigAsWritten(s) /\ LevelAsWritten(s)
  /\ ServerAsWritten("main") /\ ServerAsWritten("vhost")
  /\ default_safe_level = dir_config["main"].safe_level
  /\ "merged" \in DOMAIN dir_config => MergedAsWritten
  /\ stage = "serving" =>
       /\ ruby.default_load_path = <<"lib">> \o Mine("main", "RubyAddPath", <<"main">>, <<>>)
       /\ server_config["main"].load_path = NULL

LEMMA SaysSet ==
  \A s, d : Says(s, d) <=> \E w \in ToSet(written) : w.scope = s /\ w.directive = d
BY DEF Says, ToSet

\* What is said in a scope depends on its lines.
LEMMA SaysStays ==
  ASSUME NEW s, \A w : w.scope = s => (w \in ToSet(written)' <=> w \in ToSet(written))
  PROVE  \A d : Says(s, d)' <=> Says(s, d)
<1>1. ASSUME NEW d PROVE Says(s, d) <=> \E w \in ToSet(written) : w.scope = s /\ w.directive = d
  BY SaysSet
<1>2. ASSUME NEW d PROVE Says(s, d)' <=> \E w \in ToSet(written)' : w.scope = s /\ w.directive = d
  BY DEF Says, ToSet
<1>3. QED
  BY <1>1, <1>2

LEMMA ConfigStays ==
  ASSUME NEW s, dir_config'[s] = dir_config[s], default_safe_level' = default_safe_level,
         \A w : w.scope = s \/ w.scope = "main" => (w \in ToSet(written)' <=> w \in ToSet(written))
  PROVE  /\ ConfigAsWritten(s) => ConfigAsWritten(s)'
         /\ LevelAsWritten(s) => LevelAsWritten(s)'
<1>1. \A d : Says(s, d)' <=> Says(s, d)
  BY SaysStays
<1>2. MainLevelFirst' <=> MainLevelFirst
  BY DEF MainLevelFirst
<1>3. ConfigAsWritten(s) => ConfigAsWritten(s)'
  BY <1>1 DEF ConfigAsWritten, Mine
<1>4. LevelAsWritten(s) => LevelAsWritten(s)'
  BY <1>1, <1>2 DEF LevelAsWritten
<1>5. QED
  BY <1>3, <1>4

LEMMA ServerStays ==
  ASSUME NEW s, server_config'[s] = server_config[s], stage' = stage,
         \A w : w.scope = s => (w \in ToSet(written)' <=> w \in ToSet(written))
  PROVE  ServerAsWritten(s) => ServerAsWritten(s)'
<1>1. \A d : Says(s, d)' <=> Says(s, d)
  BY SaysStays
<1>2. QED
  BY <1>1 DEF ServerAsWritten, Mine

\* Once the file is read, nothing else changes than .htaccess files.
LEMMA ServingStays ==
  ASSUME AsWritten, stage = "serving", stage' = stage,
         ruby'.default_load_path = ruby.default_load_path,
         server_config' = server_config, default_safe_level' = default_safe_level,
         DOMAIN dir_config' \ {"htaccess"} = DOMAIN dir_config \ {"htaccess"},
         \A s \in DOMAIN dir_config \ {"htaccess"} : dir_config'[s] = dir_config[s],
         "main" \in DOMAIN dir_config,
         "merged" \in DOMAIN dir_config => "vhost" \in DOMAIN dir_config,
         \A w : w.scope # "htaccess" => (w \in ToSet(written)' <=> w \in ToSet(written)),
         \A w \in ToSet(written)' : w.scope = "htaccess" => "htaccess" \in DOMAIN dir_config',
         "htaccess" \in DOMAIN dir_config' => current' = "htaccess",
         "htaccess" \in DOMAIN dir_config' /\ InEffect("htaccess")' =>
           ConfigAsWritten("htaccess")' /\ LevelAsWritten("htaccess")'
  PROVE  AsWritten'
<1>1. \A w \in ToSet(written)' : w.scope \in DOMAIN dir_config'
  BY DEF AsWritten
<1>2. ASSUME NEW s \in DOMAIN dir_config' \ {"merged"}, InEffect(s)'
      PROVE  ConfigAsWritten(s)' /\ LevelAsWritten(s)'
  <2>1. CASE s = "htaccess"
    <3>1. "htaccess" \in DOMAIN dir_config' /\ InEffect("htaccess")'
      BY <1>2, <2>1
    <3>2. QED
      BY <2>1, <3>1
  <2>2. CASE s # "htaccess"
    <3>1. s \in DOMAIN dir_config \ {"merged"} /\ dir_config'[s] = dir_config[s] /\ InEffect(s)
      BY <2>2 DEF InEffect
    <3>2. ConfigAsWritten(s) /\ LevelAsWritten(s)
      BY <3>1 DEF AsWritten
    <3>3. QED
      BY <2>2, <3>1, <3>2, ConfigStays
  <2>3. QED
    BY <2>1, <2>2
<1>3. ServerAsWritten("main")' /\ ServerAsWritten("vhost")'
  BY ServerStays DEF AsWritten
<1>4. default_safe_level' = dir_config'["main"].safe_level
  BY DEF AsWritten
<1>5. (\A d : Says("main", d)' <=> Says("main", d)) /\ (\A d : Says("vhost", d)' <=> Says("vhost", d))
  BY SaysStays
<1>6. ASSUME "merged" \in DOMAIN dir_config'
      PROVE  MergedAsWritten'
  <2>1. dir_config'["merged"] = dir_config["merged"] /\ dir_config'["main"] = dir_config["main"]
        /\ dir_config'["vhost"] = dir_config["vhost"] /\ "merged" \in DOMAIN dir_config
    BY <1>6
  <2>2. MergedAsWritten
    BY <2>1 DEF AsWritten
  <2>3. QED
    BY <1>5, <2>1, <2>2 DEF MergedAsWritten, Mine
<1>7. /\ ruby'.default_load_path = <<"lib">> \o Mine("main", "RubyAddPath", <<"main">>, <<>>)'
      /\ server_config'["main"].load_path = NULL
  BY <1>5 DEF AsWritten, Mine
<1>8. QED
  BY <1>1, <1>2, <1>3, <1>4, <1>6, <1>7 DEF AsWritten

LEMMA PlaceType ==
  ASSUME Sound, NEW d
  PROVE  Place(d) \in Nat
<1> DEFINE I == {i \in 1..Len(topic) : topic[i] = d}
<1>1. Place(d) = IF I # {} THEN Min(I) ELSE 0
  BY Zenon DEF Place, First, SelectInSeq
<1>2. I # {} => Min(I) \in Nat
  <2>1. I \in SUBSET Nat
    OBVIOUS
  <2> HIDE DEF I
  <2>2. QED
    BY <2>1, MinFact
<1> HIDE DEF I
<1>3. QED
  BY <1>1, <1>2

\* A directive is used once in a scope, and its line is the only new one.
LEMMA NewLine ==
  ASSUME Sound, NEW d, NEW l, Line(d, l)
  PROVE  /\ ~ Says(current, d)
         /\ ToSet(written)' = ToSet(written) \cup
              {[scope |-> current, directive |-> d, level |-> l, early |-> DOMAIN dir_config = {"main"}]}
         /\ \A s, e : Says(s, e)' <=> Says(s, e) \/ (s = current /\ e = d)
<1> DEFINE rec == [scope |-> current, directive |-> d, level |-> l, early |-> DOMAIN dir_config = {"main"}]
<1>1. /\ written' = Append(written, rec)
      /\ \A i \in DOMAIN written :
           written[i].scope = current => Place(written[i].directive) < Place(d)
  BY DEF Line
<1>2. rec.scope = current /\ rec.directive = d
  OBVIOUS
<1>3. ~ Says(current, d)
  <2>1. ASSUME NEW i \in DOMAIN written, written[i].scope = current, written[i].directive = d
        PROVE  FALSE
    <3>1. Place(d) < Place(d) /\ Place(d) \in Nat
      BY <1>1, <2>1, PlaceType
    <3>2. QED
      BY <3>1
  <2>2. QED
    BY <2>1 DEF Says
<1> HIDE DEF rec
<1>4. written \in Seq(LineRecords \cup {rec}) /\ rec \in LineRecords \cup {rec}
  <2>1. written \in Seq(LineRecords)
    BY DEF Sound, TypeOK, LineRecords
  <2>2. QED
    BY <2>1, SeqMonotonic
<1>5. ToSet(written') = ToSet(written) \cup {rec}
  BY <1>1, <1>4, AppendElements DEF ToSet
<1>6. ASSUME NEW s, NEW e
      PROVE  Says(s, e)' <=> Says(s, e) \/ (s = current /\ e = d)
  <2>1. Says(s, e)' <=> \E w \in ToSet(written') : w.scope = s /\ w.directive = e
    BY DEF Says, ToSet
  <2>2. QED
    BY <1>2, <1>5, <2>1, SaysSet
<1>7. QED
  BY <1>3, <1>5, <1>6 DEF rec

LEMMA TakenConfig ==
  ASSUME Sound, NEW d, NEW l, Taken(d, l), ConfigAsWritten(current)
  PROVE  \A s : s = current => ConfigAsWritten(s)'
<1>1. \A s, e : Says(s, e)' <=> Says(s, e) \/ (s = current /\ e = d)
  BY NewLine DEF Taken, Allowed
<1>2. ~ Says(current, d)
  BY NewLine DEF Taken, Allowed
<1>3. DirTaken(d, l)
  BY DEF Taken
<1>4. Pushed(NULL, current) = <<current>>
  BY DEF Pushed
<1>5. ASSUME NEW s, s = current PROVE ConfigAsWritten(s)'
  <2>1. dir_config'[s].kcode = Mine(s, "RubyKanjiCode", s, NULL)'
    BY <1>1, <1>3, <1>5 DEF DirTaken, ConfigAsWritten, Mine
  <2>2. dir_config'[s].load_path = IF IsServer(s) THEN NULL ELSE Mine(s, "RubyAddPath", <<s>>, NULL)'
    BY <1>1, <1>2, <1>3, <1>4, <1>5 DEF DirTaken, ConfigAsWritten, Mine
  <2>3. ASSUME NEW p \in Phases PROVE dir_config'[s].handlers[p] = Mine(s, p, <<s>>, NULL)'
    BY <1>1, <1>2, <1>3, <1>4, <1>5 DEF DirTaken, ConfigAsWritten, Mine
  <2>4. QED
    BY <2>1, <2>2, <2>3 DEF ConfigAsWritten, IsServer
<1>6. QED
  BY <1>5

LEMMA TakenLevel ==
  ASSUME Sound, NEW d, NEW l, Taken(d, l), LevelAsWritten(current), LevelAsWritten("main"),
         default_safe_level = dir_config["main"].safe_level
  PROVE  \A s \in DOMAIN dir_config : LevelAsWritten(s) => LevelAsWritten(s)'
<1> DEFINE rec == [scope |-> current, directive |-> d, level |-> l, early |-> DOMAIN dir_config = {"main"}]
<1>1. /\ \A s, e : Says(s, e)' <=> Says(s, e) \/ (s = current /\ e = d)
      /\ ~ Says(current, d)
      /\ ToSet(written)' = ToSet(written) \cup {rec}
  BY NewLine DEF Taken, Allowed
<1>2. rec.scope = current /\ rec.directive = d /\ rec.level = l /\ (rec.early <=> DOMAIN dir_config = {"main"})
  OBVIOUS
<1> HIDE DEF rec
<1>3. /\ dir_config'[current].safe_level = IF d = "RubySafeLevel" THEN l ELSE dir_config[current].safe_level
      /\ \A s \in DOMAIN dir_config \ {current} : dir_config'[s] = dir_config[s]
      /\ default_safe_level' = IF d = "RubySafeLevel" THEN DefaultLevel(l) ELSE default_safe_level
  BY DEF Taken, DirTaken
<1>4. CASE d # "RubySafeLevel"
  <2>1. MainLevelFirst' <=> MainLevelFirst
    BY <1>1, <1>2, <1>4 DEF MainLevelFirst
  <2>2. ASSUME NEW s \in DOMAIN dir_config, LevelAsWritten(s) PROVE LevelAsWritten(s)'
    <3>1. dir_config'[s].safe_level = dir_config[s].safe_level /\ default_safe_level' = default_safe_level
      BY <1>3, <1>4
    <3>2. Says(s, "RubySafeLevel")' <=> Says(s, "RubySafeLevel")
      BY <1>1, <1>4
    <3>3. \A w \in ToSet(written)' : w.directive = "RubySafeLevel" => w \in ToSet(written)
      BY <1>1, <1>2, <1>4
    <3>4. QED
      BY <2>1, <2>2, <3>1, <3>2, <3>3 DEF LevelAsWritten
  <2>3. QED
    BY <2>2
<1>5. CASE d = "RubySafeLevel"
  <2>1. ASSUME NEW s \in DOMAIN dir_config, s = current PROVE LevelAsWritten(s)'
    <3>1. Says(s, "RubySafeLevel")'
      BY <1>1, <1>5, <2>1
    <3>2. ASSUME NEW w \in ToSet(written)', w.scope = s, w.directive = "RubySafeLevel"
          PROVE  dir_config'[s].safe_level = w.level
      <4>1. w \notin ToSet(written)
        BY <1>1, <1>5, <2>1, <3>2, SaysSet
      <4>2. w = rec
        BY <1>1, <3>2, <4>1
      <4>3. QED
        BY <1>2, <1>3, <1>5, <2>1, <4>2
    <3>3. QED
      BY <3>1, <3>2 DEF LevelAsWritten
  <2>2. ASSUME NEW s \in DOMAIN dir_config, s # current, LevelAsWritten(s) PROVE LevelAsWritten(s)'
    <3>1. dir_config'[s].safe_level = dir_config[s].safe_level
      BY <1>3, <2>2
    <3>2. Says(s, "RubySafeLevel")' <=> Says(s, "RubySafeLevel")
      BY <1>1, <2>2
    <3>3. \A w \in ToSet(written)' : w.scope = s => w \in ToSet(written)
      BY <1>1, <1>2, <2>2
    <3>4. CASE Says(s, "RubySafeLevel")
      BY <2>2, <3>1, <3>2, <3>3, <3>4 DEF LevelAsWritten
    <3>5. CASE ~ Says(s, "RubySafeLevel") /\ current # "main"
      <4>1. default_safe_level' = default_safe_level
        BY <1>3, <1>5, <3>5 DEF DefaultLevel
      <4>2. MainLevelFirst' => MainLevelFirst
        BY <1>1 DEF MainLevelFirst
      <4>3. QED
        BY <2>2, <3>1, <3>2, <3>5, <4>1, <4>2 DEF LevelAsWritten
    <3>6. CASE ~ Says(s, "RubySafeLevel") /\ current = "main"
      <4>1. dir_config[s].safe_level = 1
        <5>1. dir_config["main"].safe_level = 1
          BY <1>1, <1>5, <3>6 DEF LevelAsWritten
        <5>2. QED
          BY <2>2, <3>6, <5>1 DEF LevelAsWritten
      <4>2. ~ MainLevelFirst'
        <5>1. rec \in ToSet(written)' /\ rec.scope = "main" /\ rec.directive = "RubySafeLevel"
          BY <1>1, <1>2, <1>5, <3>6
        <5>2. ~ rec.early
          BY <1>2, <2>2, <3>6
        <5>3. QED
          BY <5>1, <5>2 DEF MainLevelFirst
      <4>3. QED
        BY <2>2, <3>1, <3>2, <3>6, <4>1, <4>2 DEF LevelAsWritten
    <3>7. QED
      BY <3>4, <3>5, <3>6
  <2>3. QED
    BY <2>1, <2>2
<1>6. QED
  BY <1>4, <1>5

LEMMA TakenServer ==
  ASSUME Sound, NEW d, NEW l, Taken(d, l), IsServer(current), ServerAsWritten(current), stage = "reading"
  PROVE  \A s : s = current => ServerAsWritten(s)'
<1>1. \A s, e : Says(s, e)' <=> Says(s, e) \/ (s = current /\ e = d)
  BY NewLine DEF Taken, Allowed
<1>2. ~ Says(current, d)
  BY NewLine DEF Taken, Allowed
<1>3. ServerTaken(d) /\ stage' = "reading"
  BY DEF Taken, Allowed, Line
<1>4. Append(<<>>, current) = <<current>>
  OBVIOUS
<1>5. ASSUME NEW s, s = current PROVE ServerAsWritten(s)'
  <2>1. server_config'[s].timeout = Mine(s, "RubyTimeOut", s, NULL)'
    BY <1>1, <1>3, <1>5 DEF ServerTaken, ServerAsWritten, Mine
  <2>2. server_config'[s].restrict_directives <=> Says(s, "RubyRestrictDirectives")'
    BY <1>1, <1>3, <1>5 DEF ServerTaken, ServerAsWritten
  <2>3. server_config'[s].load_path = Mine(s, "RubyAddPath", <<s>>, <<>>)'
    BY <1>1, <1>2, <1>3, <1>4, <1>5 DEF ServerTaken, ServerAsWritten, Mine
  <2>4. QED
    BY <2>1, <2>2, <2>3 DEF ServerAsWritten
<1>6. QED
  BY <1>5

LEMMA InitAsWritten == Init => AsWritten
<1> SUFFICES ASSUME Init PROVE AsWritten
  OBVIOUS
<1>1. /\ written = <<>> /\ stage = "reading" /\ default_safe_level = 1 /\ ToSet(written) = {}
      /\ dir_config = [s \in {"main"} |-> CreateDirConfig(1)]
      /\ server_config = [s \in {"main", "vhost", "merged"} |-> CreateServerConfig]
  BY DEF Init, ToSet
<1>2. \A s, d : ~ Says(s, d)
  BY <1>1, SaysSet
<1>3. /\ DOMAIN dir_config = {"main"} /\ dir_config["main"] = CreateDirConfig(1)
      /\ server_config["main"] = CreateServerConfig /\ server_config["vhost"] = CreateServerConfig
  BY <1>1
<1>4. ConfigAsWritten("main") /\ LevelAsWritten("main")
  BY <1>2, <1>3 DEF ConfigAsWritten, LevelAsWritten, Mine, CreateDirConfig, IsServer
<1>5. ServerAsWritten("main") /\ ServerAsWritten("vhost")
  BY <1>2, <1>3 DEF ServerAsWritten, Mine, CreateServerConfig
<1>6. default_safe_level = dir_config["main"].safe_level
  BY <1>1, <1>3 DEF CreateDirConfig
<1>7. QED
  BY <1>1, <1>3, <1>4, <1>5, <1>6 DEF AsWritten

LEMMA TakenWritten ==
  ASSUME Sound, Sound', Progress, AsWritten, NEW d \in Directives, NEW l \in Int \cup {NULL}, Taken(d, l)
  PROVE  AsWritten'
<1> DEFINE rec == [scope |-> current, directive |-> d, level |-> l, early |-> DOMAIN dir_config = {"main"}]
<1>1. /\ Line(d, l) /\ r' = r /\ UNCHANGED <<stage, current, sections>>
      /\ DOMAIN dir_config' = DOMAIN dir_config
      /\ \A s \in DOMAIN dir_config \ {current} : dir_config'[s] = dir_config[s]
  BY DEF Taken, Allowed, Line
<1>2. /\ \A s, e : Says(s, e)' <=> Says(s, e) \/ (s = current /\ e = d)
      /\ ToSet(written)' = ToSet(written) \cup {rec}
  BY <1>1, NewLine
<1>3. rec.scope = current
  OBVIOUS
<1> HIDE DEF rec
<1>4. current \in DOMAIN dir_config /\ "main" \in DOMAIN dir_config /\ current # "merged"
  BY SoundFacts, Names
<1>5. InEffect(current) => ConfigAsWritten(current) /\ LevelAsWritten(current)
  BY <1>4 DEF AsWritten
<1>6. LevelAsWritten("main") /\ default_safe_level = dir_config["main"].safe_level
  BY <1>4 DEF AsWritten, InEffect
<1>7. CASE stage = "reading" /\ current # "htaccess"
  <2>1. "merged" \notin DOMAIN dir_config /\ "htaccess" \notin DOMAIN dir_config
    BY <1>7, SoundFacts DEF Sound, Structure
  <2>2. \A w \in ToSet(written)' : w.scope \in DOMAIN dir_config'
    BY <1>1, <1>2, <1>3, <1>4 DEF AsWritten
  <2>3. ConfigAsWritten(current) /\ LevelAsWritten(current)
    BY <1>5, <1>7 DEF InEffect
  <2>4. ASSUME NEW s \in DOMAIN dir_config'
        PROVE  ConfigAsWritten(s)' /\ LevelAsWritten(s)'
    <3>1. ConfigAsWritten(s) /\ LevelAsWritten(s)
      <4>1. s \in DOMAIN dir_config /\ s # "merged" /\ s # "htaccess"
        BY <1>1, <2>1
      <4>2. QED
        BY <4>1 DEF AsWritten, InEffect
    <3>2. LevelAsWritten(s)'
      BY <1>1, <1>6, <2>3, <3>1, TakenLevel
    <3>3. CASE s = current
      BY <2>3, <3>2, <3>3, TakenConfig
    <3>4. CASE s # current
      <4>1. \A e : Says(s, e)' <=> Says(s, e)
        BY <1>2, <3>4
      <4>2. dir_config'[s] = dir_config[s]
        BY <1>1, <3>4
      <4>3. ConfigAsWritten(s)'
        BY <3>1, <4>1, <4>2 DEF ConfigAsWritten, Mine
      <4>4. QED
        BY <3>2, <4>3
    <3>5. QED
      BY <3>3, <3>4
  <2>5. ASSUME NEW s \in {"main", "vhost"} PROVE ServerAsWritten(s)'
    <3>1. ServerAsWritten(s)
      BY DEF AsWritten
    <3>2. CASE s = current
      BY <1>7, <3>1, <3>2, TakenServer DEF IsServer
    <3>3. CASE s # current
      <4>1. \A e : Says(s, e)' <=> Says(s, e)
        BY <1>2, <3>3
      <4>2. server_config'[s] = server_config[s]
        BY <3>3 DEF Taken, Servers
      <4>3. QED
        BY <1>1, <3>1, <4>1, <4>2 DEF ServerAsWritten, Mine
    <3>4. QED
      BY <3>2, <3>3
  <2>6. default_safe_level' = dir_config'["main"].safe_level
    <3>1. CASE current = "main"
      BY <1>6, <3>1 DEF Taken, DirTaken, DefaultLevel
    <3>2. CASE current # "main"
      BY <1>1, <1>4, <1>6, <3>2 DEF Taken, DefaultLevel
    <3>3. QED
      BY <3>1, <3>2
  <2>7. QED
    BY <1>1, <1>7, <2>1, <2>2, <2>4, <2>5, <2>6 DEF AsWritten
<1>8. CASE stage = "serving" /\ current = "htaccess" /\ r.phase = "htaccess"
  <2>1. HtaccessRead
    BY <1>8, TakenKind DEF Preparing
  <2>2. /\ stage' = stage /\ ruby'.default_load_path = ruby.default_load_path
        /\ server_config' = server_config /\ default_safe_level' = default_safe_level
        /\ DOMAIN dir_config' \ {"htaccess"} = DOMAIN dir_config \ {"htaccess"}
        /\ \A s \in DOMAIN dir_config \ {"htaccess"} : dir_config'[s] = dir_config[s]
        /\ current' = "htaccess"
    BY <2>1 DEF HtaccessRead
  <2>3. "merged" \in DOMAIN dir_config => "vhost" \in DOMAIN dir_config
    BY DEF Sound, Structure
  <2>4. /\ \A w : w.scope # "htaccess" => (w \in ToSet(written)' <=> w \in ToSet(written))
        /\ "htaccess" \in DOMAIN dir_config'
    BY <1>1, <1>2, <1>3, <1>4, <1>8
  <2>5. ConfigAsWritten("htaccess") /\ LevelAsWritten("htaccess")
    BY <1>5, <1>8 DEF InEffect
  <2>6. ConfigAsWritten("htaccess")'
    <3>1. \A s : s = current => ConfigAsWritten(s)'
      BY <1>8, <2>5, TakenConfig
    <3>2. QED
      BY <1>8, <3>1
  <2>7. LevelAsWritten("htaccess")'
    <3>1. \A s \in DOMAIN dir_config : LevelAsWritten(s) => LevelAsWritten(s)'
      BY <1>6, <1>8, <2>5, TakenLevel
    <3>2. QED
      BY <1>4, <1>8, <2>5, <3>1
  <2>8. QED
    BY <1>4, <1>8, <2>2, <2>3, <2>4, <2>6, <2>7, ServingStays
<1>9. QED
  BY <1>1, <1>7, <1>8, WhereLines

LEMMA OpenedWritten ==
  ASSUME Sound, Progress, AsWritten, NEW scope \in AllScopes, Opened(scope),
         scope \notin DOMAIN dir_config, UNCHANGED <<stage, r, written>>,
         scope = "htaccess" <=> stage # "reading", stage # "starting"
  PROVE  AsWritten'
<1>1. /\ DOMAIN dir_config' = DOMAIN dir_config \cup {scope}
      /\ \A s \in DOMAIN dir_config : s # scope => dir_config'[s] = dir_config[s]
      /\ dir_config'[scope] = CreateDirConfig(default_safe_level)
      /\ current' = scope
      /\ UNCHANGED <<default_safe_level, server_config, ruby>>
  BY OpenedTaken
<1>2. "main" \in DOMAIN dir_config /\ scope # "merged" /\ scope # "main"
      /\ ("merged" \in DOMAIN dir_config => "vhost" \in DOMAIN dir_config)
      /\ (stage = "reading" => "merged" \notin DOMAIN dir_config /\ "htaccess" \notin DOMAIN dir_config)
  BY SoundFacts, Names DEF Sound, Structure
<1>3. \A d : ~ Says(scope, d)
  BY SaysSet DEF AsWritten
<1>4. ToSet(written)' = ToSet(written) /\ \A s, d : Says(s, d)' <=> Says(s, d)
  BY DEF ToSet, Says
<1>5. ConfigAsWritten(scope)' /\ LevelAsWritten(scope)'
  BY <1>1, <1>2, <1>3, <1>4 DEF ConfigAsWritten, LevelAsWritten, Mine, CreateDirConfig
<1>6. CASE stage = "reading"
  <2>1. ASSUME NEW s \in DOMAIN dir_config' PROVE ConfigAsWritten(s)' /\ LevelAsWritten(s)'
    <3>1. CASE s = scope
      BY <1>5, <3>1
    <3>2. CASE s # scope
      <4>1. s \in DOMAIN dir_config /\ s # "merged" /\ s # "htaccess" /\ dir_config'[s] = dir_config[s]
        BY <1>1, <1>2, <1>6, <2>1, <3>2
      <4>2. ConfigAsWritten(s) /\ LevelAsWritten(s)
        BY <4>1 DEF AsWritten, InEffect
      <4>3. QED
        BY <1>1, <1>4, <4>1, <4>2, ConfigStays
    <3>3. QED
      BY <3>1, <3>2
  <2>2. ServerAsWritten("main")' /\ ServerAsWritten("vhost")'
    BY <1>1, <1>4, ServerStays DEF AsWritten
  <2>3. QED
    BY <1>1, <1>2, <1>4, <1>6, <2>1, <2>2 DEF AsWritten
<1>7. CASE stage # "reading"
  <2>1. scope = "htaccess" /\ stage = "serving"
    BY <1>7, SoundFacts
  <2>2. ConfigAsWritten("htaccess")' /\ LevelAsWritten("htaccess")'
    BY <1>5, <2>1
  <2>3. /\ DOMAIN dir_config' \ {"htaccess"} = DOMAIN dir_config \ {"htaccess"}
        /\ \A s \in DOMAIN dir_config \ {"htaccess"} : dir_config'[s] = dir_config[s]
        /\ "htaccess" \in DOMAIN dir_config' /\ current' = "htaccess"
        /\ ruby' = ruby
    BY <1>1, <2>1
  <2>4. QED
    BY <1>1, <1>2, <1>4, <2>1, <2>2, <2>3, ServingStays
<1>8. QED
  BY <1>6, <1>7

LEMMA RefusedWritten ==
  ASSUME Sound, Sound', Progress, AsWritten, RefusedLine
  PROVE  AsWritten'
<1>1. HtaccessRead
  BY HtaccessKind
<1>2. /\ stage = "serving" /\ stage' = stage /\ ruby'.default_load_path = ruby.default_load_path
      /\ server_config' = server_config /\ default_safe_level' = default_safe_level
      /\ DOMAIN dir_config' \ {"htaccess"} = DOMAIN dir_config \ {"htaccess"}
      /\ \A s \in DOMAIN dir_config \ {"htaccess"} : dir_config'[s] = dir_config[s]
      /\ current' = "htaccess"
  BY <1>1 DEF HtaccessRead
<1>3. "main" \in DOMAIN dir_config /\ ("merged" \in DOMAIN dir_config => "vhost" \in DOMAIN dir_config)
      /\ "htaccess" \in DOMAIN dir_config'
  BY <1>2 DEF Sound, Structure
<1>4. PICK d \in ToSet(topic) \ ServerOnly : Line(d, NULL)
  BY DEF RefusedLine
<1> DEFINE rec == [scope |-> current, directive |-> d, level |-> NULL, early |-> DOMAIN dir_config = {"main"}]
<1>5. ToSet(written)' = ToSet(written) \cup {rec} /\ rec.scope = current
  BY <1>4, NewLine
<1>6. current = "htaccess"
  BY DEF RefusedLine, Refused
<1> HIDE DEF rec
<1>7. \A w : w.scope # "htaccess" => (w \in ToSet(written)' <=> w \in ToSet(written))
  BY <1>5, <1>6
<1>8. ~ InEffect("htaccess")'
  <2> DEFINE q == Follows("handler", r.dconf)
  <2>1. q \in ToSet(Order) /\ At("handler") < At(q)
    BY FollowsAt, OrderSet DEF Phases
  <2> HIDE DEF q
  <2>2. r'.phase = q
    <3>1. r' = [r EXCEPT !.phase = q]
      BY DEF RefusedLine, q
    <3>2. QED
      BY <3>1, SoundRequest DEF RequestRecords
  <2>3. At(q) \in 14..16
    BY <2>1, AtSet, AtFacts
  <2>4. q # "htaccess" /\ q \notin AfterWalks
    BY <2>1, <2>3, AtFacts, AtSet
  <2>5. \A i \in DOMAIN ran : ran[i].phase \notin AfterWalks
    <3>1. r.phase = "htaccess"
      BY <1>1 DEF HtaccessRead
    <3>2. QED
      BY <3>1, NotWalked, AtFacts
  <2>6. ran' = ran
    BY <1>1 DEF HtaccessRead
  <2>7. QED
    BY <2>2, <2>4, <2>5, <2>6 DEF InEffect, Walked
<1>9. QED
  BY <1>2, <1>3, <1>7, <1>8, ServingStays

LEMMA OpenWritten ==
  ASSUME Sound, Progress, AsWritten,
         \/ OpenVirtualHost \/ OpenHtaccess \/ \E kind \in {"Directory", "Location"} : OpenSection(kind)
  PROVE  AsWritten'
<1>1. CASE OpenVirtualHost
  <2>1. /\ stage = "reading" /\ "vhost" \notin DOMAIN dir_config /\ Opened("vhost")
        /\ UNCHANGED <<stage, r, written>> /\ "vhost" \in AllScopes
    BY <1>1, Names DEF OpenVirtualHost
  <2>2. QED
    BY <2>1, OpenedWritten
<1>2. CASE OpenHtaccess
  <2>1. /\ r.phase = "htaccess" /\ current # "htaccess" /\ Opened("htaccess")
        /\ UNCHANGED <<stage, r, written>> /\ "htaccess" \in AllScopes
    BY <1>2, Names DEF OpenHtaccess
  <2>2. stage = "serving" /\ "htaccess" \notin DOMAIN dir_config
    BY <2>1, SoundRequest DEF AsWritten
  <2>3. QED
    BY <2>1, <2>2, OpenedWritten
<1>3. ASSUME NEW kind \in {"Directory", "Location"}, OpenSection(kind) PROVE AsWritten'
  <2> DEFINE n == Len(sections) + 1
             name == SectionNames[n]
  <2>1. /\ stage = "reading" /\ Opened(name) /\ Len(sections) < Len(SectionNames)
        /\ UNCHANGED <<stage, r, written>>
    BY <1>3 DEF OpenSection
  <2>2. /\ Len(sections) \in Nat /\ DOMAIN sections = 1..Len(sections)
        /\ SectionNames \in Seq(Sections) /\ Len(SectionNames) \in Nat
        /\ DOMAIN SectionNames = 1..Len(SectionNames)
    BY SectionsConfigured, LenProperties, ConfigurationAssumption
  <2>3. n \in DOMAIN SectionNames /\ name \in Sections
    BY <2>1, <2>2
  <2>4. name \notin DOMAIN dir_config
    <3>1. ASSUME name \in DOMAIN dir_config PROVE FALSE
      <4>1. name \in Open
        BY <2>3, <3>1 DEF Sound, Structure
      <4>2. PICK i \in DOMAIN sections : name = sections[i].name
        BY <4>1 DEF Open, ToSet
      <4>3. i \in DOMAIN SectionNames /\ SectionNames[i] = SectionNames[n] /\ i # n
        BY <2>1, <2>2, <4>2 DEF Sound, Structure
      <4>4. QED
        BY <2>3, <4>3, ConfigurationAssumption
    <3>2. QED
      BY <3>1
  <2>5. name \in AllScopes /\ name # "htaccess"
    BY <2>3, Names
  <2> HIDE DEF name
  <2>6. QED
    BY <2>1, <2>4, <2>5, OpenedWritten
<1>4. QED
  BY <1>1, <1>2, <1>3

LEMMA CloseWritten ==
  ASSUME Sound, AsWritten, CloseSection
  PROVE  AsWritten'
<1>1. /\ stage = "reading"
      /\ UNCHANGED <<stage, default_safe_level, server_config, dir_config, ruby, r, written>>
  BY DEF CloseSection
<1>2. "htaccess" \notin DOMAIN dir_config
  BY <1>1, SoundFacts
<1>3. \A s, d : Says(s, d)' <=> Says(s, d)
  BY <1>1 DEF Says
<1>4. \A s : /\ ConfigAsWritten(s)' <=> ConfigAsWritten(s)
             /\ LevelAsWritten(s)' <=> LevelAsWritten(s)
             /\ ServerAsWritten(s)' <=> ServerAsWritten(s)
  BY <1>1, <1>3 DEF ConfigAsWritten, LevelAsWritten, ServerAsWritten, Mine, MainLevelFirst
<1>5. MergedAsWritten' <=> MergedAsWritten
  BY <1>1, <1>3 DEF MergedAsWritten, Mine
<1>6. QED
  BY <1>1, <1>2, <1>4, <1>5 DEF AsWritten, InEffect

LEMMA EndWritten ==
  ASSUME Sound, AsWritten, EndOfFile
  PROVE  AsWritten'
<1>1. /\ stage = "reading" /\ stage' = "starting"
      /\ UNCHANGED <<current, default_safe_level, ruby, r, written>>
  BY DEF EndOfFile
<1>2. "htaccess" \notin DOMAIN dir_config /\ "merged" \notin DOMAIN dir_config /\ "main" \in DOMAIN dir_config
  BY <1>1, SoundFacts DEF Sound, Structure
<1>3. /\ \A s \in DOMAIN dir_config : dir_config'[s] = dir_config[s]
      /\ \A s \in {"main", "vhost"} : server_config'[s] = server_config[s]
      /\ IF "vhost" \in DOMAIN dir_config
           THEN /\ DOMAIN dir_config' = DOMAIN dir_config \cup {"merged"}
                /\ server_config'["merged"] = MergeServerConfig(server_config["main"], server_config["vhost"])
                /\ dir_config'["merged"] = MergeDirConfig(dir_config["main"], dir_config["vhost"])
           ELSE DOMAIN dir_config' = DOMAIN dir_config
  <2>1. CASE "vhost" \in DOMAIN dir_config
    <3> DEFINE sc == MergeServerConfig(server_config["main"], server_config["vhost"])
               dc == MergeDirConfig(dir_config["main"], dir_config["vhost"])
    <3>1. /\ server_config' = [server_config EXCEPT !["merged"] = sc]
          /\ dir_config' = [s \in DOMAIN dir_config \cup {"merged"} |->
               IF s = "merged" THEN dc ELSE dir_config[s]]
      BY <2>1 DEF EndOfFile
    <3> HIDE DEF sc, dc
    <3>2. /\ DOMAIN dir_config' = DOMAIN dir_config \cup {"merged"} /\ dir_config'["merged"] = dc
          /\ \A s \in DOMAIN dir_config : dir_config'[s] = dir_config[s]
      BY <1>2, <3>1
    <3>3. server_config'["merged"] = sc /\ \A s \in {"main", "vhost"} : server_config'[s] = server_config[s]
      BY <3>1, SoundFacts DEF Servers
    <3>4. QED
      BY <2>1, <3>2, <3>3 DEF sc, dc
  <2>2. CASE "vhost" \notin DOMAIN dir_config
    BY <2>2 DEF EndOfFile
  <2>3. QED
    BY <2>1, <2>2
<1>4. ToSet(written)' = ToSet(written) /\ (\A s, d : Says(s, d)' <=> Says(s, d))
  BY <1>1 DEF ToSet, Says
<1>5. ASSUME NEW s \in DOMAIN dir_config' \ {"merged"}
      PROVE  ConfigAsWritten(s)' /\ LevelAsWritten(s)'
  <2>1. s \in DOMAIN dir_config \ {"merged"} /\ dir_config'[s] = dir_config[s] /\ s # "htaccess"
    BY <1>2, <1>3
  <2>2. ConfigAsWritten(s) /\ LevelAsWritten(s)
    BY <2>1 DEF AsWritten, InEffect
  <2>3. QED
    BY <1>1, <1>4, <2>1, <2>2, ConfigStays
<1>6. ASSUME NEW s \in {"main", "vhost"} PROVE ServerAsWritten(s) /\ ServerAsWritten(s)'
  BY <1>1, <1>3, <1>4 DEF AsWritten, ServerAsWritten, Mine
<1>7. default_safe_level' = dir_config'["main"].safe_level
  BY <1>1, <1>2, <1>3 DEF AsWritten
<1>8. ASSUME "merged" \in DOMAIN dir_config' PROVE MergedAsWritten'
  <2>1. /\ "vhost" \in DOMAIN dir_config
        /\ server_config'["merged"] = MergeServerConfig(server_config["main"], server_config["vhost"])
        /\ dir_config'["merged"] = MergeDirConfig(dir_config'["main"], dir_config'["vhost"])
    BY <1>2, <1>3, <1>8
  <2> DEFINE a == server_config["main"]
             b == server_config["vhost"]
             m == server_config'["merged"]
  <2>2. /\ m.timeout = Over(a.timeout, b.timeout)
        /\ m.restrict_directives = MergeFlag(a.restrict_directives, b.restrict_directives)
        /\ m.load_path = MergePath(a.load_path, b.load_path)
    BY <2>1 DEF MergeServerConfig
  <2>3. /\ a.timeout = Mine("main", "RubyTimeOut", "main", NULL)
        /\ b.timeout = Mine("vhost", "RubyTimeOut", "vhost", NULL)
        /\ a.restrict_directives <=> Says("main", "RubyRestrictDirectives")
        /\ b.restrict_directives <=> Says("vhost", "RubyRestrictDirectives")
        /\ a.load_path = Mine("main", "RubyAddPath", <<"main">>, <<>>)
        /\ b.load_path = Mine("vhost", "RubyAddPath", <<"vhost">>, <<>>)
    BY <1>1, <1>6 DEF ServerAsWritten
  <2>4. a.load_path # NULL /\ b.load_path # NULL
    BY <1>1, SoundFacts, Names
  <2>5. a.restrict_directives \in BOOLEAN /\ b.restrict_directives \in BOOLEAN
    BY SoundFacts DEF Servers, ServerConfigs
  <2>6. m.load_path = a.load_path \o b.load_path
    BY <2>2, <2>4 DEF MergePath
  <2>7. m.restrict_directives <=> a.restrict_directives \/ b.restrict_directives
    BY <2>2, <2>5 DEF MergeFlag
  <2> HIDE DEF a, b
  <2>8. /\ m.timeout = Over(Mine("main", "RubyTimeOut", "main", NULL), Mine("vhost", "RubyTimeOut", "vhost", NULL))
        /\ m.restrict_directives <=>
             Says("main", "RubyRestrictDirectives") \/ Says("vhost", "RubyRestrictDirectives")
        /\ m.load_path = Mine("main", "RubyAddPath", <<"main">>, <<>>)
                           \o Mine("vhost", "RubyAddPath", <<"vhost">>, <<>>)
    BY <2>2, <2>3, <2>6, <2>7
  <2>9. QED
    BY <1>4, <2>1, <2>8 DEF MergedAsWritten, Mine
<1>9. QED
  BY <1>1, <1>2, <1>3, <1>4, <1>5, <1>6, <1>7, <1>8 DEF AsWritten

LEMMA InitInterpreterWritten ==
  ASSUME Sound, AsWritten, InitInterpreter
  PROVE  AsWritten'
<1> DEFINE default == <<"lib">> \o server_config["main"].load_path
           sconf(scope) == IF ServerOf(scope) = "main" THEN NULL ELSE server_config["vhost"]
           path(scope) == default \o PathOf(sconf(scope)) \o PathOf(dir_config[scope])
           after == IF required = <<>> THEN default ELSE path(Last(required))
<1>1. /\ stage = "starting" /\ stage' = "serving"
      /\ server_config' = [server_config EXCEPT !["main"].load_path = NULL]
      /\ ruby' = [ruby EXCEPT !.default_load_path = default, !.load_path = after]
      /\ UNCHANGED <<current, default_safe_level, dir_config, r, written>>
  BY DEF InitInterpreter
<1> HIDE DEF after
<1>2. ruby'.default_load_path = <<"lib">> \o server_config["main"].load_path
  BY <1>1, SoundFacts DEF RubyRecords
<1>3. /\ server_config'["main"] = [server_config["main"] EXCEPT !.load_path = NULL]
      /\ server_config'["vhost"] = server_config["vhost"] /\ server_config'["merged"] = server_config["merged"]
  BY <1>1, SoundFacts DEF Servers
<1>4. /\ server_config'["main"].load_path = NULL
      /\ server_config'["main"].timeout = server_config["main"].timeout
      /\ server_config'["main"].restrict_directives = server_config["main"].restrict_directives
  <2>1. server_config["main"] \in ServerConfigs(AllScopes)
    BY SoundFacts DEF Servers
  <2>2. QED
    BY <1>3, <2>1 DEF ServerConfigs
<1>5. \A s, d : Says(s, d)' <=> Says(s, d)
  BY <1>1 DEF Says
<1>6. server_config["main"].load_path = Mine("main", "RubyAddPath", <<"main">>, <<>>)
  BY <1>1 DEF AsWritten, ServerAsWritten
<1>7. ASSUME NEW s \in DOMAIN dir_config' \ {"merged"}
      PROVE  ConfigAsWritten(s)' /\ LevelAsWritten(s)'
  <2>1. s # "htaccess" /\ s \in DOMAIN dir_config \ {"merged"}
    BY <1>1, SoundFacts
  <2>2. ConfigAsWritten(s) /\ LevelAsWritten(s)
    BY <2>1 DEF AsWritten, InEffect
  <2>3. QED
    BY <1>1, <1>5, <2>2 DEF ConfigAsWritten, LevelAsWritten, Mine, MainLevelFirst
<1>8. ServerAsWritten("main")' /\ ServerAsWritten("vhost")'
  BY <1>1, <1>3, <1>4, <1>5 DEF AsWritten, ServerAsWritten, Mine
<1>9. MergedAsWritten => MergedAsWritten'
  BY <1>1, <1>3, <1>5 DEF MergedAsWritten, Mine
<1>10. ruby'.default_load_path = <<"lib">> \o Mine("main", "RubyAddPath", <<"main">>, <<>>)'
  BY <1>2, <1>5, <1>6 DEF Mine
<1>11. QED
  BY <1>1, <1>4, <1>7, <1>8, <1>9, <1>10 DEF AsWritten

LEMMA BeginWritten ==
  ASSUME Sound, AsWritten, NEW server \in {"main", "vhost"}, NEW within \in SUBSET Open,
         BeginRequest(server, within)
  PROVE  AsWritten'
<1> DEFINE kept == {w \in ToSet(written) : w.scope # "htaccess"}
<1>1. /\ stage = "serving" /\ stage' = stage /\ ruby' = ruby /\ server_config' = server_config
      /\ default_safe_level' = default_safe_level /\ current' = "main"
      /\ written' = Those(written, kept)
      /\ dir_config' = [s \in DOMAIN dir_config \ {"htaccess"} |-> dir_config[s]]
  BY DEF BeginRequest, RequestStays
<1>2. ToSet(written') = kept
  <2>1. written \in Seq(LineRecords)
    BY DEF Sound, TypeOK, LineRecords
  <2> HIDE DEF kept
  <2>2. ToSet(Those(written, kept)) = ToSet(written) \cap kept
    BY <2>1, ThoseElements
  <2>3. QED
    BY <1>1, <2>2 DEF kept
<1>3. ToSet(written)' = ToSet(written')
  BY DEF ToSet
<1>4. /\ \A w : w.scope # "htaccess" => (w \in ToSet(written)' <=> w \in ToSet(written))
      /\ \A w \in ToSet(written)' : w.scope # "htaccess"
  BY <1>2, <1>3
<1>5. /\ DOMAIN dir_config' = DOMAIN dir_config \ {"htaccess"}
      /\ \A s \in DOMAIN dir_config \ {"htaccess"} : dir_config'[s] = dir_config[s]
  BY <1>1
<1>6. "main" \in DOMAIN dir_config /\ ("merged" \in DOMAIN dir_config => "vhost" \in DOMAIN dir_config)
  BY SoundFacts DEF Sound, Structure
<1> HIDE DEF kept
<1>7. QED
  BY <1>1, <1>4, <1>5, <1>6, ServingStays

LEMMA ServingWritten ==
  ASSUME Sound, Progress, AsWritten, Serving, stage = "serving",
         "htaccess" \in DOMAIN dir_config /\ InEffect("htaccess")' => InEffect("htaccess")
  PROVE  AsWritten'
<1>1. UNCHANGED <<stage, current, sections, default_safe_level, server_config, dir_config, written>>
      /\ ruby'.default_load_path = ruby.default_load_path
  BY DEF Serving
<1>2. ToSet(written)' = ToSet(written)
  BY <1>1 DEF ToSet
<1>3. "main" \in DOMAIN dir_config /\ ("merged" \in DOMAIN dir_config => "vhost" \in DOMAIN dir_config)
  BY SoundFacts DEF Sound, Structure
<1>4. "htaccess" \in DOMAIN dir_config /\ InEffect("htaccess")' => InEffect("htaccess")
  OBVIOUS
<1>5. ASSUME "htaccess" \in DOMAIN dir_config', InEffect("htaccess")'
      PROVE  ConfigAsWritten("htaccess")' /\ LevelAsWritten("htaccess")'
  <2>1. ConfigAsWritten("htaccess") /\ LevelAsWritten("htaccess")
    BY <1>1, <1>4, <1>5, Names DEF AsWritten
  <2>2. QED
    BY <1>1, <1>2, <2>1, ConfigStays
<1>6. \A w \in ToSet(written)' : w.scope = "htaccess" => "htaccess" \in DOMAIN dir_config'
  BY <1>1, <1>2 DEF AsWritten
<1>7. "htaccess" \in DOMAIN dir_config' => current' = "htaccess"
  BY <1>1 DEF AsWritten
<1>8. QED
  BY <1>1, <1>2, <1>3, <1>5, <1>6, <1>7, ServingStays

\* A request never goes back.
LEMMA GoesForward ==
  ASSUME Sound, Progress, GoesOn
  PROVE  /\ stage = "serving" /\ r.phase \in ToSet(Order) /\ r'.phase \in ToSet(Order)
         /\ At(r.phase) < At(r'.phase)
         /\ r'.server = r.server /\ r'.within = r.within
<1>1. r.phase \in ToSet(Order)
  BY SoundRequest DEF RequestRecords
<1>2. \E p, c : p \in ToSet(Order) /\ GoneOn(p, c) /\ At(r.phase) < At(p) /\ r.phase # "none"
  <2>1. CASE PostReadRequest
    <3>1. r.phase = "read" /\ GoneOn(Follows("read", r.dconf), ConfigFor(Follows("read", r.dconf)))
      BY <2>1 DEF PostReadRequest, GoOn, GoneOn
    <3>2. Follows("read", r.dconf) \in ToSet(Order) /\ At("read") < At(Follows("read", r.dconf))
      BY FollowsAt, OrderSet
    <3>3. QED
      BY <3>1, <3>2
  <2>2. CASE NoTranslation
    <3>1. r.phase = "trans" /\ GoneOn("htaccess", ConfigFor("htaccess"))
      BY <2>2 DEF NoTranslation, GoOn, GoneOn
    <3>2. "htaccess" \in ToSet(Order)
      BY OrderSet
    <3>3. QED
      BY <3>1, <3>2, AtFacts
  <2>3. CASE EndOfWalks
    <3> DEFINE directory == Walk(dir_config[Merged(r.server)], Matching("Directory") \o Htaccess)
               c == Walk(directory, Matching("Location"))
    <3>1. r.phase = "htaccess" /\ GoneOn(Follows("htaccess", c), c)
      BY <2>3 DEF EndOfWalks, GoneOn
    <3> HIDE DEF c
    <3>2. Follows("htaccess", c) \in ToSet(Order) /\ At("htaccess") < At(Follows("htaccess", c))
      BY FollowsAt, OrderSet
    <3>3. QED
      BY <3>1, <3>2
  <2>4. QED
    BY <2>1, <2>2, <2>3 DEF GoesOn
<1>3. PICK p, c : p \in ToSet(Order) /\ GoneOn(p, c) /\ At(r.phase) < At(p) /\ r.phase # "none"
  BY <1>2
<1>4. r'.phase = p /\ r'.server = r.server /\ r'.within = r.within
  BY <1>3, SoundRequest DEF RequestRecords, GoneOn
<1>5. stage = "serving"
  BY <1>3, SoundRequest
<1>6. QED
  BY <1>1, <1>3, <1>4, <1>5

LEMMA PhaseForward ==
  ASSUME Sound, NEW phase \in Phases \cup {"late_init"}, Phase(phase)
  PROVE  /\ stage = "serving" /\ r.phase \in ToSet(Order) /\ r'.phase \in ToSet(Order)
         /\ At(r.phase) < At(r'.phase)
         /\ r'.server = r.server /\ r'.within = r.within
<1>1. r.phase = phase /\ r'.phase \in ToSet(Order) /\ At(phase) < At(r'.phase)
      /\ r'.server = r.server /\ r'.within = r.within
  BY PhaseFacts
<1>2. phase # "none" /\ phase \in ToSet(Order)
  BY OrderSet DEF Phases
<1>3. QED
  BY <1>1, <1>2, SoundRequest

\* What a .htaccess file says comes into effect at the end of the walks, or not at all.
LEMMA EffectStays ==
  ASSUME Sound, Progress, GoesOn \/ \E phase \in Phases \cup {"late_init"} : Phase(phase),
         "htaccess" \in DOMAIN dir_config, InEffect("htaccess")'
  PROVE  InEffect("htaccess")
<1>1. CASE GoesOn
  <2>1. ~ At(r.phase) < 5
    BY DEF Progress
  <2>2. CASE EndOfWalks
    BY <2>2 DEF EndOfWalks, InEffect
  <2>3. CASE PostReadRequest \/ NoTranslation
    BY <2>1, <2>3, AtFacts DEF PostReadRequest, NoTranslation
  <2>4. QED
    BY <1>1, <2>2, <2>3 DEF GoesOn
<1>2. ASSUME NEW phase \in Phases \cup {"late_init"}, Phase(phase) PROVE InEffect("htaccess")
  <2>1. Walked' => Walked
    BY <1>2, PhaseWalked
  <2>2. /\ r.phase \in ToSet(Order) /\ r'.phase \in ToSet(Order)
        /\ At(r.phase) < At(r'.phase)
    BY <1>2, PhaseForward
  <2>3. At(r.phase) \in 1..16 /\ ~ At(r.phase) < 5
    BY <2>2, AtSet DEF Progress
  <2>4. r'.phase # "htaccess"
    BY <2>2, <2>3, AtFacts
  <2>5. Walked'
    BY <2>4 DEF InEffect
  <2>6. QED
    BY <2>1, <2>5 DEF InEffect
<1>3. QED
  BY <1>1, <1>2

LEMMA AsWrittenStep == Sound /\ Progress /\ AsWritten /\ [Next]_vars => AsWritten'
<1> SUFFICES ASSUME Sound, Progress, AsWritten, [Next]_vars PROVE AsWritten'
  OBVIOUS
<1>0. Sound'
  BY SoundStep
<1>1. CASE \/ RubyKanjiCode \/ RubyOutputMode \/ RubyTimeOut \/ RubyRestrictDirectives
           \/ RubyPassEnv \/ RubyAddPath \/ \E phase \in Phases : RubyHandler(phase)
  BY <1>0, <1>1, SettingsAreTaken, TakenWritten
<1>2. CASE RubySetEnv \/ RubyRequire \/ \E level \in Levels : RubySafeLevel(level)
  BY <1>0, <1>2, OthersAreTaken, TakenWritten
<1>3. CASE RefusedLine
  BY <1>0, <1>3, RefusedWritten
<1>4. CASE \/ OpenVirtualHost \/ OpenHtaccess \/ \E kind \in {"Directory", "Location"} : OpenSection(kind)
  BY <1>4, OpenWritten
<1>5. CASE CloseSection \/ EndOfFile \/ InitInterpreter
  BY <1>5, CloseWritten, EndWritten, InitInterpreterWritten
<1>6. CASE \E server \in {"main", "vhost"}, within \in SUBSET Open : BeginRequest(server, within)
  BY <1>6, BeginWritten
<1>7. CASE GoesOn
  BY <1>7, EffectStays, GoesForward, GoesOnKind, ServingWritten
<1>8. CASE \E phase \in Phases \cup {"late_init"} : Phase(phase)
  BY <1>8, EffectStays, PhaseForward, PhaseKind, ServingWritten
<1>9. CASE UNCHANGED vars
  <2>1. UNCHANGED <<stage, current, default_safe_level, server_config, dir_config, ruby, r, written, ran>>
        /\ ToSet(written)' = ToSet(written)
    BY <1>9 DEF vars, ToSet
  <2>2. \A s, d : Says(s, d)' <=> Says(s, d)
    BY <2>1 DEF Says
  <2>3. \A s : /\ ConfigAsWritten(s)' <=> ConfigAsWritten(s)
               /\ LevelAsWritten(s)' <=> LevelAsWritten(s)
               /\ ServerAsWritten(s)' <=> ServerAsWritten(s)
               /\ InEffect(s)' <=> InEffect(s)
    BY <2>1, <2>2 DEF ConfigAsWritten, LevelAsWritten, ServerAsWritten, InEffect, Walked, Mine, MainLevelFirst
  <2>4. MergedAsWritten' <=> MergedAsWritten
    BY <2>1, <2>2 DEF MergedAsWritten, Mine
  <2>5. Mine("main", "RubyAddPath", <<"main">>, <<>>)' = Mine("main", "RubyAddPath", <<"main">>, <<>>)
    BY <2>2 DEF Mine
  <2>6. QED
    BY <2>1, <2>3, <2>4, <2>5 DEF AsWritten
<1>10. CASE Idle
  BY <1>9, <1>10 DEF Idle
<1>11. QED
  BY <1>1, <1>2, <1>3, <1>4, <1>5, <1>6, <1>7, <1>8, <1>9, <1>10 DEF Next, GoesOn

LEMMA AsWrittenAlways == Spec => [](Sound /\ Progress /\ AsWritten)
BY InitSound, SoundStep, InitProgress, ProgressStep, InitAsWritten, AsWrittenStep, PTL DEF Spec

-----------------------------------------------------------------------------
(* The configuration of a request is that of its scopes, merged one by one. *)

Confs(names) == [i \in DOMAIN names |-> dir_config[names[i]]]

\* The configurations of the first scope, of the first two, and so on.
Layers(scopes, g) ==
  /\ g[0] = dir_config[scopes[1]]
  /\ \A k \in 1..Len(scopes) - 1 : g[k] = MergeDirConfig(g[k - 1], dir_config[scopes[k + 1]])

Configured == AllScopes \cap DOMAIN dir_config

LEMMA ConfsType ==
  ASSUME Sound, NEW names \in Seq(Configured)
  PROVE  Confs(names) \in Seq(DirConfigs(AllScopes)) /\ Len(Confs(names)) = Len(names)
<1>1. Len(names) \in Nat /\ DOMAIN names = 1..Len(names) /\ \A i \in DOMAIN names : names[i] \in Configured
  BY LenProperties
<1>2. \A i \in DOMAIN names : dir_config[names[i]] \in DirConfigs(AllScopes)
  BY <1>1, SoundFacts DEF Configured
<1>3. QED
  BY <1>1, <1>2 DEF Confs

LEMMA ConfsConcat ==
  ASSUME NEW a \in Seq(Configured), NEW b \in Seq(Configured), Sound
  PROVE  Confs(a \o b) = Confs(a) \o Confs(b)
<1> DEFINE M == Len(a)
           N == Len(b)
<1>1. /\ M \in Nat /\ N \in Nat /\ DOMAIN a = 1..M /\ DOMAIN b = 1..N /\ DOMAIN (a \o b) = 1..M + N
      /\ \A i \in 1..M : (a \o b)[i] = a[i]
      /\ \A i \in 1..N : (a \o b)[M + i] = b[i]
  BY ConcatFacts
<1>2. /\ Confs(a) \in Seq(DirConfigs(AllScopes)) /\ Len(Confs(a)) = M
      /\ Confs(b) \in Seq(DirConfigs(AllScopes)) /\ Len(Confs(b)) = N
  BY ConfsType
<1>3. /\ DOMAIN (Confs(a) \o Confs(b)) = 1..M + N
      /\ \A i \in 1..M : (Confs(a) \o Confs(b))[i] = Confs(a)[i]
      /\ \A i \in 1..N : (Confs(a) \o Confs(b))[M + i] = Confs(b)[i]
      /\ Confs(a) \o Confs(b) \in Seq(DirConfigs(AllScopes))
  <2> DEFINE A == Confs(a)
             B == Confs(b)
  <2>1. A \in Seq(DirConfigs(AllScopes)) /\ Len(A) = M /\ B \in Seq(DirConfigs(AllScopes)) /\ Len(B) = N
    BY <1>2
  <2> HIDE DEF A, B, M, N
  <2>2. /\ A \o B \in Seq(DirConfigs(AllScopes)) /\ Len(A) \in Nat /\ Len(B) \in Nat
        /\ Len(A \o B) = Len(A) + Len(B)
        /\ DOMAIN A = 1..Len(A) /\ DOMAIN B = 1..Len(B) /\ DOMAIN (A \o B) = 1..Len(A) + Len(B)
        /\ \A i \in 1..Len(A) : (A \o B)[i] = A[i]
        /\ \A i \in 1..Len(B) : (A \o B)[Len(A) + i] = B[i]
    <3>1. A \in Seq(DirConfigs(AllScopes)) /\ B \in Seq(DirConfigs(AllScopes))
      BY <2>1
    <3>2. QED
      BY <3>1, ConcatFacts
  <2>3. QED
    BY <2>1, <2>2 DEF A, B
<1> HIDE DEF M, N
<1>4. /\ DOMAIN Confs(a \o b) = 1..M + N
      /\ \A i \in 1..M : Confs(a \o b)[i] = Confs(a)[i]
      /\ \A i \in 1..N : Confs(a \o b)[M + i] = Confs(b)[i]
  <2>1. \A i \in 1..M : i \in 1..M + N
    BY <1>1
  <2>2. \A i \in 1..N : M + i \in 1..M + N
    BY <1>1
  <2>3. QED
    BY <1>1, <2>1, <2>2 DEF Confs
<1>5. ASSUME NEW i \in 1..M + N PROVE Confs(a \o b)[i] = (Confs(a) \o Confs(b))[i]
  <2>1. CASE i <= M
    <3>1. i \in 1..M
      BY <1>1, <2>1
    <3>2. QED
      BY <1>3, <1>4, <3>1
  <2>2. CASE i > M
    <3>1. i - M \in 1..N /\ M + (i - M) = i
      BY <1>1, <2>2
    <3>2. Confs(a \o b)[M + (i - M)] = (Confs(a) \o Confs(b))[M + (i - M)]
      BY <1>3, <1>4, <3>1
    <3>3. QED
      BY <3>1, <3>2
  <2>3. M \in Nat /\ i \in Int
    BY <1>1
  <2>4. i <= M \/ i > M
    BY <2>3
  <2>5. QED
    BY <2>1, <2>2, <2>4
<1> DEFINE u == Confs(a \o b)
           v == Confs(a) \o Confs(b)
<1>6. u = [i \in DOMAIN u |-> u[i]] /\ v = [i \in DOMAIN v |-> v[i]]
  <2>1. u = [i \in DOMAIN u |-> u[i]]
    BY DEF Confs
  <2>2. v \in Seq(DirConfigs(AllScopes))
    BY <1>3
  <2> HIDE DEF v
  <2>3. v = [i \in DOMAIN v |-> v[i]]
    BY <2>2
  <2>4. QED
    BY <2>1, <2>3
<1>7. DOMAIN u = 1..M + N /\ DOMAIN v = 1..M + N /\ \A i \in 1..M + N : u[i] = v[i]
  BY <1>3, <1>4, <1>5
<1> HIDE DEF u, v
<1>8. u = v
  BY <1>6, <1>7
<1>9. QED
  BY <1>8 DEF u, v

LEMMA FoldLayers ==
  ASSUME Sound, NEW names \in Seq(Configured)
  PROVE  \E g : /\ Layers(<<"main">> \o names, g)
                /\ FoldLeft(MergeDirConfig, dir_config["main"], Confs(names)) = g[Len(names)]
<1> DEFINE base == dir_config["main"]
           cs == Confs(names)
           scopes == <<"main">> \o names
           N == Len(names)
<1>1. cs \in Seq(DirConfigs(AllScopes)) /\ Len(cs) = N
  BY ConfsType
<1>2. PICK g : Merges(base, cs, g) /\ FoldLeft(MergeDirConfig, base, cs) = g[Len(cs)]
  <2> HIDE DEF base, cs, N
  <2>1. QED
    BY <1>1, MergeSteps, Zenon
<1>3. /\ g[0] = dir_config["main"]
      /\ \A n \in 0..N - 1 : g[n + 1] = MergeDirConfig(g[n], cs[n + 1])
  BY <1>1, <1>2 DEF Merges
<1>4. N \in Nat /\ DOMAIN names = 1..N /\ \A n \in 0..N - 1 : cs[n + 1] = dir_config[names[n + 1]]
  BY LenProperties DEF Confs
<1>5. Len(scopes) = N + 1 /\ scopes[1] = "main" /\ \A k \in 1..N : scopes[k + 1] = names[k]
  <2>1. <<"main">> \in Seq(Configured) /\ Len(<<"main">>) = 1 /\ <<"main">>[1] = "main"
    BY SoundFacts, Names DEF Configured
  <2> DEFINE s == <<"main">>
  <2>2. s \in Seq(Configured) /\ Len(s) = 1 /\ s[1] = "main"
    BY <2>1
  <2> HIDE DEF s
  <2>3. /\ s \o names \in Seq(Configured) /\ Len(s) \in Nat /\ Len(names) \in Nat
        /\ Len(s \o names) = Len(s) + Len(names)
        /\ DOMAIN s = 1..Len(s) /\ DOMAIN names = 1..Len(names) /\ DOMAIN (s \o names) = 1..Len(s) + Len(names)
        /\ \A i \in 1..Len(s) : (s \o names)[i] = s[i]
        /\ \A i \in 1..Len(names) : (s \o names)[Len(s) + i] = names[i]
    <3>1. s \in Seq(Configured) /\ names \in Seq(Configured)
      BY <2>2
    <3>2. QED
      BY <3>1, ConcatFacts
  <2>4. Len(s \o names) = N + 1 /\ (s \o names)[1] = "main" /\ \A k \in 1..N : (s \o names)[k + 1] = names[k]
    <3>1. 1 \in 1..1 /\ \A k \in 1..N : k + 1 = 1 + k
      BY <1>4
    <3>2. QED
      BY <1>4, <2>2, <2>3, <3>1
  <2>5. QED
    BY <2>4 DEF s
<1> HIDE DEF base, cs, scopes, N
<1>6. ASSUME NEW k \in 1..Len(scopes) - 1
      PROVE  g[k] = MergeDirConfig(g[k - 1], dir_config[scopes[k + 1]])
  <2>1. k \in 1..N /\ k - 1 \in 0..N - 1 /\ (k - 1) + 1 = k
    BY <1>4, <1>5
  <2>2. g[(k - 1) + 1] = MergeDirConfig(g[k - 1], dir_config[names[(k - 1) + 1]])
    BY <1>3, <1>4, <2>1
  <2>3. QED
    BY <1>5, <2>1, <2>2
<1>7. Layers(scopes, g)
  BY <1>3, <1>5, <1>6 DEF Layers
<1>8. FoldLeft(MergeDirConfig, base, cs) = g[N]
  BY <1>1, <1>2
<1>9. QED
  BY <1>7, <1>8 DEF base, cs, scopes, N

Outer == IF r.server = "main" THEN <<>> ELSE <<"vhost">>
Inside(phase) ==
  IF phase \in {"init", "post_read", "trans"} THEN <<>>
  ELSE SectionsOf("Directory") \o (IF "htaccess" \in DOMAIN dir_config THEN <<"htaccess">> ELSE <<>>)
AtLocations(phase) == IF phase \in {"init", "post_read"} THEN <<>> ELSE SectionsOf("Location")
\* The scopes within the main server.
Within(phase) == Outer \o (Inside(phase) \o AtLocations(phase))

\* A phase of which the configuration of the request is that of its scopes.
Fits(phase) ==
  \/ phase \in {"init", "post_read"} /\ r.phase \in {"read", "init", "post_read"}
  \/ phase = "trans" /\ r.phase \in {"trans", "htaccess"}
  \/ phase \notin {"init", "post_read", "trans"} /\ Walked

LEMMA SectionsOfFacts ==
  ASSUME Sound, NEW kind
  PROVE  /\ SectionsOf(kind) \in Seq(Configured) /\ SectionsOf(kind) \in Seq(Sections)
         /\ Matching(kind) = Confs(SectionsOf(kind))
<1> DEFINE its == Those(sections, OfRequest(kind))
<1>1. its \in Seq(SectionRecords) /\ ToSet(its) \subseteq ToSet(sections)
  BY SectionsConfigured, ThoseElements
<1>2. /\ Matching(kind) = [i \in DOMAIN its |-> dir_config[its[i].name]]
      /\ SectionsOf(kind) = [i \in DOMAIN its |-> its[i].name]
  BY DEF Matching, SectionsOf
<1> HIDE DEF its
<1>3. Len(its) \in Nat /\ DOMAIN its = 1..Len(its)
  BY <1>1, LenProperties
<1>4. ASSUME NEW i \in DOMAIN its
      PROVE  its[i].name \in Configured /\ its[i].name \in Sections
  <2>1. its[i] \in ToSet(sections)
    BY <1>1, <1>4, SetFacts
  <2>2. its[i].name \in DOMAIN dir_config /\ its[i].name \in Sections
    BY <2>1, SectionsConfigured DEF SectionRecords
  <2>3. QED
    BY <2>2, Names DEF Configured
<1>5. SectionsOf(kind) \in Seq(Configured) /\ SectionsOf(kind) \in Seq(Sections)
  BY <1>2, <1>3, <1>4
<1>6. Matching(kind) = Confs(SectionsOf(kind))
  BY <1>2 DEF Confs
<1>7. QED
  BY <1>5, <1>6

LEMMA PartsType ==
  ASSUME Sound, NEW phase
  PROVE  /\ Outer \in Seq(Configured) /\ Inside(phase) \in Seq(Configured)
         /\ AtLocations(phase) \in Seq(Configured) /\ Inside(phase) \o AtLocations(phase) \in Seq(Configured)
         /\ Within(phase) \in Seq(Configured)
<1>1. <<>> \in Seq(Configured)
  BY EmptySeq
<1>2. Outer \in Seq(Configured)
  <2>1. r.server # "main" => "vhost" \in Configured
    BY SoundRequest, Names DEF Configured
  <2>2. QED
    BY <1>1, <2>1 DEF Outer
<1>3. AtLocations(phase) \in Seq(Configured)
  BY <1>1, SectionsOfFacts DEF AtLocations
<1>4. Inside(phase) \in Seq(Configured)
  <2> DEFINE d == SectionsOf("Directory")
             h == IF "htaccess" \in DOMAIN dir_config THEN <<"htaccess">> ELSE <<>>
  <2>1. d \in Seq(Configured)
    BY SectionsOfFacts
  <2>2. h \in Seq(Configured)
    <3>1. "htaccess" \in DOMAIN dir_config => "htaccess" \in Configured
      BY Names DEF Configured
    <3>2. "htaccess" \in DOMAIN dir_config => <<"htaccess">> \in Seq(Configured)
      BY <3>1
    <3>3. QED
      BY <1>1, <3>2
  <2>3. Inside(phase) = IF phase \in {"init", "post_read", "trans"} THEN <<>> ELSE d \o h
    BY DEF Inside
  <2> HIDE DEF d, h
  <2>4. d \o h \in Seq(Configured)
    BY <2>1, <2>2, ConcatProperties
  <2>5. QED
    BY <1>1, <2>3, <2>4
<1>5. Inside(phase) \o AtLocations(phase) \in Seq(Configured)
  BY <1>3, <1>4, ConcatProperties
<1>6. Within(phase) \in Seq(Configured)
  BY <1>2, <1>5, ConcatProperties DEF Within
<1>7. QED
  BY <1>2, <1>3, <1>4, <1>5, <1>6

LEMMA ScopesAre ==
  ASSUME Sound, NEW phase
  PROVE  Scopes(phase) = <<"main">> \o Within(phase)
<1> DEFINE m == <<"main">>
           i == Inside(phase)
           l == AtLocations(phase)
           front == IF r.server = "main" THEN <<"main">> ELSE <<"main", "vhost">>
<1>1. /\ Outer \in Seq(Configured) /\ i \in Seq(Configured) /\ l \in Seq(Configured)
      /\ i \o l \in Seq(Configured)
  BY PartsType
<1>2. m \in Seq(Configured)
  BY SoundFacts, Names DEF Configured
<1>3. Scopes(phase) = front \o i \o l
  BY DEF Scopes, Inside, AtLocations
<1>4. front = m \o Outer
  <2>1. CASE r.server = "main"
    BY <1>2, <2>1, ConcatEmptySeq DEF Outer
  <2>2. CASE r.server # "main"
    <3> DEFINE o == <<"vhost">>
               both == <<"main", "vhost">>
    <3>1. Outer = o /\ front = both
      BY <2>2 DEF Outer
    <3>2. o \in Seq(Configured) /\ Len(o) = 1 /\ o[1] = "vhost" /\ m[1] = "main" /\ Len(m) = 1
      BY <1>1, <3>1
    <3>3. Len(both) = 2 /\ both[1] = "main" /\ both[2] = "vhost" /\ both \in Seq(Configured)
      <4>1. "main" \in Configured /\ "vhost" \in Configured
        BY <2>2, SoundFacts, SoundRequest, Names DEF Configured
      <4>2. QED
        BY <4>1
    <3> HIDE DEF o, both, m, front
    <3>4. /\ m \o o \in Seq(Configured) /\ Len(m) \in Nat /\ Len(o) \in Nat
          /\ Len(m \o o) = Len(m) + Len(o)
          /\ DOMAIN m = 1..Len(m) /\ DOMAIN o = 1..Len(o) /\ DOMAIN (m \o o) = 1..Len(m) + Len(o)
          /\ \A k \in 1..Len(m) : (m \o o)[k] = m[k]
          /\ \A k \in 1..Len(o) : (m \o o)[Len(m) + k] = o[k]
      <4>1. m \in Seq(Configured) /\ o \in Seq(Configured)
        BY <1>2, <3>2
      <4>2. QED
        BY <4>1, ConcatFacts
    <3>5. Len(m \o o) = 2 /\ (m \o o)[1] = "main" /\ (m \o o)[2] = "vhost"
      <4>1. 1 \in 1..1 /\ 1 + 1 = 2
        OBVIOUS
      <4>2. QED
        BY <3>2, <3>4, <4>1
    <3>6. \A k \in 1..Len(m \o o) : (m \o o)[k] = both[k]
      BY <3>3, <3>5
    <3>7. m \o o = both
      BY <3>3, <3>4, <3>5, <3>6, SeqEqual
    <3>8. QED
      BY <3>1, <3>7
  <2>3. QED
    BY <2>1, <2>2
<1>5. Within(phase) = Outer \o (i \o l)
  BY DEF Within
<1> HIDE DEF m, i, l, front
<1>6. front \in Seq(Configured)
  BY <1>1, <1>2, <1>4, ConcatProperties
<1>7. (front \o i) \o l = front \o (i \o l)
  BY <1>1, <1>6, ConcatAssociative
<1>8. (m \o Outer) \o (i \o l) = m \o (Outer \o (i \o l))
  BY <1>1, <1>2, ConcatAssociative
<1>9. QED
  BY <1>3, <1>4, <1>5, <1>7, <1>8 DEF m

LEMMA ScopesType ==
  ASSUME Sound, NEW phase
  PROVE  /\ Scopes(phase) \in Seq(Configured) /\ Scopes(phase) \in Seq(AllScopes)
         /\ Len(Scopes(phase)) = Len(Within(phase)) + 1 /\ Len(Within(phase)) \in Nat
         /\ DOMAIN Scopes(phase) = 1..Len(Scopes(phase)) /\ Scopes(phase)[1] = "main"
<1> DEFINE m == <<"main">>
           w == Within(phase)
<1>1. m \in Seq(Configured) /\ Len(m) = 1 /\ m[1] = "main"
  BY SoundFacts, Names DEF Configured
<1>2. w \in Seq(Configured) /\ Scopes(phase) = m \o w
  BY PartsType, ScopesAre
<1> HIDE DEF m, w
<1>3. /\ m \o w \in Seq(Configured) /\ Len(m) \in Nat /\ Len(w) \in Nat
      /\ Len(m \o w) = Len(m) + Len(w)
      /\ DOMAIN m = 1..Len(m) /\ DOMAIN w = 1..Len(w) /\ DOMAIN (m \o w) = 1..Len(m) + Len(w)
      /\ \A i \in 1..Len(m) : (m \o w)[i] = m[i]
      /\ \A i \in 1..Len(w) : (m \o w)[Len(m) + i] = w[i]
  <2>1. m \in Seq(Configured) /\ w \in Seq(Configured)
    BY <1>1, <1>2
  <2>2. QED
    BY <2>1, ConcatFacts
<1>4. (m \o w)[1] = "main"
  <2>1. 1 \in 1..Len(m)
    BY <1>1
  <2>2. QED
    BY <1>1, <1>3, <2>1
<1>5. Scopes(phase) \in Seq(AllScopes)
  BY <1>2, <1>3 DEF Configured
<1>6. Len(m \o w) = Len(w) + 1
  BY <1>1, <1>3
<1>7. QED
  BY <1>2, <1>3, <1>4, <1>5, <1>6 DEF w

\* The configuration of a server is that of the main one and its own.
LEMMA ServerLayer ==
  ASSUME Sound, AsWritten, stage = "serving"
  PROVE  dir_config[Merged(r.server)] = FoldLeft(MergeDirConfig, dir_config["main"], Confs(Outer))
<1>1. CASE r.server = "main"
  <2>1. Confs(Outer) = <<>> /\ Merged(r.server) = "main"
    BY <1>1 DEF Confs, Outer, Merged
  <2>2. QED
    BY <2>1, FoldEmpty
<1>2. CASE r.server # "main"
  <2> DEFINE a == dir_config["main"]
             b == dir_config["vhost"]
  <2>1. r.server = "vhost" /\ "vhost" \in DOMAIN dir_config /\ "merged" \in DOMAIN dir_config
    BY <1>2, SoundRequest
  <2>2. Merged(r.server) = "merged" /\ dir_config["merged"] = MergeDirConfig(a, b)
    BY <1>2, <2>1 DEF AsWritten, MergedAsWritten, Merged
  <2>3. Confs(Outer) = <<b>>
    BY <1>2 DEF Confs, Outer
  <2>4. b \in DirConfigs(AllScopes)
    BY <2>1, SoundFacts
  <2> HIDE DEF a, b
  <2>5. FoldLeft(MergeDirConfig, a, <<b>>) = MergeDirConfig(a, b)
    <3> DEFINE s == <<b>>
    <3>1. s \in Seq(DirConfigs(AllScopes)) /\ Len(s) = 1 /\ s[1] = b
      BY <2>4
    <3> HIDE DEF s
    <3>2. PICK g : Merges(a, s, g) /\ FoldLeft(MergeDirConfig, a, s) = g[Len(s)]
      BY <3>1, MergeSteps, Zenon
    <3>3. g[0] = a /\ g[0 + 1] = MergeDirConfig(g[0], s[0 + 1])
      <4>1. 0 \in 0..Len(s) - 1
        BY <3>1
      <4>2. QED
        BY <3>2, <4>1 DEF Merges
    <3>4. g[1] = MergeDirConfig(a, b) /\ FoldLeft(MergeDirConfig, a, s) = g[1]
      <4>1. 0 + 1 = 1
        OBVIOUS
      <4>2. QED
        BY <3>1, <3>2, <3>3, <4>1
    <3>5. QED
      BY <3>4 DEF s
  <2>6. QED
    BY <2>2, <2>3, <2>5 DEF a
<1>3. QED
  BY <1>1, <1>2

LEMMA FoldsAreOfScopes ==
  ASSUME Sound, Progress, AsWritten, r.phase # "none" \/ Walked, stage = "serving", NEW phase, Fits(phase)
  PROVE  r.dconf = FoldLeft(MergeDirConfig, dir_config["main"], Confs(Within(phase)))
<1> DEFINE main == dir_config["main"]
           server == dir_config[Merged(r.server)]
           o == Confs(Outer)
           inner == Inside(phase) \o AtLocations(phase)
           s == Confs(inner)
<1>1. /\ o \in Seq(DirConfigs(AllScopes)) /\ s \in Seq(DirConfigs(AllScopes))
      /\ inner \in Seq(Configured) /\ Outer \in Seq(Configured)
  BY PartsType, ConfsType
<1>2. server = FoldLeft(MergeDirConfig, main, o)
  BY ServerLayer
<1>3. Confs(Within(phase)) = o \o s
  BY <1>1, ConfsConcat DEF Within
<1>4. r.dconf = FoldLeft(MergeDirConfig, server, s)
  <2>1. CASE phase \in {"init", "post_read"} /\ r.phase \in {"read", "init", "post_read"}
    <3>1. r.dconf = server
      BY <2>1 DEF Progress
    <3>2. inner = <<>>
      BY <2>1 DEF Inside, AtLocations
    <3>3. s = <<>>
      BY <3>2 DEF Confs
    <3>4. QED
      BY <3>1, <3>3, FoldEmpty
  <2>2. CASE phase = "trans" /\ r.phase \in {"trans", "htaccess"}
    <3>1. r.dconf = FoldLeft(MergeDirConfig, server, Matching("Location"))
      BY <2>2 DEF Progress, Locations
    <3>2. inner = SectionsOf("Location")
      <4>1. SectionsOf("Location") \in Seq(Configured)
        BY SectionsOfFacts
      <4>2. inner = <<>> \o SectionsOf("Location")
        BY <2>2 DEF Inside, AtLocations
      <4>3. QED
        BY <4>1, <4>2, ConcatEmptySeq
    <3>3. QED
      BY <3>1, <3>2, SectionsOfFacts
  <2>3. CASE phase \notin {"init", "post_read", "trans"} /\ Walked
    <3> DEFINE d == SectionsOf("Directory")
               h == IF "htaccess" \in DOMAIN dir_config THEN <<"htaccess">> ELSE <<>>
               l == SectionsOf("Location")
    <3>1. r.dconf = FoldLeft(MergeDirConfig, server, Matching("Directory") \o Htaccess \o Matching("Location"))
      BY <2>3 DEF Progress, Whole
    <3>2. inner = (d \o h) \o l
      BY <2>3 DEF Inside, AtLocations
    <3>3. d \in Seq(Configured) /\ l \in Seq(Configured)
          /\ Matching("Directory") = Confs(d) /\ Matching("Location") = Confs(l)
      BY SectionsOfFacts
    <3>4. h \in Seq(Configured) /\ Htaccess = Confs(h)
      <4>1. CASE "htaccess" \in DOMAIN dir_config
        <5>1. "htaccess" \in Configured
          BY <4>1, Names DEF Configured
        <5>2. h = <<"htaccess">> /\ Htaccess = <<dir_config["htaccess"]>>
          BY <4>1 DEF Htaccess
        <5>3. Confs(h) = <<dir_config["htaccess"]>>
          BY <5>2 DEF Confs
        <5>4. QED
          BY <5>1, <5>2, <5>3
      <4>2. CASE "htaccess" \notin DOMAIN dir_config
        <5>1. h = <<>> /\ Htaccess = <<>>
          BY <4>2 DEF Htaccess
        <5>2. Confs(h) = <<>>
          BY <5>1 DEF Confs
        <5>3. QED
          BY <5>1, <5>2, EmptySeq
      <4>3. QED
        BY <4>1, <4>2
    <3> HIDE DEF d, h, l, inner, s, o, main, server
    <3>5. d \o h \in Seq(Configured)
      BY <3>3, <3>4, ConcatProperties
    <3>6. Confs(d \o h) = Confs(d) \o Confs(h)
      BY <3>3, <3>4, ConfsConcat
    <3>7. Confs((d \o h) \o l) = Confs(d \o h) \o Confs(l)
      BY <3>3, <3>5, ConfsConcat
    <3>8. s = Matching("Directory") \o Htaccess \o Matching("Location")
      BY <3>2, <3>3, <3>4, <3>6, <3>7 DEF s
    <3>9. QED
      BY <3>1, <3>8
  <2>4. QED
    BY <2>1, <2>2, <2>3 DEF Fits
<1> HIDE DEF o, s, inner, main, server
<1>5. FoldLeft(MergeDirConfig, FoldLeft(MergeDirConfig, main, o), s) = FoldLeft(MergeDirConfig, main, o \o s)
  BY <1>1, FoldConcat
<1>6. QED
  BY <1>2, <1>3, <1>4, <1>5 DEF main

\* The configuration of a request, as that of its scopes.
LEMMA InForce ==
  ASSUME Sound, Progress, AsWritten, r.phase # "none" \/ Walked, stage = "serving", NEW phase, Fits(phase)
  PROVE  \E g : Layers(Scopes(phase), g) /\ r.dconf = g[Len(Within(phase))]
<1> DEFINE w == Within(phase)
<1>1. w \in Seq(Configured) /\ Scopes(phase) = <<"main">> \o w
  BY PartsType, ScopesAre
<1>2. r.dconf = FoldLeft(MergeDirConfig, dir_config["main"], Confs(w))
  BY FoldsAreOfScopes
<1> HIDE DEF w
<1>3. \E g : /\ Layers(<<"main">> \o w, g)
             /\ FoldLeft(MergeDirConfig, dir_config["main"], Confs(w)) = g[Len(w)]
  BY <1>1, FoldLayers
<1>4. QED
  BY <1>1, <1>2, <1>3 DEF w

-----------------------------------------------------------------------------
(* What merged configurations say, field by field: the configurations are  *)
(* c[1], c[2], ... of the scopes s, and g[k] is the merge of c[1..k+1];    *)
(* h[k] are those of the first k scopes that are in S.                     *)

Layered(N, c, g) ==
  /\ g[0] = c[1]
  /\ \A k \in 1..N : g[k] = MergeDirConfig(g[k - 1], c[k + 1])

LEMMA KeepsType ==
  ASSUME NEW A, NEW s \in Seq(A), NEW S, NEW h, Keeps(S, s, h)
  PROVE  \A k \in 0..Len(s) : h[k] \in Seq(A)
<1> DEFINE N == Len(s)
           G == {k \in 0..N : h[k] \in Seq(A)}
<1>1. N \in Nat /\ \A k \in 1..N : s[k] \in A
  BY LenProperties
<1>2. 0 \in G
  <2>1. h[0] \in Seq(A)
    BY EmptySeq DEF Keeps
  <2>2. QED
    BY <1>1, <2>1
<1>3. ASSUME NEW n \in 0..N - 1, n \in G
      PROVE  n + 1 \in G
  <2>1. h[n + 1] = Keep(S, h[n], s[n + 1]) /\ h[n] \in Seq(A)
    BY <1>3 DEF Keeps
  <2>2. n + 1 \in 0..N /\ s[n + 1] \in A
    BY <1>1
  <2>3. h[n + 1] \in Seq(A)
    BY <2>1, <2>2, AppendProperties DEF Keep
  <2>4. QED
    BY <2>2, <2>3
<1> HIDE DEF G, N
<1>4. \A n \in 0..N : n \in G
  BY <1>1, <1>2, <1>3, Upward
<1>5. QED
  BY <1>4 DEF G, N

LEMMA LastOfAppend ==
  ASSUME NEW A, NEW t \in Seq(A), NEW x \in A
  PROVE  Append(t, x) # <<>> /\ Last(Append(t, x)) = x
BY AppendProperties DEF Last

\* The innermost scope of S is found.
LEMMA KcodeOfLayers ==
  ASSUME NEW A, NULL \notin A, NEW N \in Nat, NEW s \in Seq(A), Len(s) = N + 1,
         NEW S, NEW h, Keeps(S, s, h), NEW c, NEW g, Layered(N, c, g),
         \A k \in 1..N + 1 : c[k].kcode = IF s[k] \in S THEN s[k] ELSE NULL
  PROVE  g[N].kcode = IF h[N + 1] = <<>> THEN NULL ELSE Last(h[N + 1])
<1> DEFINE Found(k) == IF h[k + 1] = <<>> THEN NULL ELSE Last(h[k + 1])
           G == {k \in 0..N : g[k].kcode = Found(k)}
<1>1. \A k \in 0..N + 1 : h[k] \in Seq(A)
  BY KeepsType
<1>2. \A k \in 1..N + 1 : s[k] \in A
  BY LenProperties
<1>3. ASSUME NEW k \in 0..N
      PROVE  Found(k) = IF s[k + 1] \in S THEN s[k + 1] ELSE IF h[k] = <<>> THEN NULL ELSE Last(h[k])
  <2>1. h[k + 1] = Keep(S, h[k], s[k + 1])
    BY <1>3 DEF Keeps
  <2>2. h[k] \in Seq(A) /\ s[k + 1] \in A
    BY <1>1, <1>2
  <2>3. CASE s[k + 1] \in S
    BY <2>1, <2>2, <2>3, LastOfAppend DEF Keep
  <2>4. CASE s[k + 1] \notin S
    BY <2>1, <2>4 DEF Keep
  <2>5. QED
    BY <2>3, <2>4
<1>4. 0 \in G
  <2>1. h[0] = <<>> /\ g[0] = c[1]
    BY DEF Keeps, Layered
  <2>2. Found(0) = IF s[1] \in S THEN s[1] ELSE NULL
    <3>1. 0 \in 0..N /\ 0 + 1 = 1
      OBVIOUS
    <3> HIDE DEF Found
    <3>2. QED
      BY <1>3, <2>1, <3>1
  <2>3. 1 \in 1..N + 1
    OBVIOUS
  <2> HIDE DEF Found
  <2>4. g[0].kcode = Found(0)
    BY <2>1, <2>2, <2>3
  <2>5. QED
    BY <2>4
<1>5. ASSUME NEW n \in 0..N - 1, n \in G
      PROVE  n + 1 \in G
  <2>1. g[n + 1] = MergeDirConfig(g[n], c[n + 2])
    <3>1. n + 1 \in 1..N /\ (n + 1) - 1 = n /\ (n + 1) + 1 = n + 2
      OBVIOUS
    <3>2. g[n + 1] = MergeDirConfig(g[(n + 1) - 1], c[(n + 1) + 1])
      BY <3>1 DEF Layered
    <3>3. QED
      BY <3>1, <3>2
  <2>2. g[n + 1].kcode = Over(g[n].kcode, c[n + 2].kcode)
    BY <2>1 DEF MergeDirConfig
  <2>3. Found(n + 1) = IF s[n + 2] \in S THEN s[n + 2] ELSE Found(n)
    <3>1. n + 1 \in 0..N /\ (n + 1) + 1 = n + 2
      OBVIOUS
    <3>2. Found(n + 1) = IF s[(n + 1) + 1] \in S THEN s[(n + 1) + 1]
                         ELSE IF h[n + 1] = <<>> THEN NULL ELSE Last(h[n + 1])
      <4> HIDE DEF Found
      <4>1. QED
        BY <1>3, <3>1
    <3>3. QED
      BY <3>1, <3>2
  <2>4. n + 2 \in 1..N + 1 /\ n + 1 \in 0..N
    OBVIOUS
  <2>5. c[n + 2].kcode = (IF s[n + 2] \in S THEN s[n + 2] ELSE NULL) /\ s[n + 2] # NULL
    BY <1>2, <2>4
  <2>6. g[n].kcode = Found(n)
    BY <1>5
  <2> HIDE DEF Found
  <2>7. g[n + 1].kcode = Found(n + 1)
    BY <2>2, <2>3, <2>5, <2>6 DEF Over
  <2>8. QED
    BY <2>4, <2>7
<1> HIDE DEF G, Found
<1>6. N \in G
  <2>1. \A n \in 0..N : n \in G
    BY <1>4, <1>5, Upward
  <2>2. QED
    BY <2>1
<1>7. QED
  BY <1>6 DEF G, Found

\* The safe level is the highest one.
LEMMA LevelOfLayers ==
  ASSUME NEW N \in Nat, NEW c, NEW g, Layered(N, c, g), \A k \in 1..N + 1 : c[k].safe_level \in Int
  PROVE  /\ \A k \in 1..N + 1 : g[N].safe_level >= c[k].safe_level
         /\ \E k \in 1..N + 1 : g[N].safe_level = c[k].safe_level
<1> DEFINE Highest(m) == /\ g[m].safe_level \in Int
                         /\ \A k \in 1..m + 1 : g[m].safe_level >= c[k].safe_level
                         /\ \E k \in 1..m + 1 : g[m].safe_level = c[k].safe_level
           G == {m \in 0..N : Highest(m)}
<1>1. 0 \in G
  <2>1. g[0] = c[1]
    BY DEF Layered
  <2>2. c[1].safe_level \in Int
    BY 1 \in 1..N + 1
  <2>3. 1..0 + 1 = {1}
    OBVIOUS
  <2>4. Highest(0)
    BY <2>1, <2>2, <2>3
  <2>5. QED
    BY <2>4
<1>2. ASSUME NEW n \in 0..N - 1, n \in G
      PROVE  n + 1 \in G
  <2>1. g[n + 1] = MergeDirConfig(g[n], c[n + 2])
    <3>1. n + 1 \in 1..N /\ (n + 1) - 1 = n /\ (n + 1) + 1 = n + 2
      OBVIOUS
    <3>2. g[n + 1] = MergeDirConfig(g[(n + 1) - 1], c[(n + 1) + 1])
      BY <3>1 DEF Layered
    <3>3. QED
      BY <3>1, <3>2
  <2> DEFINE a == g[n].safe_level
             b == c[n + 2].safe_level
             m == g[n + 1].safe_level
  <2>2. m = IF b >= a THEN b ELSE a
    BY <2>1 DEF MergeDirConfig, MergeLevel
  <2>3. n + 2 \in 1..N + 1 /\ n + 1 \in 0..N
    OBVIOUS
  <2>4. a \in Int /\ b \in Int
    BY <1>2, <2>3
  <2>5. \A k \in 1..n + 1 : a >= c[k].safe_level /\ c[k].safe_level \in Int
    <3>1. \A k \in 1..n + 1 : k \in 1..N + 1
      OBVIOUS
    <3>2. QED
      BY <1>2, <3>1
  <2>6. \E k \in 1..n + 1 : a = c[k].safe_level
    BY <1>2
  <2> HIDE DEF a, m
  <2>7. (n + 1) + 1 = n + 2 /\ \A k \in 1..n + 2 : k = n + 2 \/ k \in 1..n + 1
    OBVIOUS
  <2>8. \A k \in 1..n + 2 : m >= c[k].safe_level
    <3>1. m >= a /\ m >= b /\ m \in Int
      BY <2>2, <2>4
    <3>2. ASSUME NEW k \in 1..n + 1 PROVE m >= c[k].safe_level
      BY <2>4, <2>5, <3>1
    <3>3. QED
      BY <2>7, <3>1, <3>2
  <2>9. \E k \in 1..n + 2 : m = c[k].safe_level
    <3>1. n + 2 \in 1..n + 2 /\ \A k \in 1..n + 1 : k \in 1..n + 2
      OBVIOUS
    <3>2. QED
      BY <2>2, <2>6, <3>1
  <2>10. Highest(n + 1)
    BY <2>2, <2>4, <2>7, <2>8, <2>9 DEF m
  <2> HIDE DEF Highest
  <2>11. QED
    BY <2>3, <2>10
<1> HIDE DEF G, Highest
<1>3. N \in G
  <2>1. \A n \in 0..N : n \in G
    BY <1>1, <1>2, Upward
  <2>2. QED
    BY <2>1
<1>4. QED
  BY <1>3 DEF G, Highest

\* Only the elements of a sequence matter for what is kept of it.
LEMMA ThoseAgree ==
  ASSUME NEW A, NEW s \in Seq(A), NEW S, NEW T, \A x \in ToSet(s) : x \in S <=> x \in T
  PROVE  Those(s, S) = Those(s, T)
<1> DEFINE N == Len(s)
<1>1. PICK g : Keeps(S, s, g) /\ Those(s, S) = g[N]
  BY ThoseSteps, Zenon
<1>2. PICK h : Keeps(T, s, h) /\ Those(s, T) = h[N]
  BY ThoseSteps, Zenon
<1>3. N \in Nat /\ \A k \in 1..N : s[k] \in ToSet(s)
  BY LenProperties, SetFacts
<1> DEFINE G == {n \in 0..N : g[n] = h[n]}
<1>4. 0 \in G
  BY <1>1, <1>2, <1>3 DEF Keeps
<1>5. ASSUME NEW n \in 0..N - 1, n \in G PROVE n + 1 \in G
  <2>1. g[n + 1] = Keep(S, g[n], s[n + 1]) /\ h[n + 1] = Keep(T, h[n], s[n + 1]) /\ g[n] = h[n]
    BY <1>1, <1>2, <1>5 DEF Keeps
  <2>2. n + 1 \in 0..N /\ n + 1 \in 1..N
    BY <1>3
  <2>3. g[n + 1] = h[n + 1]
    BY <1>3, <2>1, <2>2 DEF Keep
  <2>4. QED
    BY <2>2, <2>3
<1> HIDE DEF G, N
<1>6. \A n \in 0..N : n \in G
  BY <1>3, <1>4, <1>5, Upward
<1>7. N \in G
  BY <1>3, <1>6
<1>8. QED
  BY <1>1, <1>2, <1>7 DEF G

LEMMA ScopesElements ==
  ASSUME Sound, NEW phase
  PROVE  /\ \A s \in ToSet(Scopes(phase)) : s \in AllScopes /\ s \in DOMAIN dir_config /\ s # "merged"
         /\ phase \in {"init", "post_read", "trans"} => "htaccess" \notin ToSet(Scopes(phase))
         /\ "main" \in ToSet(Scopes(phase))
<1>1. \A s \in ToSet(Scopes(phase)) : s \in AllScopes /\ s \in DOMAIN dir_config /\ s # "merged"
  <2>1. \A s \in ToSet(Scopes(phase)) : s \in Configured
    BY ScopesType, SetFacts
  <2>2. QED
    BY <2>1, Names DEF Configured
<1>2. ASSUME phase \in {"init", "post_read", "trans"}
      PROVE  "htaccess" \notin ToSet(Scopes(phase))
  <2> DEFINE A == {"main", "vhost"} \cup Sections
             m == <<"main">>
             o == Outer
             l == AtLocations(phase)
  <2>1. "htaccess" \notin A
    BY Names
  <2>2. m \in Seq(A)
    OBVIOUS
  <2>3. o \in Seq(A)
    <3>1. <<>> \in Seq(A)
      BY EmptySeq
    <3>2. <<"vhost">> \in Seq(A)
      OBVIOUS
    <3>3. QED
      BY <3>1, <3>2 DEF Outer
  <2>4. l \in Seq(A)
    <3>1. SectionsOf("Location") \in Seq(Sections)
      BY SectionsOfFacts
    <3>2. SectionsOf("Location") \in Seq(A)
      BY <3>1
    <3>3. <<>> \in Seq(A)
      BY EmptySeq
    <3>4. QED
      BY <3>2, <3>3 DEF AtLocations
  <2>5. Scopes(phase) = m \o (o \o (<<>> \o l))
    BY <1>2, ScopesAre DEF Within, Inside
  <2> HIDE DEF A, m, o, l
  <2>6. <<>> \o l = l /\ o \o l \in Seq(A)
    BY <2>3, <2>4, ConcatEmptySeq, ConcatProperties
  <2>7. Scopes(phase) \in Seq(A)
    BY <2>2, <2>5, <2>6, ConcatProperties
  <2>8. \A s \in ToSet(Scopes(phase)) : s \in A
    BY <2>7, SetFacts
  <2>9. QED
    BY <2>1, <2>8
<1>3. "main" \in ToSet(Scopes(phase))
  <2>1. 1 \in DOMAIN Scopes(phase) /\ Scopes(phase)[1] = "main" /\ Scopes(phase) \in Seq(AllScopes)
    BY ScopesType
  <2>2. QED
    BY <2>1, SetFacts
<1>4. QED
  BY <1>1, <1>2, <1>3

LEMMA ScopesStay ==
  ASSUME NEW phase, sections' = sections, r'.server = r.server, r'.within = r.within,
         phase \in {"init", "post_read", "trans"}
           \/ ("htaccess" \in DOMAIN dir_config' <=> "htaccess" \in DOMAIN dir_config)
  PROVE  Scopes(phase)' = Scopes(phase)
<1>1. SectionsOf("Directory")' = SectionsOf("Directory") /\ SectionsOf("Location")' = SectionsOf("Location")
  BY DEF SectionsOf, OfRequest
<1>2. QED
  BY <1>1 DEF Scopes

\* When the handlers of a phase run, its scopes are known.
LEMMA PhaseFits ==
  ASSUME NEW phase \in Phases \cup {"late_init"}, r.phase = phase, phase \notin {"log", "cleanup"}
  PROVE  Fits(phase)
BY DEF Fits, Walked, AfterWalks

LEMMA ScopeSays ==
  ASSUME Sound, AsWritten, NEW phase, Fits(phase), NEW s \in ToSet(Scopes(phase))
  PROVE  ConfigAsWritten(s) /\ LevelAsWritten(s)
<1>1. s \in DOMAIN dir_config \ {"merged"}
  BY ScopesElements
<1>2. s = "htaccess" => Walked
  BY ScopesElements DEF Fits
<1>3. InEffect(s)
  BY <1>2 DEF InEffect
<1>4. QED
  BY <1>1, <1>3 DEF AsWritten

LEMMA LayersOf ==
  ASSUME Sound, NEW phase, NEW g, Layers(Scopes(phase), g)
  PROVE  /\ Layered(Len(Within(phase)), Confs(Scopes(phase)), g)
         /\ \A k \in 1..Len(Within(phase)) + 1 :
              /\ Confs(Scopes(phase))[k] = dir_config[Scopes(phase)[k]]
              /\ Scopes(phase)[k] \in ToSet(Scopes(phase))
<1> DEFINE s == Scopes(phase)
           N == Len(Within(phase))
<1>1. s \in Seq(AllScopes) /\ DOMAIN s = 1..N + 1 /\ N \in Nat /\ Len(s) = N + 1
  BY ScopesType
<1>2. Layers(s, g)
  OBVIOUS
<1> HIDE DEF s, N
<1>3. \A k \in 1..N + 1 : Confs(s)[k] = dir_config[s[k]] /\ s[k] \in ToSet(s)
  BY <1>1, SetFacts DEF Confs
<1>4. /\ g[0] = dir_config[s[1]]
      /\ \A k \in 1..N : g[k] = MergeDirConfig(g[k - 1], dir_config[s[k + 1]])
  BY <1>1, <1>2 DEF Layers
<1>5. 1 \in 1..N + 1 /\ \A k \in 1..N : k + 1 \in 1..N + 1
  BY <1>1
<1>6. Layered(N, Confs(s), g)
  BY <1>3, <1>4, <1>5 DEF Layered
<1>7. QED
  BY <1>3, <1>6 DEF s, N

LEMMA RequestKcode ==
  ASSUME Sound, Progress, AsWritten, r.phase # "none" \/ Walked, stage = "serving", NEW phase, Fits(phase)
  PROVE  r.dconf.kcode = Innermost(phase, "RubyKanjiCode")
<1> DEFINE s == Scopes(phase)
           N == Len(Within(phase))
           S == {x \in AllScopes : Says(x, "RubyKanjiCode")}
           c == Confs(s)
<1>1. s \in Seq(AllScopes) /\ N \in Nat /\ Len(s) = N + 1
  BY ScopesType
<1>2. PICK g : Layers(s, g) /\ r.dconf = g[N]
  BY InForce
<1>3. Layered(N, c, g) /\ \A k \in 1..N + 1 : c[k] = dir_config[s[k]] /\ s[k] \in ToSet(s)
  BY <1>2, LayersOf
<1>4. \A k \in 1..N + 1 : c[k].kcode = IF s[k] \in S THEN s[k] ELSE NULL
  <2>1. ASSUME NEW k \in 1..N + 1 PROVE c[k].kcode = IF s[k] \in S THEN s[k] ELSE NULL
    <3>1. ConfigAsWritten(s[k]) /\ s[k] \in AllScopes /\ c[k] = dir_config[s[k]]
      <4>1. s[k] \in ToSet(Scopes(phase)) /\ c[k] = dir_config[s[k]]
        BY <1>3, <2>1
      <4>2. QED
        BY <4>1, ScopeSays, ScopesElements
    <3>2. QED
      BY <3>1 DEF ConfigAsWritten, Mine
  <2>2. QED
    BY <2>1
<1>5. Innermost(phase, "RubyKanjiCode") = IF Those(s, S) = <<>> THEN NULL ELSE Last(Those(s, S))
  BY DEF Innermost, Saying
<1>6. NULL \notin AllScopes
  BY ConfigurationAssumption
<1> HIDE DEF s, N, S, c
<1>7. PICK h : Keeps(S, s, h) /\ Those(s, S) = h[Len(s)]
  BY <1>1, ThoseSteps, Zenon
<1>8. g[N].kcode = IF h[N + 1] = <<>> THEN NULL ELSE Last(h[N + 1])
  BY <1>1, <1>3, <1>4, <1>6, <1>7, KcodeOfLayers
<1>9. QED
  BY <1>1, <1>2, <1>5, <1>7, <1>8

\* What the handlers that run at a safe level may know of it.
LevelKept(level, phase) ==
  /\ \A l \in LevelsOf(phase) : level >= l
  /\ level \in LevelsOf(phase) \cup {1}
  /\ ~ Says("main", "RubySafeLevel") => level >= 1
  /\ MainLevelFirst /\ Says("main", "RubySafeLevel") => level \in LevelsOf(phase)

LEMMA RequestLevel ==
  ASSUME Sound, Progress, AsWritten, r.phase # "none" \/ Walked, stage = "serving", NEW phase, Fits(phase)
  PROVE  LevelKept(r.dconf.safe_level, phase)
<1> DEFINE s == Scopes(phase)
           N == Len(Within(phase))
           c == Confs(s)
           X == ToSet(s)
           L == LevelsOf(phase)
           level == r.dconf.safe_level
<1>1. s \in Seq(AllScopes) /\ N \in Nat /\ Len(s) = N + 1 /\ s[1] = "main" /\ DOMAIN s = 1..N + 1
  BY ScopesType
<1>2. PICK g : Layers(s, g) /\ r.dconf = g[N]
  BY InForce
<1>3. Layered(N, c, g) /\ \A k \in 1..N + 1 : c[k] = dir_config[s[k]] /\ s[k] \in X
  BY <1>2, LayersOf
<1>4. \A x \in X : /\ x \in AllScopes /\ x \in DOMAIN dir_config /\ LevelAsWritten(x)
                   /\ dir_config[x].safe_level \in Int
  <2>1. ASSUME NEW x \in X PROVE /\ x \in AllScopes /\ x \in DOMAIN dir_config /\ LevelAsWritten(x)
                                 /\ dir_config[x].safe_level \in Int
    <3>1. x \in AllScopes /\ x \in DOMAIN dir_config /\ LevelAsWritten(x)
      BY <2>1, ScopeSays, ScopesElements
    <3>2. dir_config[x] \in DirConfigs(AllScopes)
      BY <3>1, SoundFacts
    <3>3. QED
      BY <3>1, <3>2 DEF DirConfigs
  <2>2. QED
    BY <2>1
<1>5. \A x \in X : \E k \in 1..N + 1 : s[k] = x
  BY <1>1, SetFacts
<1>6. "main" \in X /\ LevelAsWritten("main") /\ default_safe_level = dir_config["main"].safe_level
  <2>1. "main" \in X
    BY ScopesElements
  <2>2. QED
    BY <1>4, <2>1 DEF AsWritten
<1>7. \A l : l \in L <=> \E w \in ToSet(written) : /\ w.directive = "RubySafeLevel" /\ w.scope \in X
                                                    /\ l = w.level
  BY DEF LevelsOf
<1>8. \A x : Says(x, "RubySafeLevel") <=>
        \E w \in ToSet(written) : w.scope = x /\ w.directive = "RubySafeLevel"
  BY SaysSet
<1> HIDE DEF s, N, c, X, L, level
<1>9. /\ \A x \in X : r.dconf.safe_level >= dir_config[x].safe_level
      /\ \E x \in X : r.dconf.safe_level = dir_config[x].safe_level
  <2>1. \A k \in 1..N + 1 : c[k].safe_level \in Int
    BY <1>3, <1>4
  <2>2. /\ \A k \in 1..N + 1 : g[N].safe_level >= c[k].safe_level
        /\ \E k \in 1..N + 1 : g[N].safe_level = c[k].safe_level
    BY <1>1, <1>3, <2>1, LevelOfLayers
  <2>3. QED
    BY <1>2, <1>3, <1>5, <2>2
<1>10. level = r.dconf.safe_level
  BY DEF level
<1>11. \A x \in X : Says(x, "RubySafeLevel") => dir_config[x].safe_level \in L
  <2>1. ASSUME NEW x \in X, Says(x, "RubySafeLevel") PROVE dir_config[x].safe_level \in L
    <3>1. PICK w \in ToSet(written) : w.scope = x /\ w.directive = "RubySafeLevel"
      BY <1>8, <2>1
    <3>2. dir_config[x].safe_level = w.level
      BY <1>4, <2>1, <3>1 DEF LevelAsWritten
    <3>3. QED
      BY <1>7, <2>1, <3>1, <3>2
  <2>2. QED
    BY <2>1
<1>12. \A l \in L : level >= l
  <2>1. ASSUME NEW l \in L PROVE level >= l
    <3>1. PICK w \in ToSet(written) : w.directive = "RubySafeLevel" /\ w.scope \in X /\ l = w.level
      BY <1>7
    <3>2. Says(w.scope, "RubySafeLevel")
      BY <1>8, <3>1
    <3>3. dir_config[w.scope].safe_level = l
      BY <1>4, <3>1, <3>2 DEF LevelAsWritten
    <3>4. QED
      BY <1>9, <1>10, <3>1, <3>3
  <2>2. QED
    BY <2>1
<1>13. \A x \in X : ~ Says(x, "RubySafeLevel") =>
         /\ dir_config[x].safe_level = 1 \/ dir_config[x].safe_level = dir_config["main"].safe_level
         /\ x = "main" => dir_config[x].safe_level = 1
         /\ MainLevelFirst /\ x # "main" => dir_config[x].safe_level = dir_config["main"].safe_level
  BY <1>4, <1>6 DEF LevelAsWritten
<1>14. PICK x \in X : level = dir_config[x].safe_level
  BY <1>9, <1>10
<1>15. level \in L \cup {1}
  BY <1>6, <1>11, <1>13, <1>14
<1>16. ~ Says("main", "RubySafeLevel") => level >= 1
  BY <1>6, <1>9, <1>10, <1>13
<1>17. MainLevelFirst /\ Says("main", "RubySafeLevel") => level \in L
  BY <1>6, <1>11, <1>13, <1>14
<1>18. LevelKept(level, phase)
  BY <1>12, <1>15, <1>16, <1>17 DEF LevelKept, L
<1>19. QED
  BY <1>10, <1>18

\* The time-out of a server.
LEMMA RequestTimeout ==
  ASSUME Sound, AsWritten, stage = "serving"
  PROVE  server_config[Merged(r.server)].timeout = Innermost("init", "RubyTimeOut")
<1> DEFINE s == Scopes("init")
           S == {x \in AllScopes : Says(x, "RubyTimeOut")}
           own(x) == Mine(x, "RubyTimeOut", x, NULL)
<1>1. Innermost("init", "RubyTimeOut") = IF Those(s, S) = <<>> THEN NULL ELSE Last(Those(s, S))
  BY DEF Innermost, Saying
<1>2. s \in Seq(AllScopes) /\ s = <<"main">> \o (Outer \o (<<>> \o <<>>))
  BY ScopesType, ScopesAre DEF Within, Inside, AtLocations
<1>3. PICK h : Keeps(S, s, h) /\ Those(s, S) = h[Len(s)]
  <2> HIDE DEF s, S
  <2>1. QED
    BY <1>2, ThoseSteps, Zenon
<1>4. \A x \in AllScopes : own(x) = (IF x \in S THEN x ELSE NULL) /\ x # NULL
  BY Names DEF Mine
<1>5. h[0] = <<>> /\ \A n \in 0..Len(s) - 1 : h[n + 1] = Keep(S, h[n], s[n + 1])
  BY <1>3 DEF Keeps
<1>6. \A k \in 0..Len(s) : h[k] \in Seq(AllScopes)
  <2> HIDE DEF s, S
  <2>1. QED
    BY <1>2, <1>3, KeepsType
<1>7. Outer \in Seq(Configured) /\ Outer \o (<<>> \o <<>>) = Outer
  <2>1. Outer \in Seq(Configured) /\ <<>> \in Seq(Configured)
    BY PartsType, EmptySeq
  <2>2. <<>> \o <<>> = <<>> /\ Outer \o <<>> = Outer
    BY <2>1, ConcatEmptySeq
  <2>3. QED
    BY <2>1, <2>2
<1>8. CASE r.server = "main"
  <2>1. server_config[Merged(r.server)].timeout = own("main")
    BY <1>8 DEF AsWritten, ServerAsWritten, Merged
  <2>2. s = <<"main">>
    <3>1. Outer = <<>>
      BY <1>8 DEF Outer
    <3>2. <<"main">> \o <<>> = <<"main">>
      OBVIOUS
    <3>3. QED
      BY <1>2, <1>7, <3>1, <3>2
  <2>3. Len(s) = 1 /\ s[1] = "main"
    BY <2>2
  <2> HIDE DEF s, S
  <2>4. h[1] = Keep(S, <<>>, "main")
    <3>1. 0 \in 0..Len(s) - 1 /\ 0 + 1 = 1
      BY <2>3
    <3>2. QED
      BY <1>5, <2>3, <3>1
  <2>5. "main" \in AllScopes /\ <<>> \in Seq(AllScopes)
    BY Names, EmptySeq
  <2>6. own("main") = IF h[1] = <<>> THEN NULL ELSE Last(h[1])
    <3>1. own("main") = IF "main" \in S THEN "main" ELSE NULL
      BY <1>4, <2>5
    <3>2. Append(<<>>, "main") # <<>> /\ Last(Append(<<>>, "main")) = "main"
      BY <2>5, LastOfAppend
    <3> HIDE DEF own
    <3>3. QED
      BY <2>4, <3>1, <3>2 DEF Keep
  <2>7. QED
    BY <1>1, <1>3, <2>1, <2>3, <2>6
<1>9. CASE r.server # "main"
  <2>1. r.server = "vhost" /\ "vhost" \in DOMAIN dir_config /\ "merged" \in DOMAIN dir_config
    BY <1>9, SoundRequest
  <2>2. server_config[Merged(r.server)].timeout = Over(own("main"), own("vhost"))
    BY <2>1 DEF AsWritten, MergedAsWritten, Merged
  <2>3. Len(s) = 2 /\ s[1] = "main" /\ s[2] = "vhost"
    <3>1. Outer = <<"vhost">>
      BY <1>9 DEF Outer
    <3> DEFINE m == <<"main">>
               v == <<"vhost">>
    <3>2. m \in Seq(AllScopes) /\ v \in Seq(AllScopes) /\ Len(m) = 1 /\ Len(v) = 1 /\ m[1] = "main" /\ v[1] = "vhost"
      BY Names
    <3>3. s = m \o v
      BY <1>2, <1>7, <3>1
    <3> HIDE DEF m, v, s
    <3>4. /\ m \o v \in Seq(AllScopes) /\ Len(m) \in Nat /\ Len(v) \in Nat
          /\ Len(m \o v) = Len(m) + Len(v)
          /\ DOMAIN m = 1..Len(m) /\ DOMAIN v = 1..Len(v) /\ DOMAIN (m \o v) = 1..Len(m) + Len(v)
          /\ \A k \in 1..Len(m) : (m \o v)[k] = m[k]
          /\ \A k \in 1..Len(v) : (m \o v)[Len(m) + k] = v[k]
      <4>1. m \in Seq(AllScopes) /\ v \in Seq(AllScopes)
        BY <3>2
      <4>2. QED
        BY <4>1, ConcatFacts
    <3>5. 1 \in 1..1 /\ 1 + 1 = 2
      OBVIOUS
    <3>6. QED
      BY <3>2, <3>3, <3>4, <3>5
  <2> HIDE DEF s, S
  <2>4. h[1] = Keep(S, <<>>, "main") /\ h[2] = Keep(S, h[1], "vhost") /\ h[1] \in Seq(AllScopes)
    <3>1. 0 \in 0..Len(s) - 1 /\ 0 + 1 = 1 /\ 1 \in 0..Len(s) - 1 /\ 1 + 1 = 2 /\ 1 \in 0..Len(s)
      BY <2>3
    <3>2. QED
      BY <1>5, <1>6, <2>3, <3>1
  <2>5. "main" \in AllScopes /\ "vhost" \in AllScopes /\ <<>> \in Seq(AllScopes)
    BY Names, EmptySeq
  <2>6. own("main") = IF h[1] = <<>> THEN NULL ELSE Last(h[1])
    <3>1. own("main") = IF "main" \in S THEN "main" ELSE NULL
      BY <1>4, <2>5
    <3>2. Append(<<>>, "main") # <<>> /\ Last(Append(<<>>, "main")) = "main"
      BY <2>5, LastOfAppend
    <3> HIDE DEF own
    <3>3. QED
      BY <2>4, <3>1, <3>2 DEF Keep
  <2>7. Over(own("main"), own("vhost")) = IF h[2] = <<>> THEN NULL ELSE Last(h[2])
    <3>1. own("vhost") = (IF "vhost" \in S THEN "vhost" ELSE NULL) /\ "vhost" # NULL
      BY <1>4, <2>5
    <3>2. Append(h[1], "vhost") # <<>> /\ Last(Append(h[1], "vhost")) = "vhost"
      BY <2>4, <2>5, LastOfAppend
    <3> HIDE DEF own
    <3>3. QED
      BY <2>4, <2>6, <3>1, <3>2 DEF Keep, Over
  <2>8. QED
    BY <1>1, <1>3, <2>2, <2>3, <2>7
<1>10. QED
  BY <1>8, <1>9

-----------------------------------------------------------------------------
(* What handlers found stays true of the scopes they ran in.               *)

Recalled == last.phase \in Phases \cup {"late_init", "none"}

\* The scopes of a phase stay what they are, and so does what is written in them.
SameScopes(p) ==
  /\ Scopes(p)' = Scopes(p)
  /\ \A w : w.scope \in ToSet(Scopes(p)) => (w \in ToSet(written)' <=> w \in ToSet(written))

\* The request stays with its server.
SameServer == apache2' = apache2 /\ r'.server = r.server

LEMMA SameSays ==
  ASSUME Sound, NEW p, SameScopes(p)
  PROVE  /\ \A s, d : s \in ToSet(Scopes(p)) => (Says(s, d)' <=> Says(s, d))
         /\ \A d : Saying(p, d)' = Saying(p, d) /\ Innermost(p, d)' = Innermost(p, d)
         /\ LevelsOf(p)' = LevelsOf(p)
         /\ MainLevelFirst' <=> MainLevelFirst
         /\ \A d : Says("main", d)' <=> Says("main", d)
<1>1. Scopes(p)' = Scopes(p) /\ "main" \in ToSet(Scopes(p)) /\ Scopes(p) \in Seq(AllScopes)
  BY ScopesElements, ScopesType DEF SameScopes
<1>2. \A w : w.scope \in ToSet(Scopes(p)) => (w \in ToSet(written)' <=> w \in ToSet(written))
  BY DEF SameScopes
<1>3. ASSUME NEW s \in ToSet(Scopes(p)) PROVE \A d : Says(s, d)' <=> Says(s, d)
  <2>1. \A w : w.scope = s => (w \in ToSet(written)' <=> w \in ToSet(written))
    BY <1>2
  <2>2. QED
    BY <2>1, SaysStays
<1>4. ASSUME NEW d PROVE Saying(p, d)' = Saying(p, d)
  <2> DEFINE scopes == Scopes(p)
             S == {s \in AllScopes : Says(s, d)}
             T == {s \in AllScopes : Says(s, d)'}
  <2>1. Saying(p, d) = Those(scopes, S) /\ Saying(p, d)' = Those(scopes, T)
    BY <1>1 DEF Saying
  <2>2. \A s \in ToSet(scopes) : s \in S <=> s \in T
    BY <1>3
  <2>3. scopes \in Seq(AllScopes)
    BY <1>1
  <2> HIDE DEF scopes, S, T
  <2>4. Those(scopes, S) = Those(scopes, T)
    BY <2>2, <2>3, ThoseAgree
  <2>5. QED
    BY <2>1, <2>4
<1>5. ASSUME NEW d PROVE Innermost(p, d)' = Innermost(p, d)
  BY <1>4 DEF Innermost
<1>6. LevelsOf(p)' = LevelsOf(p)
  <2> DEFINE X == ToSet(Scopes(p))
             W == {v \in ToSet(written) : v.directive = "RubySafeLevel" /\ v.scope \in X}
             V == {v \in ToSet(written)' : v.directive = "RubySafeLevel" /\ v.scope \in X}
  <2>1. ToSet(Scopes(p))' = X
    BY <1>1 DEF ToSet
  <2>2. LevelsOf(p) = {w.level : w \in W} /\ LevelsOf(p)' = {w.level : w \in V}
    BY <2>1 DEF LevelsOf
  <2>3. W = V
    BY <1>2
  <2> HIDE DEF W, V
  <2>4. QED
    BY <2>2, <2>3
<1>7. MainLevelFirst' <=> MainLevelFirst
  <2>1. \A w : w.scope = "main" => (w \in ToSet(written)' <=> w \in ToSet(written))
    BY <1>1, <1>2
  <2>2. QED
    BY <2>1 DEF MainLevelFirst
<1>8. QED
  BY <1>1, <1>3, <1>4, <1>5, <1>6, <1>7

LEMMA SameLines ==
  ASSUME Sound, sections' = sections, r'.server = r.server, r'.within = r.within,
         DOMAIN dir_config' = DOMAIN dir_config, written' = written
  PROVE  \A p : SameScopes(p)
<1>1. ToSet(written)' = ToSet(written)
  BY DEF ToSet
<1>2. QED
  BY <1>1, ScopesStay DEF SameScopes

LEMMA HtaccessSameServer ==
  ASSUME Sound, HtaccessRead
  PROVE  r'.server = r.server /\ r'.within = r.within
<1> DEFINE q == Follows("handler", r.dconf)
<1>1. r' = r \/ r' = [r EXCEPT !.phase = q]
  BY DEF HtaccessRead
<1> HIDE DEF q
<1>2. QED
  BY <1>1, SoundRequest DEF RequestRecords

\* While a .htaccess file is read, the scopes of the phases before it stay.
LEMMA HtaccessSameScopes ==
  ASSUME Sound, HtaccessRead, NEW p \in {"init", "post_read", "trans"}
  PROVE  SameScopes(p)
<1>1. /\ sections' = sections
      /\ written' = written
         \/ \E w \in LineRecords : w.scope = "htaccess" /\ written' = Append(written, w)
  BY DEF HtaccessRead
<1>2. r'.server = r.server /\ r'.within = r.within
  BY HtaccessSameServer
<1>3. Scopes(p)' = Scopes(p)
  BY <1>1, <1>2, ScopesStay
<1>4. \A w : w.scope # "htaccess" => (w \in ToSet(written)' <=> w \in ToSet(written))
  <2>1. CASE written' = written
    BY <2>1 DEF ToSet
  <2>2. ASSUME NEW v \in LineRecords, v.scope = "htaccess", written' = Append(written, v)
        PROVE  \A w : w.scope # "htaccess" => (w \in ToSet(written)' <=> w \in ToSet(written))
    <3>1. written \in Seq(LineRecords)
      BY DEF Sound, TypeOK, LineRecords
    <3>2. /\ DOMAIN Append(written, v) = DOMAIN written \cup {Len(written) + 1}
          /\ Append(written, v)[Len(written) + 1] = v
          /\ \A i \in DOMAIN written : Append(written, v)[i] = written[i]
      BY <3>1, AppendElements
    <3>3. ToSet(written') = ToSet(written) \cup {v}
      BY <2>2, <3>2 DEF ToSet
    <3>4. ToSet(written)' = ToSet(written')
      BY DEF ToSet
    <3>5. QED
      BY <2>2, <3>3, <3>4
  <2>3. QED
    BY <1>1, <2>1, <2>2
<1>5. QED
  BY <1>3, <1>4, ScopesElements DEF SameScopes

LEMMA FoundSteps ==
  ASSUME Sound, Progress, Recalled, [Next]_vars
  PROVE  \/ last' = Nothing
         \/ /\ last' = last /\ ran' = ran /\ SameServer
            /\ \A p : p = last.phase /\ Ran => SameScopes(p) /\ SameScopes("init")
         \/ \E phase \in Phases \cup {"late_init"} : Phase(phase)
<1>1. CASE Preparing
  BY <1>1 DEF Preparing, Progress
<1>2. CASE HtaccessRead
  <2>1. r.phase = "htaccess" /\ last' = last /\ ran' = ran
    BY <1>2 DEF HtaccessRead
  <2>2. Ran => last.phase \in {"init", "post_read", "trans"}
    <3>1. ASSUME Ran PROVE last.phase \in {"init", "post_read", "trans"}
      <4>1. last.phase # "none" /\ At(last.phase) < 5
        BY <2>1, <3>1, AtFacts DEF Progress, Ran
      <4>2. last.phase \in Phases \cup {"late_init"}
        BY <4>1 DEF Recalled
      <4>3. last.phase \in ToSet(Order)
        BY <4>2, AtSet
      <4>4. At(last.phase) \in {1, 2, 3, 4} /\ At(last.phase) # 1 /\ Order[At(last.phase)] = last.phase
        BY <4>1, <4>2, <4>3, AtSet
      <4>5. QED
        BY <4>4, OrderFacts
    <3>2. QED
      BY <3>1
  <2>3. SameServer
    BY <1>2, HtaccessSameServer DEF HtaccessRead, SameServer
  <2>4. QED
    BY <1>2, <2>1, <2>2, <2>3, HtaccessSameScopes
<1>3. CASE \E server \in {"main", "vhost"}, within \in SUBSET Open : BeginRequest(server, within)
  BY <1>3 DEF BeginRequest
<1>4. CASE GoesOn
  <2>1. last' = last /\ ran' = ran /\ UNCHANGED <<sections, dir_config, written>>
    BY <1>4, GoesOnKind DEF Serving
  <2>2. \A p : SameScopes(p)
    BY <1>4, <2>1, GoesForward, SameLines
  <2>3. SameServer
    BY <1>4, GoesForward, GoesOnKind DEF Serving, SameServer
  <2>4. QED
    BY <2>1, <2>2, <2>3
<1>5. CASE UNCHANGED vars
  <2>1. last' = last /\ ran' = ran /\ UNCHANGED <<apache2, sections, dir_config, written, r>>
    BY <1>5 DEF vars
  <2>2. \A p : SameScopes(p)
    BY <2>1, SameLines
  <2>3. QED
    BY <2>1, <2>2 DEF SameServer
<1>6. QED
  BY <1>1, <1>2, <1>3, <1>4, <1>5, StepKinds

\* The scopes stay when the handlers of a phase run.
LEMMA PhaseSameServer ==
  ASSUME Sound, NEW phase \in Phases \cup {"late_init"}, Phase(phase)
  PROVE  SameServer
BY PhaseKind, PhaseForward DEF Serving, SameServer

LEMMA PhaseSameScopes ==
  ASSUME Sound, NEW phase \in Phases \cup {"late_init"}, Phase(phase)
  PROVE  \A p : SameScopes(p)
<1>1. UNCHANGED <<sections, dir_config, written>>
  BY PhaseKind DEF Serving
<1>2. QED
  BY <1>1, PhaseForward, SameLines

SettingsFound == Recalled /\ InnermostSettings /\ SafeLevelKept

LEMMA InitSettings == Init => SettingsFound
BY DEF Init, Nothing, SettingsFound, Recalled, InnermostSettings, SafeLevelKept, Ran

LEMMA SettingsStep == Sound /\ Progress /\ AsWritten /\ SettingsFound /\ [Next]_vars => SettingsFound'
<1> SUFFICES ASSUME Sound, Progress, AsWritten, SettingsFound, [Next]_vars PROVE SettingsFound'
  OBVIOUS
<1>1. CASE last' = Nothing
  BY <1>1 DEF Nothing, SettingsFound, Recalled, InnermostSettings, SafeLevelKept, Ran
<1>2. CASE last' = last /\ SameServer /\ \A p : p = last.phase /\ Ran => SameScopes(p) /\ SameScopes("init")
  <2> PICK p : p = last.phase
    OBVIOUS
  <2>1. Ran' <=> Ran
    BY <1>2 DEF Ran
  <2>2. ASSUME Ran PROVE InnermostSettings' /\ SafeLevelKept'
    <3>1. SameScopes(p) /\ SameScopes("init")
      BY <1>2, <2>2
    <3>2. Innermost(p, "RubyKanjiCode")' = Innermost(p, "RubyKanjiCode")
          /\ Innermost("init", "RubyTimeOut")' = Innermost("init", "RubyTimeOut")
      BY <3>1, SameSays
    <3>3. /\ LevelsOf(p)' = LevelsOf(p) /\ (MainLevelFirst' <=> MainLevelFirst)
          /\ Says("main", "RubySafeLevel")' <=> Says("main", "RubySafeLevel")
      BY <3>1, SameSays
    <3>4. last'.phase = p
      BY <1>2
    <3>5. InnermostSettings'
      <4> DEFINE t == Innermost("init", "RubyTimeOut")
      <4>1. last.kcode = Innermost(p, "RubyKanjiCode") /\ last.timeout = TimeOut(t)
        BY <2>2 DEF SettingsFound, InnermostSettings
      <4>2. TimeOut(t)' = TimeOut(t)
        BY <1>2, <3>2 DEF SameServer, TimeOut
      <4>3. last'.timeout = TimeOut(t)' /\ last'.kcode = Innermost(p, "RubyKanjiCode")'
        BY <1>2, <3>2, <4>1, <4>2
      <4>4. QED
        BY <3>4, <4>3 DEF InnermostSettings
    <3>6. SafeLevelKept'
      <4>1. LevelKept(last.safe_level, p)
        BY <2>2 DEF SettingsFound, SafeLevelKept, LevelKept
      <4>2. QED
        BY <1>2, <3>3, <3>4, <4>1 DEF SafeLevelKept, LevelKept
    <3>7. QED
      BY <3>5, <3>6
  <2>3. Recalled'
    BY <1>2 DEF SettingsFound, Recalled
  <2>4. QED
    BY <2>1, <2>2, <2>3 DEF SettingsFound, InnermostSettings, SafeLevelKept
<1>3. ASSUME NEW phase \in Phases \cup {"late_init"}, Phase(phase) PROVE SettingsFound'
  <2>1. /\ r.phase = phase /\ last'.phase = phase /\ last'.kcode = r.dconf.kcode
        /\ last'.safe_level = r.dconf.safe_level
        /\ last'.timeout = TimeOut(server_config[Merged(r.server)].timeout) /\ SameServer
    BY <1>3, PhaseFacts, PhaseSameServer
  <2>2. stage = "serving" /\ r.phase # "none"
    BY <1>3, <2>1, PhaseForward DEF Phases
  <2>3. SameScopes(phase) /\ SameScopes("init")
    BY <1>3, PhaseSameScopes
  <2>4. Innermost(phase, "RubyKanjiCode")' = Innermost(phase, "RubyKanjiCode")
        /\ Innermost("init", "RubyTimeOut")' = Innermost("init", "RubyTimeOut")
    BY <2>3, SameSays
  <2>5. /\ LevelsOf(phase)' = LevelsOf(phase) /\ (MainLevelFirst' <=> MainLevelFirst)
        /\ Says("main", "RubySafeLevel")' <=> Says("main", "RubySafeLevel")
    BY <2>3, SameSays
  <2>6. ASSUME phase \notin {"log", "cleanup"}
        PROVE  InnermostSettings' /\ SafeLevelKept'
    <3>1. Fits(phase)
      BY <2>1, <2>6, PhaseFits
    <3>2. r.dconf.kcode = Innermost(phase, "RubyKanjiCode")
      BY <2>2, <3>1, RequestKcode
    <3>3. LevelKept(r.dconf.safe_level, phase)
      BY <2>2, <3>1, RequestLevel
    <3>4. server_config[Merged(r.server)].timeout = Innermost("init", "RubyTimeOut")
      BY <2>2, RequestTimeout
    <3>5. InnermostSettings'
      <4> DEFINE t == Innermost("init", "RubyTimeOut")
      <4>1. TimeOut(t)' = TimeOut(t)
        BY <2>1, <2>4 DEF SameServer, TimeOut
      <4>2. last'.timeout = TimeOut(t)' /\ last'.kcode = Innermost(phase, "RubyKanjiCode")'
        BY <2>1, <2>4, <3>2, <3>4, <4>1
      <4>3. QED
        BY <2>1, <4>2 DEF InnermostSettings
    <3>6. SafeLevelKept'
      BY <2>1, <2>5, <3>3 DEF SafeLevelKept, LevelKept
    <3>7. QED
      BY <3>5, <3>6
  <2>7. Recalled'
    BY <2>1 DEF Recalled
  <2>8. QED
    BY <2>1, <2>6, <2>7 DEF SettingsFound, InnermostSettings, SafeLevelKept, Ran
<1>4. QED
  BY <1>1, <1>2, <1>3, FoundSteps DEF SettingsFound

LEMMA SettingsAlways == Spec => [](Sound /\ Progress /\ AsWritten /\ SettingsFound)
BY InitSound, SoundStep, InitProgress, ProgressStep, InitAsWritten, AsWrittenStep,
   InitSettings, SettingsStep, PTL DEF Spec

\* Handlers run at the highest of the safe levels of their scopes, whatever order
\* and scopes the levels are in (ruby_merge_dir_config and ruby_handler).
THEOREM SafeLevelNeverLowered == Spec => []SafeLevelKept
BY SettingsAlways, PTL DEF SettingsFound

\* Handlers find the character code and the time-out of the innermost scope that
\* sets them, and none that an earlier request has left.
THEOREM InnermostSettingFound == Spec => []InnermostSettings
BY SettingsAlways, PTL DEF SettingsFound
===========================================================================
