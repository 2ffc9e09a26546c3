---------------------------- MODULE Configuration ----------------------------
(***************************************************************************)
(* The Ruby directives: how they are read into the configurations of       *)
(* servers and sections, how these are merged for a request, and what the  *)
(* handlers of its phases find (ruby_config.c, and the phases' functions   *)
(* of mod_ruby.c).  A configuration file is read line by line; then a      *)
(* child starts its interpreter, which requires libraries, and serves      *)
(* requests, each in some of the sections and maybe with a .htaccess file. *)
(*                                                                         *)
(* The scopes are "main", "vhost", the sections and "htaccess".  A         *)
(* directive's argument is the name of the scope it is in, which tells     *)
(* apart what the properties compare; RubySafeLevel has a number.          *)
(***************************************************************************)
EXTENDS Integers, SequencesExt

CONSTANTS
  SectionNames,   \* the sections in the order they are opened
  Levels,         \* arguments of RubySafeLevel
  Topics,         \* sequences of directives: a configuration is made of one of
                  \* them, and every scope has them in this order
  MaxLines,       \* bound: directives in the file
  MaxHtaccess,    \* bound: directives in a .htaccess file
  MaxRequests,    \* bound: requests, if there is
  Lasting,        \* a directive of these, whose effects may outlast one; or one
  OneAccessFileName, \* is AccessFileName a single name?
  TooLong,        \* <<scope, server>> if the scope's RubyTimeOut is not below
                  \* the TimeOut of the server
  NULL

Phases == {"init", "post_read", "trans", "header_parser", "access", "authen", "authz",
           "type", "fixup", "handler", "log", "cleanup"}

Directives ==
  {"RubySafeLevel", "RubyAddPath", "RubyRequire", "RubyKanjiCode", "RubyOutputMode",
   "RubyRestrictDirectives", "RubySetEnv", "RubyPassEnv", "RubyTimeOut"} \cup Phases

Sections  == ToSet(SectionNames)
AllScopes == {"main", "vhost", "htaccess"} \cup Sections

ASSUME ConfigurationAssumption ==
  /\ SectionNames \in Seq(Sections)
  /\ \A i, j \in DOMAIN SectionNames : SectionNames[i] = SectionNames[j] => i = j
  /\ Sections \cap {"main", "vhost", "merged", "htaccess", "lib", "passed"} = {}
  /\ Levels \subseteq Int
  /\ Topics \subseteq Seq(Directives)
  /\ OneAccessFileName \in BOOLEAN
  /\ TooLong \subseteq AllScopes \X {"main", "vhost"}
  /\ NULL \notin AllScopes \cup Seq(AllScopes) \cup {"lib", "passed"}

VARIABLES
  apache2,        \* whether it is Apache 2.x; never changes
  topic,          \* the directives used; never changes
  stage,          \* "reading" the file, "starting" the child, "serving"
  current,        \* the scope whose lines are being read
  sections,       \* those opened so far, [name, server, kind]
  default_safe_level,
  server_config,  \* of "main", of "vhost" as read, and "merged"
  dir_config,     \* of every scope, and "merged" for the virtual host
  required,       \* ruby_required_libraries
  ruby,           \* the interpreter: load_path, default_load_path and kcode
  r,              \* the request
  last,           \* what the last handlers that were run found
  written,        \* history: the directives read, in order; early: when only
                  \* the main server had a configuration
  loaded,         \* history: the libraries required, with the load path
  ran             \* history: the handlers of the request that were run

vars == <<apache2, topic, stage, current, sections, default_safe_level, server_config,
          dir_config, required, ruby, r, last, written, loaded, ran>>

\* The elements of a sequence that are in a set, in the sequence's order.
Those(s, S) == FoldLeft(LAMBDA kept, x : IF x \in S THEN Append(kept, x) ELSE kept, <<>>, s)
\* The first place of an element; 0 if there is none.
First(s, x) == SelectInSeq(s, LAMBDA y : y = x)

-----------------------------------------------------------------------------
(* Configurations.                                                         *)

CreateServerConfig ==
  [load_path |-> <<>>, env |-> <<>>, timeout |-> NULL, restrict_directives |-> FALSE]

CreateDirConfig(level) ==
  [safe_level |-> level, kcode |-> NULL, output_mode |-> NULL, load_path |-> NULL,
   env |-> <<>>, handlers |-> [p \in Phases |-> NULL]]

\* kcode, output_mode and timeout: what is 0 says nothing.
Over(base, add) == IF add = NULL THEN base ELSE add
\* apr_table_overlay, of tables with one key: get finds the first value.
OverlayAlone(base, add) == IF add = <<>> THEN base ELSE add
Overlay(base, add) == add \o base
\* load_path: the inner one follows.
MergePath(base, add) ==
  IF add = NULL THEN base ELSE IF base = NULL THEN add ELSE base \o add
\* merge_handlers: the inner ones come first.
OuterFirst(base, add) ==
  IF base = NULL THEN add ELSE IF add = NULL THEN base ELSE base \o add
AddAlone(base, add) == IF base = NULL \/ add = NULL THEN add ELSE add \o base
MergeHandlers(base, add) ==
  IF base = NULL THEN add ELSE IF add = NULL THEN base ELSE add \o base
InnerLevel(base, add) == add
MergeLevel(base, add) == IF add >= base THEN add ELSE base

InnerFlag(base, add) == add
MergeFlag(base, add) == base \/ add

MergeServerConfig(base, add) ==
  [load_path |-> MergePath(base.load_path, add.load_path),
   env |-> Overlay(base.env, add.env),
   timeout |-> Over(base.timeout, add.timeout),
   restrict_directives |-> MergeFlag(base.restrict_directives, add.restrict_directives)]

MergeDirConfig(base, add) ==
  [safe_level |-> MergeLevel(base.safe_level, add.safe_level),
   kcode |-> Over(base.kcode, add.kcode),
   output_mode |-> Over(base.output_mode, add.output_mode),
   load_path |-> MergePath(base.load_path, add.load_path),
   env |-> Overlay(base.env, add.env),
   handlers |-> [p \in Phases |-> MergeHandlers(base.handlers[p], add.handlers[p])]]

-----------------------------------------------------------------------------
NoRequest == [phase |-> "none", count |-> 0, server |-> "main", within |-> {},
              dconf |-> NULL, ruby_init_ran |-> FALSE, object |-> FALSE,
              output_mode |-> NULL]
Nothing == [phase |-> "none", load_path |-> <<>>, kcode |-> NULL, env |-> NULL,
            safe_level |-> 0, timeout |-> NULL, output_mode |-> NULL]

Init ==
  /\ apache2 \in BOOLEAN
  /\ topic \in Topics
  /\ stage = "reading"
  /\ current = "main"
  /\ sections = <<>>
  /\ default_safe_level = 1
  /\ server_config = [s \in {"main", "vhost", "merged"} |-> CreateServerConfig]
  /\ dir_config = [s \in {"main"} |-> CreateDirConfig(1)]
  /\ required = <<>>
  /\ ruby = [load_path |-> <<>>, default_load_path |-> <<>>, kcode |-> NULL]
  /\ r = NoRequest
  /\ last = Nothing
  /\ written = <<>>
  /\ loaded = <<>>
  /\ ran = <<>>

-----------------------------------------------------------------------------
(* The phases of a request: their order and the walks that find the        *)
(* configuration for it are Apache's.                                      *)

Order == <<"read", "init", "post_read", "trans", "htaccess", "late_init", "header_parser",
           "access", "authen", "authz", "type", "fixup", "handler", "log", "cleanup", "none">>

\* ruby_header_parser_handler runs the init handlers if none were run; there is
\* no such hook with Apache 2.x.
RunsAnyway == ~ apache2
RunsLateInit == ~ apache2 /\ ~ r.ruby_init_ran

\* ruby_cleanup_handler is registered when the request was read, and finds the
\* configuration that the request has in the end.
ConfigAtRead(dconf) == dir_config[IF r.server = "main" THEN "main" ELSE "merged"]
CleanupConfig(dconf) == dconf

\* The phase after one.  Without handlers a phase is over at once; in the
\* walks the sections of the request are found.
Follows(phase, dconf) ==
  LET after == SubSeq(Order, SelectInSeq(Order, LAMBDA p : p = phase) + 1, Len(Order))
      Stops(p) ==
        \/ p \in {"trans", "htaccess", "none"}
        \/ p \in Phases \ {"cleanup"} /\ dconf.handlers[p] # NULL
           /\ (p = "header_parser" => ~ apache2)
        \/ p = "cleanup" /\ CleanupConfig(dconf).handlers[p] # NULL
        \/ p = "late_init" /\ dconf.handlers["init"] # NULL /\ RunsLateInit
  IN  after[SelectInSeq(after, Stops)]

-----------------------------------------------------------------------------
(* Reading the file and .htaccess files.                                   *)

Open == {s.name : s \in ToSet(sections)}
IsServer(scope) == scope \in {"main", "vhost"}
\* The server a scope is in, and the configuration a server ends up with.
ServerOf(scope) ==
  IF IsServer(scope) THEN scope
  ELSE IF scope = "htaccess" THEN r.server
  ELSE (CHOOSE s \in ToSet(sections) : s.name = scope).server
Merged(server) == IF server = "main" THEN "main" ELSE "merged"
\* cmd->server's: while the file is read nothing is merged.
CmdServer == IF current = "htaccess" THEN Merged(r.server) ELSE ServerOf(current)

\* RSRC_CONF; the others are OR_ALL.
ServerOnly == {"RubyPassEnv", "RubyTimeOut", "RubyRestrictDirectives", "post_read"}

InScope(scope) == {i \in DOMAIN written : written[i].scope = scope}
\* Only of RubySafeLevel it matters where it is: a server's other lines come
\* before its sections, those of the main one before the virtual host.
Early ==
  /\ \A s \in ToSet(sections) : s.server # current
  /\ current = "main" => "vhost" \notin DOMAIN dir_config

\* A line with the directive, which is used once in every scope; only the
\* argument of RubySafeLevel is noted.
Place(directive) == First(topic, directive)
Line(directive, level) ==
  /\ directive \in ToSet(topic)
  /\ directive = "RubySafeLevel" \/ Early
  /\ \/ stage = "reading" /\ Len(written) < MaxLines
     \/ r.phase = "htaccess" /\ current = "htaccess" /\ Cardinality(InScope("htaccess")) < MaxHtaccess
  /\ \A i \in DOMAIN written :
       written[i].scope = current => Place(written[i].directive) < Place(directive)
  /\ written' = Append(written, [scope |-> current, directive |-> directive, level |-> level,
                                 early |-> DOMAIN dir_config = {"main"}])
  /\ UNCHANGED <<apache2, topic, stage, current, sections, last, ran>>

\* check_restrict_directives.  is_from_htaccess knows the file by its name's end,
\* which it compares with AccessFileName as it was given, all names in one.
Refused ==
  /\ current = "htaccess" /\ OneAccessFileName
  /\ server_config[CmdServer].restrict_directives

Allowed(directive, level) ==
  /\ Line(directive, level)
  /\ ~ Refused
  /\ r' = r

\* Apache answers a request with an error when its .htaccess file has one.
RefusedLine ==
  /\ Refused
  /\ \E directive \in ToSet(topic) \ ServerOnly : Line(directive, NULL)
  /\ r' = [r EXCEPT !.phase = Follows("handler", r.dconf)]
  /\ UNCHANGED <<default_safe_level, server_config, dir_config, required, ruby, loaded>>

\* ruby_cmd_kanji_code and others change a field of the section's own
\* configuration.
DirSetting(directive, conf) ==
  /\ Allowed(directive, NULL)
  /\ dir_config' = [dir_config EXCEPT ![current] = conf]
  /\ UNCHANGED <<default_safe_level, server_config, required, ruby, loaded>>

RubyKanjiCode == DirSetting("RubyKanjiCode", [dir_config[current] EXCEPT !.kcode = current])
RubyOutputMode ==
  DirSetting("RubyOutputMode", [dir_config[current] EXCEPT !.output_mode = current])

\* push_handler: apr_array_push makes a place for the entry, which is filled in.
PushedEmpty(array, x) == IF array = NULL THEN <<NULL>> ELSE Append(array, NULL)
Pushed(array, x) == IF array = NULL THEN <<x>> ELSE Append(array, x)

\* ruby_cmd_handler and the others with push_handler.
RubyHandler(phase) ==
  /\ phase \in ServerOnly => IsServer(current)
  /\ DirSetting(phase,
       [dir_config[current] EXCEPT !.handlers[phase] = Pushed(@, current)])

\* Directives of servers only.
ServerSetting(directive, conf) ==
  /\ IsServer(current)
  /\ Allowed(directive, NULL)
  /\ server_config' = [server_config EXCEPT ![current] = conf]
  /\ UNCHANGED <<default_safe_level, dir_config, required, ruby, loaded>>

RubyTimeOut == ServerSetting("RubyTimeOut", [server_config[current] EXCEPT !.timeout = current])
\* With on: off says what is so by default.
RubyRestrictDirectives ==
  ServerSetting("RubyRestrictDirectives",
    [server_config[current] EXCEPT !.restrict_directives = TRUE])
RubyPassEnv == ServerSetting("RubyPassEnv", [server_config[current] EXCEPT !.env = <<"passed">>])

RubyAddPath ==
  IF IsServer(current)
    THEN ServerSetting("RubyAddPath", [server_config[current] EXCEPT !.load_path = Append(@, current)])
    ELSE DirSetting("RubyAddPath", [dir_config[current] EXCEPT !.load_path = Pushed(@, current)])

RubySetEnv ==
  /\ Allowed("RubySetEnv", NULL)
  /\ dir_config' = [dir_config EXCEPT ![current].env = <<current>>]
  /\ server_config' = IF IsServer(current)
       THEN [server_config EXCEPT ![current].env = <<current>>] ELSE server_config
  /\ UNCHANGED <<default_safe_level, required, ruby, loaded>>

\* RubySafeLevel of the main server is the default of what is read later.
DefaultLevel(level) == IF current = "main" THEN level ELSE default_safe_level
RubySafeLevel(level) ==
  /\ Allowed("RubySafeLevel", level)
  /\ dir_config' = [dir_config EXCEPT ![current].safe_level = level]
  /\ default_safe_level' = DefaultLevel(level)
  /\ UNCHANGED <<server_config, required, ruby, loaded>>

\* mod_ruby_setup_loadpath.
PathOf(conf) == IF conf = NULL \/ conf.load_path = NULL THEN <<>> ELSE conf.load_path
AddToLoadPath(sconf, dconf) == ruby.load_path \o PathOf(sconf) \o PathOf(dconf)
SetupLoadpath(sconf, dconf) == ruby.default_load_path \o PathOf(sconf) \o PathOf(dconf)

\* ruby_cmd_require: at once in a child that serves requests.
RubyRequire ==
  /\ Allowed("RubyRequire", NULL)
  /\ IF stage = "serving"
       THEN LET path == SetupLoadpath(server_config[CmdServer], dir_config[current])
            IN  /\ ruby' = [ruby EXCEPT !.load_path = path]
                /\ loaded' = Append(loaded, [library |-> current, path |-> path])
                /\ UNCHANGED required
       ELSE /\ required' = Append(required, current)
            /\ UNCHANGED <<ruby, loaded>>
  /\ UNCHANGED <<default_safe_level, server_config, dir_config>>

\* The beginning of a virtual host or of a section, with room for a line.
Opened(scope) ==
  /\ current' = scope
  /\ dir_config' = [s \in DOMAIN dir_config \cup {scope} |->
                     IF s = scope THEN CreateDirConfig(default_safe_level) ELSE dir_config[s]]
  /\ UNCHANGED <<apache2, topic, default_safe_level, server_config, required, ruby, last,
                 loaded, ran>>

OpenVirtualHost ==
  /\ stage = "reading" /\ Len(written) < MaxLines
  /\ current = "main" /\ sections = <<>> /\ "vhost" \notin DOMAIN dir_config
  /\ Opened("vhost")
  /\ UNCHANGED <<stage, sections, r, written>>

OpenSection(kind) ==
  /\ stage = "reading" /\ Len(written) < MaxLines
  /\ IsServer(current)
  /\ Len(sections) < Len(SectionNames)
  /\ LET name == SectionNames[Len(sections) + 1]
     IN  /\ Opened(name)
         /\ sections' = Append(sections, [name |-> name, server |-> current, kind |-> kind])
  /\ UNCHANGED <<stage, r, written>>

\* The end of a virtual host or section; one without lines is no different
\* from none.
CloseSection ==
  /\ stage = "reading"
  /\ current # "main"
  /\ InScope(current) # {} \/ \E s \in ToSet(sections) : s.server = current
  /\ current' = IF current = "vhost" THEN "main" ELSE ServerOf(current)
  /\ UNCHANGED <<apache2, topic, stage, sections, default_safe_level, server_config,
                 dir_config, required, ruby, r, last, written, loaded, ran>>

\* The configurations of servers are merged; a server of which there is no
\* virtual host keeps what it has.
EndOfFile ==
  /\ stage = "reading"
  /\ current = "main"
  /\ stage' = "starting"
  /\ IF "vhost" \in DOMAIN dir_config
       THEN /\ server_config' = [server_config EXCEPT !["merged"] =
                 MergeServerConfig(server_config["main"], server_config["vhost"])]
            /\ dir_config' = [s \in DOMAIN dir_config \cup {"merged"} |->
                 IF s = "merged" THEN MergeDirConfig(dir_config["main"], dir_config["vhost"])
                 ELSE dir_config[s]]
       ELSE UNCHANGED <<server_config, dir_config>>
  /\ UNCHANGED <<apache2, topic, current, sections, default_safe_level, required, ruby, r,
                 last, written, loaded, ran>>

\* ruby_init_interpreter: the main server's load path becomes everybody's,
\* then the libraries are required one by one (ruby_require_directly); one
\* that fails is logged.  The configurations are those read, not merged ones.
InitInterpreter ==
  LET default == <<"lib">> \o server_config["main"].load_path
      sconf(scope) == IF ServerOf(scope) = "main" THEN NULL ELSE server_config["vhost"]
      path(scope) == default \o PathOf(sconf(scope)) \o PathOf(dir_config[scope])
  IN  /\ stage = "starting"
      /\ stage' = "serving"
      /\ server_config' = [server_config EXCEPT !["main"].load_path = NULL]
      /\ loaded' = [i \in DOMAIN required |->
                      [library |-> required[i], path |-> path(required[i])]]
      /\ ruby' = [ruby EXCEPT !.default_load_path = default,
                              !.load_path = IF required = <<>> THEN default
                                            ELSE path(Last(required))]
      /\ UNCHANGED <<apache2, topic, current, sections, default_safe_level, dir_config,
                     required, r, last, written, ran>>

-----------------------------------------------------------------------------
(* Requests.                                                               *)

\* The handlers of a phase, each named for the scope it comes from.
RunAll == {"init", "late_init", "post_read", "header_parser", "access", "fixup", "log",
           "cleanup"}
HandlersOf(phase) ==
  IF phase = "late_init" THEN r.dconf.handlers["init"]
  ELSE IF phase = "cleanup" THEN CleanupConfig(r.dconf).handlers["cleanup"]
  ELSE r.dconf.handlers[phase]
Handlers(phase) == IF HandlersOf(phase) = NULL THEN <<>> ELSE HandlersOf(phase)

\* rb_setup_cgi_env: every setting of the tables in turn, the server's first.
EnvOf(sconf, dconf) ==
  LET settings == sconf.env \o dconf.env
  IN  IF settings = <<>> THEN NULL ELSE Last(settings)

LeaveKcode(kcode) == kcode
RestoreKcode(kcode) == NULL

\* With Apache 1.x a time-out that is not below the server's TimeOut is none.
TimeOut(timeout) ==
  IF ~ apache2 /\ <<timeout, r.server>> \in TooLong THEN NULL ELSE timeout

\* ruby_handler: runs the first n of the handlers, the last of which ends with
\* a status: an error, or OK.  A handler that declines makes the next one run,
\* as OK does where all are to run.  The object of the request is made, with
\* the output mode of the configuration, for its first handler.  No handler is
\* run within another one, as by lookup_uri, which would leave it its path.
RunHandlers(phase, n, status) ==
  LET sconf == server_config[Merged(r.server)]
      path == SetupLoadpath(sconf, r.dconf)
      kcode == IF r.dconf.kcode = NULL THEN ruby.kcode ELSE r.dconf.kcode
      mode == IF r.object THEN r.output_mode ELSE r.dconf.output_mode
      handlers == Handlers(phase)
  IN  /\ \/ n = Len(handlers)
         \/ n < Len(handlers) /\ status = "error"
         \/ n < Len(handlers) /\ status = "OK" /\ phase \notin RunAll
      /\ ran' = ran \o [i \in 1..n |-> [phase |-> r.phase, scope |-> handlers[i]]]
      /\ last' = [phase |-> r.phase, load_path |-> path, kcode |-> kcode,
                  env |-> EnvOf(sconf, r.dconf), safe_level |-> r.dconf.safe_level,
                  timeout |-> TimeOut(sconf.timeout), output_mode |-> mode]
      /\ ruby' = [ruby EXCEPT !.load_path = path, !.kcode = RestoreKcode(kcode)]

\* Sections of a kind that the request is in, and the merge of their
\* configurations, which Apache 2.x makes before it merges the result.
OfRequest(kind) == {s \in ToSet(sections) : s.kind = kind /\ s.name \in r.within}
Matching(kind) ==
  LET its == Those(sections, OfRequest(kind))
  IN  [i \in DOMAIN its |-> dir_config[its[i].name]]
Htaccess == IF "htaccess" \in DOMAIN dir_config THEN <<dir_config["htaccess"]>> ELSE <<>>
Walk(base, confs) ==
  IF confs = <<>> THEN base
  ELSE IF apache2 THEN MergeDirConfig(base, FoldLeft(MergeDirConfig, Head(confs), Tail(confs)))
  ELSE FoldLeft(MergeDirConfig, base, confs)

\* The URI is translated with what its locations say, for nothing else is known.
ConfigFor(phase) ==
  IF phase = "trans" THEN Walk(dir_config[Merged(r.server)], Matching("Location")) ELSE r.dconf

GoOn(phase) == r' = [r EXCEPT !.phase = phase, !.dconf = ConfigFor(phase)]
RequestStays == UNCHANGED <<apache2, topic, stage, sections, default_safe_level,
                            server_config, required>>

\* A request comes, for a server, and is in all sections of the server and of
\* the main one, or in all but one.
BeginRequest(server, within) ==
  /\ stage = "serving"
  /\ r.phase = "none"
  /\ r.count = 0 \/ (r.count < MaxRequests /\ ToSet(topic) \cap Lasting # {})
  /\ server = "vhost" => "vhost" \in DOMAIN dir_config
  /\ LET visible == {name \in Open : ServerOf(name) \in {"main", server}}
     IN  within \subseteq visible /\ Cardinality(visible \ within) <= 1
  /\ r' = [NoRequest EXCEPT !.phase = "read", !.count = r.count + 1, !.server = server,
                            !.within = within, !.dconf = dir_config[Merged(server)]]
  /\ current' = "main"
  /\ last' = Nothing
  /\ ran' = <<>>
  /\ written' = Those(written, {w \in ToSet(written) : w.scope # "htaccess"})
  /\ loaded' = Those(loaded, {l \in ToSet(loaded) : l.library # "htaccess"})
  /\ dir_config' = [s \in DOMAIN dir_config \ {"htaccess"} |-> dir_config[s]]
  /\ UNCHANGED ruby
  /\ RequestStays

\* ruby_post_read_request_handler, whose first step is to register
\* ruby_cleanup_handler.
PostReadRequest ==
  /\ r.phase = "read"
  /\ GoOn(Follows("read", r.dconf))
  /\ UNCHANGED <<current, dir_config, ruby, last, written, loaded, ran>>
  /\ RequestStays

\* The function of a phase's hook; an error ends the request.
NoteInit(phase) == r.ruby_init_ran \/ phase = "init"
Phase(phase) ==
  /\ r.phase = phase
  /\ \E n \in 1..Len(Handlers(phase)), status \in {"OK", "error"} :
       /\ RunHandlers(phase, n, status)
       /\ LET next == IF phase \notin {"log", "cleanup"} /\ status = "error"
                        THEN Follows("handler", r.dconf)
                      ELSE Follows(phase, r.dconf)
          IN  r' = [r EXCEPT !.phase = next, !.dconf = ConfigFor(next), !.object = TRUE,
                             !.output_mode = IF r.object THEN @ ELSE r.dconf.output_mode,
                             !.ruby_init_ran = NoteInit(phase)]
  /\ UNCHANGED <<current, dir_config, written, loaded>>
  /\ RequestStays

\* Without handlers for the translation.
NoTranslation ==
  /\ r.phase = "trans"
  /\ Handlers("trans") = <<>>
  /\ GoOn("htaccess")
  /\ UNCHANGED <<current, dir_config, ruby, last, written, loaded, ran>>
  /\ RequestStays

OpenHtaccess ==
  /\ r.phase = "htaccess"
  /\ current # "htaccess"
  /\ MaxHtaccess > 0
  /\ Opened("htaccess")
  /\ UNCHANGED <<stage, sections, r, written>>

\* The walks end: the configuration is that of the server, the directories
\* with the .htaccess file, and the locations.
EndOfWalks ==
  /\ r.phase = "htaccess"
  /\ LET directory == Walk(dir_config[Merged(r.server)], Matching("Directory") \o Htaccess)
         dconf == Walk(directory, Matching("Location"))
     IN  r' = [r EXCEPT !.phase = Follows("htaccess", dconf), !.dconf = dconf]
  /\ UNCHANGED <<current, dir_config, ruby, last, written, loaded, ran>>
  /\ RequestStays

\* The child waits for requests.
Idle ==
  /\ stage = "serving"
  /\ r.phase = "none"
  /\ UNCHANGED vars

Next ==
  \/ RubyKanjiCode
  \/ RubyOutputMode
  \/ \E phase \in Phases : RubyHandler(phase)
  \/ RubyTimeOut
  \/ RubyRestrictDirectives
  \/ RubyPassEnv
  \/ RubyAddPath
  \/ RubySetEnv
  \/ \E level \in Levels : RubySafeLevel(level)
  \/ RubyRequire
  \/ RefusedLine
  \/ OpenVirtualHost
  \/ \E kind \in {"Directory", "Location"} : OpenSection(kind)
  \/ CloseSection
  \/ EndOfFile
  \/ InitInterpreter
  \/ \E server \in {"main", "vhost"}, within \in SUBSET Open : BeginRequest(server, within)
  \/ PostReadRequest
  \/ \E phase \in Phases \cup {"late_init"} : Phase(phase)
  \/ NoTranslation
  \/ OpenHtaccess
  \/ EndOfWalks
  \/ Idle

Spec == Init /\ [][Next]_vars

-----------------------------------------------------------------------------
(* Properties.                                                             *)

\* What is configured, of values from a set.  A list may be missing, which is not
\* the same as empty.
Lists(Values) == Seq(Values) \cup {NULL}
Settings(Values) == Values \cup {NULL}
DirConfigs(Values) ==
  [safe_level : Int, kcode : Settings(Values), output_mode : Settings(Values),
   load_path : Lists(Values), env : Seq(Values), handlers : [Phases -> Lists(Values)]]
ServerConfigs(Values) ==
  [load_path : Lists(Values), env : Seq(Values \cup {"passed"}), timeout : Settings(Values),
   restrict_directives : BOOLEAN]
Paths == Seq(AllScopes \cup {"lib"})

\* That a configuration is missing is not a configuration.
ASSUME MissingAssumption == NULL \notin DirConfigs(AllScopes) \cup ServerConfigs(AllScopes)

\* Every variable has its type: a level is a number in whatever scope and however
\* merged, a list is missing or names scopes, and only a server passes an
\* environment of its own.
TypeOK ==
  /\ apache2 \in BOOLEAN
  /\ topic \in Topics
  /\ stage \in {"reading", "starting", "serving"}
  /\ current \in AllScopes
  /\ sections \in Seq([name : Sections, server : {"main", "vhost"}, kind : {"Directory", "Location"}])
  /\ default_safe_level \in Int
  /\ server_config \in [{"main", "vhost", "merged"} -> ServerConfigs(AllScopes)]
  /\ DOMAIN dir_config \subseteq AllScopes \cup {"merged"}
  /\ dir_config \in [DOMAIN dir_config -> DirConfigs(AllScopes)]
  /\ required \in Seq(AllScopes)
  /\ ruby \in [load_path : Paths, default_load_path : Paths, kcode : Settings(AllScopes)]
  /\ r \in [phase : ToSet(Order), count : Nat, server : {"main", "vhost"},
            within : SUBSET Sections, dconf : DirConfigs(AllScopes) \cup {NULL}, ruby_init_ran : BOOLEAN,
            object : BOOLEAN, output_mode : Settings(AllScopes)]
  /\ last \in [phase : ToSet(Order), load_path : Paths, kcode : Settings(AllScopes),
               env : Settings(AllScopes) \cup {"passed"}, safe_level : Int, timeout : Settings(AllScopes),
               output_mode : Settings(AllScopes)]
  /\ written \in Seq([scope : AllScopes, directive : Directives, level : Int \cup {NULL},
                      early : BOOLEAN])
  /\ loaded \in Seq([library : AllScopes, path : Paths])
  /\ ran \in Seq([phase : Phases \cup {"late_init"}, scope : AllScopes])

SectionsOf(kind) ==
  LET its == Those(sections, OfRequest(kind))
  IN  [i \in DOMAIN its |-> its[i].name]
\* The scopes that apply in a phase, outermost first.
Scopes(phase) ==
  (IF r.server = "main" THEN <<"main">> ELSE <<"main", "vhost">>)
    \o (IF phase \in {"init", "post_read", "trans"} THEN <<>>
        ELSE SectionsOf("Directory")
               \o (IF "htaccess" \in DOMAIN dir_config THEN <<"htaccess">> ELSE <<>>))
    \o (IF phase \in {"init", "post_read"} THEN <<>> ELSE SectionsOf("Location"))
Says(scope, directive) ==
  \E i \in DOMAIN written : written[i].scope = scope /\ written[i].directive = directive
Saying(phase, directive) == Those(Scopes(phase), {s \in AllScopes : Says(s, directive)})
Innermost(phase, directive) ==
  LET saying == Saying(phase, directive) IN IF saying = <<>> THEN NULL ELSE Last(saying)

\* What handlers found, in a phase of which the scopes are known: after an
\* error log and cleanup handlers may be those of the server alone.
Ran == last.phase \notin {"none", "log", "cleanup"}
LevelsOf(phase) == {w.level : w \in {v \in ToSet(written) :
                      v.directive = "RubySafeLevel" /\ v.scope \in ToSet(Scopes(phase))}}
MainLevelFirst ==
  \A w \in ToSet(written) : w.scope = "main" /\ w.directive = "RubySafeLevel" => w.early

\* Handlers run at the highest of the safe levels that the scopes they are in
\* ask for, which no section and no .htaccess file lowers.  The default of 1
\* counts only where the main server has no level of its own, provided that it
\* comes before whatever depends on it.
SafeLevelKept ==
  Ran =>
    /\ \A level \in LevelsOf(last.phase) : last.safe_level >= level
    /\ last.safe_level \in LevelsOf(last.phase) \cup {1}
    /\ ~ Says("main", "RubySafeLevel") => last.safe_level >= 1
    /\ MainLevelFirst /\ Says("main", "RubySafeLevel") => last.safe_level \in LevelsOf(last.phase)

\* Handlers and the libraries required for a scope see the interpreter's own
\* path, then those of the scopes around them from the outside in, and no path
\* of a scope they are not in, whatever ran or was required before.  A library
\* sees those of its servers and of its own section; one that a .htaccess file
\* requires is loaded at once and sees what the file has added before (PathFirst).
Sees(path, scopes) ==
  LET saying == Those(scopes, {s \in AllScopes : Says(s, "RubyAddPath")})
  IN  /\ ToSet(path) = {"lib"} \cup ToSet(saying)
      /\ \A i, j \in DOMAIN saying : i < j => First(path, saying[i]) < First(path, saying[j])
ServersOf(scope) == IF ServerOf(scope) = "main" THEN <<"main">> ELSE <<"main", "vhost">>
PathFirst ==
  "RubyRequire" \in ToSet(topic) => ~ (Place("RubyRequire") < Place("RubyAddPath"))
PathsInScope ==
  /\ Ran => Sees(last.load_path, Scopes(last.phase))
  /\ \A i \in DOMAIN loaded :
       LET scope == loaded[i].library
       IN  scope # "htaccess" \/ PathFirst =>
             Sees(loaded[i].path, ServersOf(scope) \o (IF IsServer(scope) THEN <<>> ELSE <<scope>>))

\* The character code and the time-out are those of the innermost scope that
\* sets them, an outer one not even when the inner time-out is too long to be
\* used; a character code set for one request is not there in the next.
InnermostSettings ==
  Ran => /\ last.kcode = Innermost(last.phase, "RubyKanjiCode")
         /\ last.timeout = TimeOut(Innermost("init", "RubyTimeOut"))

\* The handlers of a phase run from the inside out, each once, up to the one
\* that ends the phase.
InsideOut ==
  Ran => LET phase == IF last.phase = "late_init" THEN "init" ELSE last.phase
             those == Those(ran, {x \in ToSet(ran) : x.phase = last.phase})
         IN  IsPrefix([i \in DOMAIN those |-> those[i].scope],
                      Reverse(Saying(last.phase, phase)))

\* No init handler is run twice for a request, though those of the server are
\* run before the sections are known, and are in their configurations too.
InitOnce ==
  \A i, j \in DOMAIN ran :
    ran[i].phase \in {"init", "late_init"} /\ ran[j].phase \in {"init", "late_init"}
      /\ ran[i].scope = ran[j].scope => i = j

\* Where the server or the main server restricts the directives, nothing that a
\* .htaccess file says comes into effect: no handler of it runs, no library
\* is required, no setting is found.  That is so if AccessFileName is one name;
\* with several no file is taken for a .htaccess file.
RestrictedHtaccess ==
  OneAccessFileName
    /\ (Says("main", "RubyRestrictDirectives")
        \/ (r.server = "vhost" /\ Says("vhost", "RubyRestrictDirectives"))) =>
    /\ \A i \in DOMAIN ran : ran[i].scope # "htaccess"
    /\ \A i \in DOMAIN loaded : loaded[i].library # "htaccess"
    /\ "htaccess" \notin ToSet(last.load_path) \cup {last.kcode, last.env}

AfterWalks == (Phases \ {"init", "post_read", "trans", "log", "cleanup"}) \cup {"late_init"}

\* Cleanup handlers of sections run, though the cleanup is registered before
\* the sections are known.
CleanupOfSections ==
  r.phase = "none" /\ (\E i \in DOMAIN ran : ran[i].phase \in AfterWalks) =>
    LET cleanups == Those(ran, {x \in ToSet(ran) : x.phase = "cleanup"})
        innermost == Innermost("handler", "cleanup")
    IN  IF cleanups = <<>> THEN innermost = NULL ELSE cleanups[1].scope = innermost

\* The configurations of a request may be merged in groups, as Apache 2.x does,
\* or one by one.
GroupsMergeAlike ==
  r.phase \in AfterWalks =>
    r.dconf = FoldLeft(MergeDirConfig, dir_config[Merged(r.server)],
                       Matching("Directory") \o Htaccess \o Matching("Location"))

\* A variable that scopes of the request set is set for its handlers, and none
\* that only other scopes set: as all settings are made in turn, those of outer
\* scopes after those of inner ones, to the value of the outermost one.  What a
\* server passes on of its own environment counts less than that.
EnvOfScopes ==
  Ran => LET saying == Saying(last.phase, "RubySetEnv")
             passing == Those(Scopes("init"), {s \in AllScopes : Says(s, "RubyPassEnv")})
         IN  last.env = IF saying # <<>> THEN Head(saying)
                        ELSE IF passing # <<>> THEN "passed" ELSE NULL

\* With Apache 1.x, an init handler of a section runs for the requests in it
\* that come to the content phase.
SectionInitRuns ==
  last.phase = "handler" /\ ~ apache2 => \A scope \in ToSet(Saying("handler", "init")) :
    \E i \in DOMAIN ran : ran[i].phase \in {"init", "late_init"} /\ ran[i].scope = scope
=============================================================================
