---------------------------- MODULE MitreMapper ----------------------------
(***************************************************************************)
(* The rule-based classification of attacker events                        *)
(* (services/mitre_mapper.py).  An event type is the sequence of its       *)
(* dotted components, so that "web." \o type is <<"web">> \o type; a       *)
(* command or URL path is the set of the rules' keywords it contains.      *)
(***************************************************************************)
EXTENDS Sequences, SequencesExt

(***************************************************************************)
(* The keyword rules, in the order in which the code tries them.  The      *)
(* first seven look at the command, the others (PathRules) at the same     *)
(* text, but only for web events.                                          *)
(***************************************************************************)
CommandRules ==
    << [words |-> {"powershell"}, technique |-> "T1059.001", tactic |-> "execution"],
       [words |-> {"ls", "cat ", "find ", "dir "}, technique |-> "T1083", tactic |-> "discovery"],
       [words |-> {"whoami", "uname"}, technique |-> "T1082", tactic |-> "discovery"],
       [words |-> {"ssh ", "scp "}, technique |-> "T1021", tactic |-> "lateral-movement"],
       [words |-> {"nmap", "netstat", "ss -", "ip a"}, technique |-> "T1046", tactic |-> "discovery"],
       [words |-> {"chmod", "chown", "rm "}, technique |-> "T1070.004", tactic |-> "defense-evasion"],
       [words |-> {"passwd", "shadow", "credential"}, technique |-> "T1003", tactic |-> "credential-access"] >>

\* Mutant of PathRules: the rule for the VPN page is missing.
PathRulesWithoutVpn ==
    << [words |-> {"wp-login"}, technique |-> "T1078", tactic |-> "defense-evasion"],
       [words |-> {"phpmyadmin", "pma"}, technique |-> "T1190", tactic |-> "initial-access"],
       [words |-> {"jenkins", "git", "webmail", "owa", "mail"}, technique |-> "T1078", tactic |-> "defense-evasion"] >>

PathRules ==
    << [words |-> {"wp-login"}, technique |-> "T1078", tactic |-> "defense-evasion"],
       [words |-> {"phpmyadmin", "pma"}, technique |-> "T1190", tactic |-> "initial-access"],
       [words |-> {"jenkins", "git", "webmail", "owa", "mail"}, technique |-> "T1078", tactic |-> "defense-evasion"],
       [words |-> {"vpn"}, technique |-> "T1133", tactic |-> "initial-access"] >>

(***************************************************************************)
(* EVENT_TYPE_RULES: what an event type means when no keyword decides.     *)
(* A row stands for the entries of the table that share its meaning.       *)
(***************************************************************************)
TypeRule(prefix, names, technique, tactic) ==
    [types |-> { <<prefix>> \o n : n \in names }, technique |-> technique, tactic |-> tactic]

CowrieRules ==
    { TypeRule("cowrie", {<<"session", "connect">>}, "T1021", "lateral-movement"),
      TypeRule("cowrie", {<<"session", "closed">>, <<"client", "version">>, <<"client", "kex">>}, "T1046", "discovery"),
      TypeRule("cowrie", {<<"client", "var">>, <<"session", "params">>, <<"client", "size">>}, "T1082", "discovery"),
      TypeRule("cowrie", {<<"login", "failed">>}, "T1110", "credential-access"),
      TypeRule("cowrie", {<<"login", "success">>}, "T1078", "defense-evasion"),
      TypeRule("cowrie", {<<"log", "closed">>}, "T1070.004", "defense-evasion") }

OpenCanaryRules ==
    { TypeRule("opencanary", { <<s, "login">> : s \in {"ftp", "telnet", "smtp", "pop3", "imap", "mysql"} },
               "T1110", "credential-access"),
      TypeRule("opencanary", {<<"smb", "access">>, <<"rdp", "login">>, <<"vnc", "login">>}, "T1021", "lateral-movement"),
      TypeRule("opencanary", {<<"http", "request">>}, "T1190", "initial-access"),
      TypeRule("opencanary", {<<"sip", "call">>}, "T1071.001", "command-and-control"),
      TypeRule("opencanary", {<<"tftp", "request">>}, "T1048", "exfiltration"),
      TypeRule("opencanary", {<<"git", "clone">>}, "T1552.001", "credential-access") }

WebRules ==
    { TypeRule("web", {<<"wp_login">>, <<"jenkins_login">>, <<"gitlab_login">>, <<"webmail_login">>},
               "T1078", "defense-evasion"),
      TypeRule("web", {<<"phpmyadmin">>}, "T1190", "initial-access"),
      TypeRule("web", {<<"vpn_login">>}, "T1133", "initial-access"),
      TypeRule("web", {<<"api_key_harvest">>}, "T1528", "credential-access"),
      TypeRule("web", {<<"credential_harvest">>}, "T1552", "credential-access") }

DionaeaRules ==
    { TypeRule("dionaea", {<<"malware", "download">>}, "T1204", "execution"),
      TypeRule("dionaea", {<<"connection">>}, "T1046", "discovery"),
      TypeRule("dionaea", {<<"smb", "access">>}, "T1021", "lateral-movement"),
      TypeRule("dionaea", {<<"http", "request">>}, "T1190", "initial-access"),
      TypeRule("dionaea", {<<"mssql", "login">>}, "T1110", "credential-access"),
      TypeRule("dionaea", {<<"sip", "call">>}, "T1071.001", "command-and-control"),
      TypeRule("dionaea", {<<"tftp", "request">>}, "T1048", "exfiltration"),
      TypeRule("dionaea", {<<"mssql", "query">>}, "T1213", "collection") }

WordpressRules ==
    { TypeRule("wp", {<<"login_attempt">>}, "T1110", "credential-access"),
      TypeRule("wp", {<<"plugin_scan">>}, "T1046", "discovery"),
      TypeRule("wp", {<<"xmlrpc_attack">>}, "T1190", "initial-access") }

EventTypeRules == CowrieRules \cup OpenCanaryRules \cup WebRules \cup DionaeaRules \cup WordpressRules

NoMatch == [technique |-> "none", tactic |-> "none"]

IsWebEvent(type) == type = <<"http">> \/ Head(type) = "web"

(***************************************************************************)
(* rule_based_match: the first keyword rule that applies, else the table   *)
(* of event types, else nothing.                                           *)
(***************************************************************************)
RuleBasedMatch(type, words) ==
    LET rules == CommandRules \o (IF IsWebEvent(type) THEN PathRules ELSE <<>>)
        hits  == { i \in DOMAIN rules : rules[i].words \cap words # {} }
        typed == { r \in EventTypeRules : type \in r.types }
        rule  == IF hits # {} THEN rules[Min(hits)] ELSE CHOOSE r \in typed : TRUE
    IN  IF hits = {} /\ typed = {} THEN NoMatch
        ELSE [technique |-> rule.technique, tactic |-> rule.tactic]
=============================================================================
