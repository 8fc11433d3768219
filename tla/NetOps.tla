------------------------------- MODULE NetOps -------------------------------
(***************************************************************************)
(* The tasks about the network, the firewall, PostgreSQL and certificates, *)
(* from their mapping to the op on the wire, as in SystemOps.              *)
(***************************************************************************)
EXTENDS SystemOps, SqlFence

Follow == [none |-> 0, safe |-> 1, all |-> 2]
GetUrlOp ==
  [url |-> Needed, dest |-> Needed, checksum |-> Text, mode |-> Mode(None), owner |-> Text, group |-> Text,
   headers |-> Headers, timeout |-> Par("cutmillis", Num(30 * SecondMs)), force |-> Flag(FALSE),
   validate_certs |-> Flag(TRUE), follow_redirects |-> Words(Follow, Num(2)), client_cert |-> Text,
   client_key |-> Text, ca_path |-> Text]
GetUrlRendered ==
  {"url", "dest", "checksum", "mode", "owner", "group", "headers", "client_cert", "client_key", "ca_path"}
PemsThere(p) == IsFile(p.client_cert) /\ IsFile(p.client_key) /\ IsFile(p.ca_path)
\* No mode is mode 0.
GetUrlWire(p) ==
  Checked(PemsThere(p),
          op_get_url(p.url, p.dest, p.checksum, OrZero(p.mode), p.owner, p.group, MapKeys(p.headers),
                     MapValues(p.headers), p.timeout, p.force, p.validate_certs, p.follow_redirects,
                     Pem(p.client_cert), Pem(p.client_key), Pem(p.ca_path)))

UriMethod == [GET |-> 0, POST |-> 1, PUT |-> 2, PATCH |-> 3, DELETE |-> 4, HEAD |-> 5]
BodyFormat == [raw |-> 0, json |-> 1, form |-> 2]
UriOp ==
  [url |-> Needed, method |-> Words(UriMethod, Num(0)), headers |-> Headers,
   body_format |-> Words(BodyFormat, Num(0)), body |-> Scalar(Empty), status_code |-> Par("codes", List(<<Num(20)>>)),
   timeout |-> Seconds(30), return_content |-> Flag(FALSE), validate_certs |-> Flag(TRUE),
   follow_redirects |-> Words(Follow, Num(1)), client_cert |-> Text, client_key |-> Text, ca_path |-> Text]
UriFits(p) == (p.client_cert = Empty) = (p.client_key = Empty)
UriRendered == {"url", "headers", "body", "client_cert", "client_key", "ca_path"}
UriWire(p) ==
  Checked(PemsThere(p),
          op_uri(p.method, p.url, MapKeys(p.headers), MapValues(p.headers), p.body, p.body_format,
                 p.status_code, p.timeout, p.return_content, p.validate_certs, p.follow_redirects,
                 Pem(p.client_cert), Pem(p.client_key), Pem(p.ca_path)))

PortText == Scalar(Empty)
IptablesOp ==
  [table |-> Text, chain |-> Needed, protocol |-> Either(<<"protocol", "proto">>, Text),
   source |-> Either(<<"source", "src">>, Text), destination |-> Either(<<"destination", "dest">>, Text),
   source_port |-> PortText, destination_port |-> PortText, in_interface |-> Text, out_interface |-> Text,
   jump |-> Text, ctstate |-> Text, comment |-> Text, ip_version |-> Words([ipv4 |-> 4, ipv6 |-> 6], Num(4)),
   action |-> Words([append |-> 0, insert |-> 1], Num(0)), state |-> Words([absent |-> 0, present |-> 1], Num(1))]
IptablesRendered == DOMAIN IptablesOp \ {"ip_version", "action", "state"}
IptablesWire(p) ==
  op_iptables(p.table, p.chain, p.protocol, p.source, p.destination, p.source_port, p.destination_port,
              p.in_interface, p.out_interface, p.jump, p.ctstate, p.comment, p.ip_version, p.action, p.state)

UfwKind == [rule |-> 0, enabled |-> 1, disabled |-> 2, reset |-> 3, default |-> 4, reloaded |-> 5, logging |-> 6]
\* A state that is none of the four counts as none.
UfwState == [enabled |-> 1, disabled |-> 2, reset |-> 3, reloaded |-> 5, other |-> 0]
UfwOp ==
  [state |-> Words(UfwState, Num(0)), rule |-> Opt, default |-> Keyed(<<"default", "policy">>, Opt),
   logging |-> Opt, direction |-> Text, proto |-> Text, comment |-> Text,
   interface |-> Either(<<"interface", "if">>, Text), from_ip |-> Either(<<"from_ip", "src", "from">>, Text),
   to_ip |-> Either(<<"to_ip", "dest", "to">>, Text), from_port |-> PortText,
   to_port |-> Either(<<"to_port", "port">>, PortText), delete |-> Flag(FALSE), insert |-> Par("cut", Num(0))]
UfwFits(p) == p.state # Num(0) \/ \E f \in {"rule", "default", "logging"} : p[f] # None
UfwRendered == DOMAIN UfwOp \ {"state", "delete", "insert"}
\* One of the four states wins, then the default policy, then logging, then the rule.
UfwRequest(p) ==
  CASE p.state # Num(0) -> <<p.state, Empty>>
    [] p.default # None -> <<Num(UfwKind.default), p.default>>
    [] p.logging # None -> <<Num(UfwKind.logging), p.logging>>
    [] OTHER -> <<Num(UfwKind.rule), p.rule>>
UfwWire(p) ==
  op_ufw(UfwRequest(p)[1], UfwRequest(p)[2], p.direction, p.proto, p.from_ip, p.from_port, p.to_ip, p.to_port,
         p.interface, p.comment, p.delete, p.insert)

\* take_pg_login_fields
PgLogin ==
  [login_user |-> Text, login_password |-> Text, login_unix_socket |-> Text, login_host |-> Text,
   login_port |-> Par("loginport", Num(0))]
PgLoginRendered == DOMAIN PgLogin \ {"login_port"}
\* resolve_db_alias, without the case of two equal names.
PgDb == [db |-> Keyed(<<"db", "login_db">>, Text)]

PostgresqlQueryOp ==
  [query |-> Filled, autocommit |-> Flag(FALSE), positional_args |-> Par("scalars", Nothing)] @@ PgDb @@ PgLogin
PostgresqlQueryRendered == {"query", "db", "positional_args"} \cup PgLoginRendered
\* Whether it only reads is asked again of the rendered text.
PostgresqlQueryWire(p) ==
  op_postgresql_query(p.query, p.db, p.login_user, p.login_password, p.login_unix_socket, p.login_host,
                      p.login_port, p.autocommit, p.positional_args, Bit(classify_sql_readonly(p.query[2])))

PostgresqlExtOp ==
  [name |-> Filled, state |-> Words(PresentAbsent, Num(0)), version |-> Text,
   ext_schema |-> Keyed(<<"schema">>, Text), cascade |-> Flag(FALSE)] @@ PgDb @@ PgLogin
PostgresqlExtRendered == {"name", "version", "ext_schema", "db"} \cup PgLoginRendered
PostgresqlExtWire(p) ==
  op_postgresql_ext(p.name, p.state, p.version, p.ext_schema, p.cascade, p.db, p.login_user, p.login_password,
                    p.login_unix_socket, p.login_host, p.login_port)

-----------------------------------------------------------------------------
(* The composites: rendered, and handed to the controller's own arms.      *)

PostgresqlUserOp ==
  [name |-> Filled, password |-> Text, role_attr_flags |-> Text, state |-> Words(PresentAbsent, Num(0)),
   no_password_changes |-> Flag(FALSE), conn_limit |-> Small("i32", None)] @@ PgDb @@ PgLogin
PostgresqlUserRendered == {"name", "password", "role_attr_flags", "db"} \cup PgLoginRendered

PostgresqlDbOp ==
  [name |-> Filled, owner |-> Text, encoding |-> Text, lc_collate |-> Text, lc_ctype |-> Text,
   template |-> Text, state |-> Words(PresentAbsent, Num(0))] @@ PgLogin
PostgresqlDbRendered == {"name", "owner", "encoding", "lc_collate", "lc_ctype", "template"} \cup PgLoginRendered

PostgresqlMembershipOp ==
  [groups |-> Keyed(<<"group", "groups">>, Texts(Must)),
   target_roles |-> Keyed(<<"target_role", "target_roles">>, Texts(Must)),
   state |-> Words(PresentAbsent, Num(0)), fail_on_role |-> Flag(TRUE)] @@ PgDb @@ PgLogin
PostgresqlMembershipFits(p) == Nothing \notin {p.groups, p.target_roles}
PostgresqlMembershipRendered == {"groups", "target_roles", "db"} \cup PgLoginRendered

OpenSslPrivkeyOp ==
  [path |-> Filled, type |-> Words([RSA |-> 0, ED25519 |-> 1], Num(0)), size |-> Small("u32", Num(40)),
   mode |-> Mode(Num(0)), owner |-> Opt, group |-> Opt, force_probe |-> Flag(FALSE)]
\* Only the path is rendered.
OpenSslPrivkeyRendered == {"path"}

OpenSslCsrPipeOp ==
  [privatekey_path |-> Filled, common_name |-> Filled, country_name |-> Text, organization_name |-> Text,
   organizational_unit_name |-> Text, subject_alt_name |-> Texts(Nothing), key_usage |-> Texts(Nothing),
   extended_key_usage |-> Texts(Nothing), basic_constraints |-> Texts(Nothing), digest |-> Text,
   basic_constraints_critical |-> Flag(FALSE), key_usage_critical |-> Flag(FALSE)]
OpenSslCsrPipeFits(p) ==
  /\ p.basic_constraints # Nothing => p.basic_constraints_critical = Bit(TRUE)
  /\ p.key_usage # Nothing => p.key_usage_critical = Bit(TRUE)
OpenSslCsrPipeRendered ==
  DOMAIN OpenSslCsrPipeOp \ {"digest", "basic_constraints_critical", "key_usage_critical"}

X509CertificatePipeOp ==
  [csr_content |-> Filled, privatekey_content |-> Text, privatekey_path |-> Text,
   provider |-> Words([selfsigned |-> 0, ownca |-> 1], Num(0)), valid_for_days |-> Small("u32", None),
   selfsigned_not_after |-> Par("days", None), selfsigned_digest |-> Text, ownca_content |-> Text,
   ownca_privatekey_content |-> Text, ownca_privatekey_path |-> Text, ownca_not_after |-> Par("days", None),
   ownca_digest |-> Text]
NotAfter(p) == IF p.provider = Num(0) THEN p.selfsigned_not_after ELSE p.ownca_not_after
OneOf(a, b) == (a = Empty) # (b = Empty)
X509CertificatePipeFits(p) ==
  /\ None \in {p.selfsigned_not_after, p.ownca_not_after}
  /\ None \in {p.valid_for_days, NotAfter(p)}
  /\ IF p.provider = Num(0)
     THEN /\ OneOf(p.privatekey_content, p.privatekey_path)
          /\ {p.ownca_content, p.ownca_privatekey_content, p.ownca_privatekey_path, p.ownca_digest} = {Empty}
          /\ p.ownca_not_after = None
     ELSE /\ p.ownca_content # Empty
          /\ OneOf(p.ownca_privatekey_content, p.ownca_privatekey_path)
          /\ {p.privatekey_content, p.privatekey_path} = {Empty}
X509CertificatePipeRendered ==
  DOMAIN X509CertificatePipeOp \ {"provider", "valid_for_days", "selfsigned_digest", "ownca_digest"}
\* How long it is valid: what was said, the provider's own duration, or a year.
X509CertificatePipeFields(p) ==
  [f \in DOMAIN p \ {"selfsigned_not_after", "ownca_not_after"} |->
     IF f # "valid_for_days" \/ p[f] # None THEN p[f]
     ELSE IF NotAfter(p) # None THEN NotAfter(p) ELSE Num(36)]

TempfileOp ==
  [state |-> Words([file |-> 0, directory |-> 1], Num(0)), suffix |-> Text, prefix |-> TextOr(24), path |-> Opt]
TempfileRendered == {"suffix", "prefix", "path"}
=============================================================================
