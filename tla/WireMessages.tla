----------------------------- MODULE WireMessages -----------------------------
(***************************************************************************)
(* The constructors of msg.rs: arguments by position in, a message or an   *)
(* op by field out.  Everything is a tagged value; an Option is its value  *)
(* or None.  A constructor that adds nothing to another one is left out.   *)
(***************************************************************************)
EXTENDS WireTypes

None == <<"none", <<>>>>
Empty == <<"str", <<>>>>
Num(n) == <<"num", n>>
Bit(b) == Num(IF b THEN 1 ELSE 0)
List(vs) == <<"list", vs>>

Has(v) == Bit(v # None)
OrZero(v) == IF v = None THEN Num(0) ELSE v
OrEmpty(v) == IF v = None THEN Empty ELSE v

op_exec(argv, env_keys, env_values, cwd, stdin, timeout_ms) ==
  [t |-> "OpExec", argv |-> argv, env_keys |-> env_keys, env_values |-> env_values,
   cwd |-> cwd, stdin |-> stdin, timeout_ms |-> timeout_ms]
op_shell(command, env_keys, env_values, timeout_ms) ==
  [t |-> "OpShell", command |-> command, env_keys |-> env_keys, env_values |-> env_values,
   timeout_ms |-> timeout_ms]
op_write_file(path, mode, only_if_missing, content, validate, owner, group) ==
  [t |-> "OpWriteFile", path |-> path, mode |-> mode, only_if_missing |-> only_if_missing,
   content |-> content, validate |-> validate, owner |-> owner, group |-> group]
op_gather_facts == [t |-> "OpGatherFacts"]
op_stat(path, follow) == [t |-> "OpStat", path |-> path, follow |-> follow]
op_wait_for(host, port, path, state, timeout_ms, delay_ms, sleep_ms) ==
  [t |-> "OpWaitFor", host |-> host, port |-> port, path |-> path, state |-> state,
   timeout_ms |-> timeout_ms, delay_ms |-> delay_ms, sleep_ms |-> sleep_ms]
op_file(path, state, mode, owner, group, recurse, src) ==
  [t |-> "OpFile", path |-> path, state |-> state, has_mode |-> Has(mode),
   mode |-> OrZero(mode), owner |-> owner, group |-> group, recurse |-> recurse, src |-> src]
op_lineinfile(path, regexp, line, state, mode, create, insertbefore, insertafter, backrefs, validate) ==
  [t |-> "OpLineInFile", path |-> path, regexp |-> regexp, line |-> line, state |-> state,
   has_mode |-> Has(mode), mode |-> OrZero(mode), create |-> create,
   insertbefore |-> insertbefore, insertafter |-> insertafter, backrefs |-> backrefs,
   validate |-> validate]
op_blockinfile(path, block, marker, marker_begin, marker_end, state, mode, create, insertbefore, insertafter, validate) ==
  [t |-> "OpBlockInFile", path |-> path, block |-> block, marker |-> marker,
   marker_begin |-> marker_begin, marker_end |-> marker_end, state |-> state,
   has_mode |-> Has(mode), mode |-> OrZero(mode), create |-> create,
   insertbefore |-> insertbefore, insertafter |-> insertafter, validate |-> validate]
op_systemd(name, state, enabled, masked, daemon_reload, no_block) ==
  [t |-> "OpSystemd", name |-> name, state |-> state, has_enabled |-> Has(enabled),
   enabled |-> OrZero(enabled), has_masked |-> Has(masked), masked |-> OrZero(masked),
   daemon_reload |-> daemon_reload, no_block |-> no_block]
op_package(manager, names, state, update_cache, cache_valid_time, purge, autoremove, default_release, allow_unauthenticated, virtualenv, virtualenv_command) ==
  [t |-> "OpPackage", manager |-> manager, names |-> names, state |-> state,
   update_cache |-> update_cache, cache_valid_time |-> cache_valid_time, purge |-> purge,
   autoremove |-> autoremove, default_release |-> default_release,
   allow_unauthenticated |-> allow_unauthenticated, virtualenv |-> virtualenv,
   virtualenv_command |-> virtualenv_command]
op_repository(manager, repo, state, filename, mode, update_cache) ==
  [t |-> "OpRepository", manager |-> manager, repo |-> repo, state |-> state,
   filename |-> filename, mode |-> mode, update_cache |-> update_cache]
op_group(name, state, system) ==
  [t |-> "OpGroup", name |-> name, state |-> state, system |-> system]
op_user(name, state, system, shell, home, create_home, primary_group, groups, append) ==
  [t |-> "OpUser", name |-> name, state |-> state, system |-> system, has_shell |-> Has(shell),
   shell |-> OrEmpty(shell), has_home |-> Has(home), home |-> OrEmpty(home),
   create_home |-> create_home, primary_group |-> primary_group, groups |-> groups,
   append |-> append]
op_authorized_key(user, key, state, exclusive) ==
  [t |-> "OpAuthorizedKey", user |-> user, key |-> key, state |-> state,
   exclusive |-> exclusive]
op_getent(database, key, fail_key, split) ==
  [t |-> "OpGetent", database |-> database, key |-> key, fail_key |-> fail_key, split |-> split]
op_hostname(name) == [t |-> "OpHostname", name |-> name]
op_timezone(name) == [t |-> "OpTimezone", name |-> name]
op_modprobe(name, state, params) ==
  [t |-> "OpModprobe", name |-> name, state |-> state, params |-> params]
op_ufw(op, rule, direction, proto, from_ip, from_port, to_ip, to_port, interface, comment, delete, insert) ==
  [t |-> "OpUfw", op |-> op, rule |-> rule, direction |-> direction, proto |-> proto,
   from_ip |-> from_ip, from_port |-> from_port, to_ip |-> to_ip, to_port |-> to_port,
   interface |-> interface, comment |-> comment, delete |-> delete, insert |-> insert]
op_iptables(table, chain, protocol, source, destination, source_port, destination_port, in_interface, out_interface, jump, ctstate, comment, ip_version, action, rule_state) ==
  [t |-> "OpIptables", table |-> table, chain |-> chain, protocol |-> protocol,
   source |-> source, destination |-> destination, source_port |-> source_port,
   destination_port |-> destination_port, in_interface |-> in_interface,
   out_interface |-> out_interface, jump |-> jump, ctstate |-> ctstate, comment |-> comment,
   ip_version |-> ip_version, action |-> action, rule_state |-> rule_state]
op_uri(method, url, header_keys, header_values, body, body_format, status_codes, timeout_ms, return_content, validate_certs, follow_redirects, client_cert_pem, client_key_pem, ca_bundle_pem) ==
  [t |-> "OpUri", method |-> method, url |-> url, header_keys |-> header_keys,
   header_values |-> header_values, body |-> body, body_format |-> body_format,
   status_codes |-> status_codes, timeout_ms |-> timeout_ms, return_content |-> return_content,
   validate_certs |-> validate_certs, follow_redirects |-> follow_redirects,
   client_cert_pem |-> client_cert_pem, client_key_pem |-> client_key_pem,
   ca_bundle_pem |-> ca_bundle_pem]
op_postgresql_query(query, db, login_user, login_password, login_unix_socket, login_host, login_port, autocommit, positional_args, read_only) ==
  [t |-> "OpPostgresqlQuery", query |-> query, db |-> db, login_user |-> login_user,
   login_password |-> login_password, login_unix_socket |-> login_unix_socket,
   login_host |-> login_host, login_port |-> login_port, autocommit |-> autocommit,
   positional_args |-> positional_args, read_only |-> read_only]
op_postgresql_ext(name, state, version, ext_schema, cascade, db, login_user, login_password, login_unix_socket, login_host, login_port) ==
  [t |-> "OpPostgresqlExt", name |-> name, state |-> state, version |-> version,
   ext_schema |-> ext_schema, cascade |-> cascade, db |-> db, login_user |-> login_user,
   login_password |-> login_password, login_unix_socket |-> login_unix_socket,
   login_host |-> login_host, login_port |-> login_port]
op_get_url(url, dest, checksum, mode, owner, group, header_keys, header_values, timeout_ms, force, validate_certs, follow_redirects, client_cert_pem, client_key_pem, ca_bundle_pem) ==
  [t |-> "OpGetUrl", url |-> url, dest |-> dest, checksum |-> checksum, mode |-> mode,
   owner |-> owner, group |-> group, header_keys |-> header_keys,
   header_values |-> header_values, timeout_ms |-> timeout_ms, force |-> force,
   validate_certs |-> validate_certs, follow_redirects |-> follow_redirects,
   client_cert_pem |-> client_cert_pem, client_key_pem |-> client_key_pem,
   ca_bundle_pem |-> ca_bundle_pem]
op_async_start(timeout_ms, inner) ==
  [t |-> "OpAsyncStart", timeout_ms |-> timeout_ms, inner |-> inner]
op_async_status(job_id) == [t |-> "OpAsyncStatus", job_id |-> job_id]
op_read_file(path, max_bytes) == [t |-> "OpReadFile", path |-> path, max_bytes |-> max_bytes]
op_unarchive(src, dest, format, creates, has_mode, mode, owner, group, keep_newer, list_files, include, exclude) ==
  [t |-> "OpUnarchive", src |-> src, dest |-> dest, format |-> format, creates |-> creates,
   has_mode |-> has_mode, mode |-> mode, owner |-> owner, group |-> group,
   keep_newer |-> keep_newer, list_files |-> list_files, include |-> include,
   exclude |-> exclude]
op_copy_target(src, dest, mode, owner, group, validate) ==
  [t |-> "OpCopyTarget", src |-> src, dest |-> dest, has_mode |-> Has(mode),
   mode |-> OrZero(mode), owner |-> owner, group |-> group, validate |-> validate]
hello(arch, os, kernel, hostname, uid, gid, agent_version) ==
  [t |-> "Hello", arch |-> arch, os |-> os, kernel |-> kernel, hostname |-> hostname,
   uid |-> uid, gid |-> gid, agent_version |-> agent_version]
task_dispatch_with_diff(seq, check_mode, diff, op) ==
  [t |-> "TaskDispatch", seq |-> seq, check_mode |-> check_mode, diff |-> diff, op |-> op]
task_progress(seq, stream, chunk) ==
  [t |-> "TaskProgress", seq |-> seq, stream |-> stream, chunk |-> chunk]
task_done_with_diff(seq, exit_code, changed, skipped, started_unix_ns, finished_unix_ns, diff) ==
  [t |-> "TaskDone", seq |-> seq, exit_code |-> exit_code, changed |-> changed,
   skipped |-> skipped, started_unix_ns |-> started_unix_ns,
   finished_unix_ns |-> finished_unix_ns, diff |-> diff]
task_error(seq, code, message) ==
  [t |-> "TaskError", seq |-> seq, code |-> code, message |-> message]
bye == [t |-> "Bye"]
ping == [t |-> "Ping"]
pong(agent_recv_unix_ns, agent_sent_unix_ns) ==
  [t |-> "Pong", agent_recv_unix_ns |-> agent_recv_unix_ns,
   agent_sent_unix_ns |-> agent_sent_unix_ns]
=============================================================================
