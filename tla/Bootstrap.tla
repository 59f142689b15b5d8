----------------------------- MODULE Bootstrap -----------------------------
(***************************************************************************)
(* What runc hands to the bootstrap stages: the netlink message            *)
(* (container_linux.go, configs/namespaces_linux.go) and the list of       *)
(* descriptors for bind mounts.                                            *)
(*                                                                         *)
(* A configuration c has the fields                                        *)
(*   mode      "init" (initStandard) or "setns" (initSetns)                *)
(*   ns        namespace type -> "host", "new" or "path" (joined)          *)
(*   mounts    sequence over {"bind", "other"}                             *)
(*   rootless  RootlessEUID                                                *)
(*   single    the only gid mapping is the caller's own gid to 0           *)
(*   tool      newuidmap and newgidmap are installed                       *)
(*   seccomp   no listener, or one loaded before or after setupUser        *)
(***************************************************************************)
EXTENDS Naturals, Sequences

NamespaceTypes == <<"user", "ipc", "uts", "net", "pid", "mnt", "cgroup">>
Types == {NamespaceTypes[i] : i \in DOMAIN NamespaceTypes}

ContainsNs(c, t) == c.ns[t] # "host"
CloneFlags(c)  == {t \in Types : c.ns[t] = "new"}
PathsOf(c)     == {t \in Types : c.ns[t] = "path"}

orderNamespacePaths(paths) == SelectSeq(NamespaceTypes, LAMBDA t : t \in paths)

IsBind(c, i) == c.mounts[i] = "bind"

shouldSendMountSources(c) ==
  /\ ContainsNs(c, "user") /\ ContainsNs(c, "mnt")
  /\ ~c.rootless
  /\ \E i \in DOMAIN c.mounts : IsBind(c, i)

requiresRootOrMappingTool(c) == ~c.single

\* A new container creates and joins; runc exec joins all the namespaces of a
\* container that already has them.  mountsources is one NUL-terminated string
\* for each mount: its source (here its index), or the empty string (here 0).
bootstrapData(c) ==
  LET joined == IF c.mode = "init" THEN PathsOf(c) ELSE {t \in Types : ContainsNs(c, t)}
      maps   == ContainsNs(c, "user") /\ "user" \notin joined
  IN  [cloneflags |-> IF c.mode = "init" THEN CloneFlags(c) ELSE {},
       namespaces |-> orderNamespacePaths(joined),
       idmaps     |-> maps,
       tool       |-> maps /\ c.rootless /\ c.tool,
       setgroup   |-> maps /\ requiresRootOrMappingTool(c),
       rootless   |-> c.rootless,
       mountsources |->
         IF c.mode = "init" /\ shouldSendMountSources(c)
           THEN [i \in DOMAIN c.mounts |-> IF IsBind(c, i) THEN i ELSE 0] ELSE <<>>]

\* mutant of mountFds: the list is built from the last mount to the first
mountFdsReversed(c) ==
  LET n == Len(c.mounts)
  IN  IF c.mode = "init" /\ shouldSendMountSources(c)
        THEN SelectSeq([i \in 1..n |-> n + 1 - i], LAMBDA i : IsBind(c, i)) ELSE <<>>

\* _LIBCONTAINER_MOUNT_FDS: the mounts that get a descriptor, in order.  The
\* others have -1 in the list.
mountFds(c) ==
  IF c.mode = "init" /\ shouldSendMountSources(c)
    THEN SelectSeq([i \in DOMAIN c.mounts |-> i], LAMBDA i : IsBind(c, i)) ELSE <<>>

\* What the configuration validator and specconv let through.
Valid(c) ==
  /\ c.rootless => c.ns["user"] = "new"
  /\ c.mode = "setns" => \A t \in Types : c.ns[t] # "new"
=============================================================================
