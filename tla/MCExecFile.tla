---------------------------- MODULE MCExecFile -----------------------------
(* A small instance of ExecFile for TLC.                                   *)
EXTENDS ExecFile

\* Linux other than Android, where closures.c defines FFI_MMAP_EXEC_WRIT and
\* HAVE_MNTENT: two mounts files end the list.
MountOpts == <<FALSE, TRUE, TRUE>>

\* A platform whose configuration asks for FFI_MMAP_EXEC_WRIT and has no
\* HAVE_MNTENT: every option is tried once.
PlainOpts == <<FALSE, FALSE, FALSE>>
=============================================================================
