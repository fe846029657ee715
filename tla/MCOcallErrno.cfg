CONSTANTS
  Errno = {4, 9, 22}
  Einval = 22
  InHandler = {"u_read_ocall", "u_malloc_ocall", "u_recvmsg_ocall"}
  MaxDepth = 3
  Buf = 100
  BufLen = 8
SPECIFICATION Spec
INVARIANT ErrnoIsOfTheCall
INVARIANT PasswdIsRelative
