------------------------------- MODULE MCLockOrder -------------------------------
EXTENDS DaemonHandlers
MCHandlers == request_handlers \cup daemon_tasks
==================================================================================
