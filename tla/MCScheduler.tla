----------------------------- MODULE MCScheduler -----------------------------
EXTENDS SchedulerProperties
===============================================================================
