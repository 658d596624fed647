--------------------------- MODULE MCRobotListFeed ---------------------------
EXTENDS RobotListFeed

==============================================================================
